----------------------------- MODULE Calculator -----------------------------
(***************************************************************************)
(* A program that computes with one of the numeric types of packages/types *)
(* in any order of operations: it holds a value, `left`, and an operand,   *)
(* `right`, which may be any; an operation that is not refused replaces    *)
(* the value by its result.                                                *)
(***************************************************************************)
EXTENDS Composites

CONSTANTS
  Types,         \* the integer types computed with
  ElementTypes,  \* those that fractions and composites are made of
  MaxPart,       \* bound: on what a value of parts, or without a range, goes on with
  MaxPower,      \* bound: on the exponents of what has no range
  Shapes,        \* the shapes, as <<rows, columns>>, of matrices
  Parts,         \* what the elements and the components of the operands are taken from
  Ten, PRECISION, MAXIMUM_ADJUSTED_EXPONENT, MINIMUM_EXPONENT,  \* of decimals
  EXACT_DIGIT_LIMIT, GUARD_DIGITS, LARGEST_PLAIN, SMALLEST_PLAIN,
  RoundedPlaces, \* the places decimals are rounded to
  FRACTION_BITS, MaximumExponent, One, DoubleBits  \* of floats

D == INSTANCE Decimals
F == INSTANCE Floats

ASSUME CalculatorAssumption ==
  /\ MaxPart \in Nat /\ MaxPower \in Nat
  /\ D!DecimalAssumption
  /\ F!FloatAssumption

VARIABLES
  kind,   \* of the type
  type,   \* the integer type, its own or its elements'
  left,
  right

vars == <<kind, type, left, right>>

-----------------------------------------------------------------------------
(* Values.                                                                 *)

Whole(t) == IF t = Unbounded THEN -MaxPart .. MaxPart ELSE minimum(t) .. maximum(t)

IsReduced(t, f) ==
  /\ is(t, f.numerator) /\ is(t, f.denominator) /\ f.denominator > 0
  /\ Divisor[Magnitude(f.numerator), f.denominator] = 1

IsDecimal(d) ==
  \/ d \in {D!NotANumber, D!infinity(TRUE), D!infinity(FALSE), D!zero(TRUE), D!zero(FALSE)}
  \/ /\ d.kind = "finite" /\ d.coefficient \in 1 .. Ten ^ PRECISION - 1 /\ d.coefficient % Ten # 0
     /\ d.exponent >= MINIMUM_EXPONENT
     /\ D!adjustedExponent(d) <= MAXIMUM_ADJUSTED_EXPONENT

IsFloat(x) ==
  \/ x \in {F!Nan, F!Infinite(TRUE), F!Infinite(FALSE)}
  \/ /\ x.kind = "finite" /\ x.bottom = 1 /\ x.top \in 0 .. F!maximumFloat
     /\ LET spacing == IF x.top < 2 ^ FRACTION_BITS THEN 1
                       ELSE 2 ^ (F!Log2[x.top, 1] - FRACTION_BITS)
        IN x.top % spacing = 0

Decimals ==
  {D!NotANumber} \cup {D!infinity(n) : n \in BOOLEAN} \cup {D!zero(n) : n \in BOOLEAN} \cup
  {d \in {D!DecimalParts("finite", n, c, e) :
            n \in BOOLEAN, c \in 1 .. Ten ^ PRECISION - 1,
            e \in MINIMUM_EXPONENT .. MAXIMUM_ADJUSTED_EXPONENT} : IsDecimal(d)}

Floats ==
  {F!Nan} \cup {F!Infinite(n) : n \in BOOLEAN} \cup
  {x \in {F!Finite(n, m, 1) : n \in BOOLEAN, m \in 0 .. F!maximumFloat} : IsFloat(x)}

Fractions(t) ==
  {f \in {Pair(n, d) : n \in Whole(t), d \in Whole(t) \cap Nat} : IsReduced(t, f)}

Matrices == UNION {{Matrix(s[1], s[2], e) : e \in [1 .. s[1] * s[2] -> Parts]} : s \in Shapes}
Components(k) == IF k = "complex" THEN 2 ELSE 4

Operands(k, t) ==
  CASE k = "integer" -> Whole(t)
    [] k = "fraction" -> Fractions(t)
    [] k = "decimal" -> Decimals
    [] k = "float" -> Floats
    [] k = "matrix" -> Matrices
    [] k \in {"complex", "quaternion"} -> [1 .. Components(k) -> Parts]

-----------------------------------------------------------------------------
(* Operations: what each comes to, of every type of its kind.               *)

\* A power without a range is taken of small exponents only.
MayRaise(t, y) == t # Unbounded \/ y \in -MaxPower .. MaxPower

IntegerResults(t, x, y) ==
  {add(t, x, y), subtract(t, x, y), multiply(t, x, y), divide(t, x, y), remainder(t, x, y),
   negate(t, x), increment(t, x), decrement(t, x)}
  \cup (IF MayRaise(t, y) THEN {power(t, x, y)} ELSE {})
  \cup (IF t = Unbounded THEN {} ELSE
         {wrap(t, x + y), bitwiseAnd(t, x, y), bitwiseOr(t, x, y), bitwiseXor(t, x, y),
          bitwiseNot(t, x), shiftLeft(t, x, y), shiftRight(t, x, y), shiftRightLogical(t, x, y)})

FractionResults(t, x, y) ==
  {addFractions(t, x, y), subtractFractions(t, x, y), multiplyFractions(t, x, y),
   divideFractions(t, x, y), remainderFractions(t, x, y),
   negateFraction(t, x), incrementFraction(t, x), decrementFraction(t, x),
   fromParts(t, x.numerator, y.numerator), fromWhole(t, x.numerator)}
  \cup (IF MayRaise(t, y.numerator) THEN {powerFractions(t, x, y)} ELSE {})

DecimalPowers == -3 .. 3

DecimalResults(x, y, mode) ==
  {D!add(x, y, mode), D!subtract(x, y, mode), D!multiply(x, y, mode), D!divide(x, y, mode),
   D!remainder(x, y), D!negate(x), D!absolute(x)}
  \cup {D!roundParts(x, places, mode) : places \in RoundedPlaces}
  \cup (IF D!IsWhole(y) /\ D!toBigInt(y) \in DecimalPowers
        THEN {D!powerParts(x, D!toBigInt(y), mode)} ELSE {})

\* Of the double each operation of the engine comes to.
FloatResults(x, y, off) ==
  {F!roundToHalfPrecision(z, off) :
     z \in {F!Plus(x, y), F!Plus(x, F!Negated(y)), F!Times(x, y), F!Over(x, y), F!Modulo(x, y),
            F!Plus(x, F!Finite(FALSE, One, 1)), F!Plus(x, F!Finite(TRUE, One, 1))}}
  \cup {F!Negated(x)}

Rows(x) == [r \in 1 .. x.rows |-> [c \in 1 .. x.columns |-> At(x, r, c)]]

MatrixResults(t, x, y) ==
  {addMatrices(t, x, y), subtractMatrices(t, x, y), multiplyMatrices(t, x, y), negateMatrix(t, x),
   scaleMatrix(t, x, y.elements[1]), transpose(x), identity(x.rows, x.columns),
   fromRows(t, Rows(x), x.rows, x.columns), fromElements(t, x.elements, x.rows, x.columns)}

RecordResults(t, x, y) ==
  {addEach(t, x, y), subtractEach(t, x, y), negateEach(t, x), conjugate(t, x),
   scaleEach(t, x, y[1]), productRule(t, x, y), divideHypercomplex(t, x, y),
   fromRecord(t, y), fromReal(t, y[1], Len(x))}

-----------------------------------------------------------------------------

Init ==
  /\ kind \in {"integer", "fraction", "decimal", "float", "matrix", "complex", "quaternion"}
  /\ type \in IF kind = "integer" THEN Types ELSE IF kind \in {"decimal", "float"} THEN {Unbounded}
              ELSE ElementTypes
  /\ left \in Operands(kind, type)
  /\ right \in Operands(kind, type)

Go(value) ==
  /\ left' = value
  /\ UNCHANGED <<kind, type, right>>

Small(x) == x \in -MaxPart .. MaxPart

Integer ==
  /\ kind = "integer"
  /\ \E outcome \in IntegerResults(type, left, right) :
       /\ Succeeds(outcome) /\ (type # Unbounded \/ Small(outcome.value))
       /\ Go(outcome.value)

Fraction ==
  /\ kind = "fraction"
  /\ \E outcome \in FractionResults(type, left, right) :
       /\ Succeeds(outcome)
       /\ type # Unbounded \/ (Small(outcome.value.numerator) /\ Small(outcome.value.denominator))
       /\ Go(outcome.value)

Decimal ==
  /\ kind = "decimal"
  /\ \E mode \in D!RoundingModes : \E d \in DecimalResults(left, right, mode) : Go(d)

FloatingPoint ==
  /\ kind = "float"
  /\ \E off \in -1 .. 1 : \E x \in FloatResults(left, right, off) : Go(x)

MatrixOrVector ==
  /\ kind = "matrix"
  /\ \E outcome \in MatrixResults(type, left, right) :
       /\ Succeeds(outcome)
       /\ \A i \in DOMAIN outcome.value.elements : Small(outcome.value.elements[i])
       /\ Go(outcome.value)

Hypercomplex ==
  /\ kind \in {"complex", "quaternion"}
  /\ \E outcome \in RecordResults(type, left, right) :
       /\ Succeeds(outcome)
       /\ \A i \in DOMAIN outcome.value : Small(outcome.value[i])
       /\ Go(outcome.value)

\* The texts of a decimal: as it is, and in the forms of some digits.
ShownPlaces == 0 .. 3

Texts(d) ==
  {D!formatDecimal(d)} \cup
  (IF d.kind # "finite" THEN {}
   ELSE UNION {{D!formatFixed(d, places, mode), D!formatPrecision(d, places + 1, mode),
                D!formatExponential(d, places, mode)} : places \in ShownPlaces, mode \in D!RoundingModes})

\* What a value comes to that is written, as bytes or as text, and read.
WrittenAndRead(k, t, x) ==
  CASE k = "integer" -> IF t = Unbounded THEN {} ELSE {read(t, write(t, x))}
    [] k = "decimal" -> {D!decodeDecimal(D!encodeDecimal(x))} \cup {D!parseDecimal(text) : text \in Texts(x)}
    [] k = "float" -> {F!decodeHalf(F!encodeHalf(x, off)) : off \in -1 .. 1}
    [] OTHER -> {}

\* The operand has no part in it: one is enough.
WriteAndRead ==
  /\ left = right
  /\ \E value \in WrittenAndRead(kind, type, left) : Go(value)

Next == WriteAndRead \/ Integer \/ Fraction \/ Decimal \/ FloatingPoint \/ MatrixOrVector \/ Hypercomplex

Spec == Init /\ [][Next]_vars

\* Whatever the order of operations, the value is one of its type, in the one
\* form the type has for it (packages/types/src/numericType, is).
TypeOK ==
  CASE kind = "integer" -> is(type, left)
    [] kind = "fraction" -> IsReduced(type, left)
    [] kind = "decimal" -> IsDecimal(left)
    [] kind = "float" -> IsFloat(left)
    [] kind = "matrix" -> isMatrix(type, left, left.rows, left.columns)
    [] kind \in {"complex", "quaternion"} -> isRecord(type, left, Components(kind))

-----------------------------------------------------------------------------
(* What the operations of the numeric types mean, said of the numbers they *)
(* stand for and not of how they are computed.                             *)

\* What an outcome is for a number that an integer type has or has not.
Exactly(t, outcome, x) ==
  IF InRange(t, x) THEN outcome = Ok(x) ELSE outcome = Refused("range")

\* Bit by bit, of the bits the type has.
Bits(t, outcome, Holds(_)) ==
  Succeeds(outcome) /\ InRange(t, outcome.value)
    /\ \A i \in 0 .. t.width - 1 : (Bit(outcome.value, i) = 1) = Holds(i)

\* The quotient is the largest that takes no more than the dividend.
IsQuotient(x, y, q) ==
  /\ Magnitude(q * y) <= Magnitude(x) /\ Magnitude(x) < Magnitude(q * y) + Magnitude(y)
  /\ q = 0 \/ (q < 0) = ((x < 0) # (y < 0))

Multiplied(x, n) == FoldLeft(LAMBDA p, i : p * x, 1, [i \in 1 .. n |-> i])

ArithmeticIsExact(t, x, y) ==
  /\ Exactly(t, add(t, x, y), x + y)
  /\ Exactly(t, subtract(t, x, y), x - y)
  /\ Exactly(t, multiply(t, x, y), x * y)
  /\ IF y = 0 THEN divide(t, x, y) = Refused("divisor") /\ remainder(t, x, y) = Refused("divisor")
     ELSE \E q \in -Magnitude(x) .. Magnitude(x) :
            /\ IsQuotient(x, y, q)
            /\ Exactly(t, divide(t, x, y), q)
            /\ Exactly(t, remainder(t, x, y), x - q * y)
  /\ MayRaise(t, y) =>
       IF y < 0 THEN power(t, x, y) = Refused("exponent")
       ELSE IF Magnitude(x) >= 2 /\ y > 4 THEN power(t, x, y) = Refused("range")
       ELSE Exactly(t, power(t, x, y), Multiplied(x, y))

BitsAreExact(t, x, y) ==
  LET Has(i) == i < t.width /\ Bit(x, i) = 1
      \* beyond its bits, a signed value repeats the highest
      Extended(i) == IF i < t.width THEN Bit(x, i) = 1 ELSE x < 0
  IN /\ Bits(t, bitwiseAnd(t, x, y), LAMBDA i : Has(i) /\ Bit(y, i) = 1)
     /\ Bits(t, bitwiseOr(t, x, y), LAMBDA i : Has(i) \/ Bit(y, i) = 1)
     /\ Bits(t, bitwiseXor(t, x, y), LAMBDA i : Has(i) # (Bit(y, i) = 1))
     /\ Bits(t, bitwiseNot(t, x), LAMBDA i : ~Has(i))
     /\ Bits(t, wrap(t, x + y), LAMBDA i : Bit(x + y, i) = 1)
     /\ IF y \notin 0 .. t.width - 1
        THEN \A outcome \in {shiftLeft(t, x, y), shiftRight(t, x, y), shiftRightLogical(t, x, y)} :
               outcome = Refused("count")
        ELSE /\ Bits(t, shiftLeft(t, x, y), LAMBDA i : i >= y /\ Has(i - y))
             /\ Bits(t, shiftRight(t, x, y), LAMBDA i : Extended(i + y))
             /\ Bits(t, shiftRightLogical(t, x, y), LAMBDA i : Has(i + y))

\* A result is the exact one, or the operation is refused because there is
\* none, or none in the type; bits are those of two's complement, whether a
\* number or a bigint carries them.
IntegersAreExact ==
  kind = "integer" =>
    /\ ArithmeticIsExact(type, left, right)
    /\ type # Unbounded => BitsAreExact(type, left, right)

-----------------------------------------------------------------------------

\* The rational numbers as pairs; the type's own operations have no part in it.
Same(outcome, n, d) ==
  Succeeds(outcome) => outcome.value.numerator * d = n * outcome.value.denominator

Trunc(n, d) == LET q == Magnitude(n) \div Magnitude(d) IN IF (n < 0) = (d < 0) THEN q ELSE -q

PowerIsExact(t, x, y) ==
  LET n == x.numerator
      d == x.denominator
      k == Magnitude(y.numerator)
      outcome == powerFractions(t, x, y)
  IN IF y.numerator >= 0 THEN Same(outcome, Multiplied(n, k), Multiplied(d, k))
     ELSE Same(outcome, Multiplied(d, k), Multiplied(n, k))

\* No step of an addition is refused unless a product or a sum is out of range.
FractionsAreExact ==
  kind = "fraction" =>
    LET a == left.numerator
        b == left.denominator
        c == right.numerator
        d == right.denominator
        Fits(S) == \A x \in S : InRange(type, x)
        quotient == Trunc(a * d, b * c)
    IN /\ Same(addFractions(type, left, right), a * d + c * b, b * d)
       /\ Same(subtractFractions(type, left, right), a * d - c * b, b * d)
       /\ Same(multiplyFractions(type, left, right), a * c, b * d)
       /\ IF c = 0
          THEN divideFractions(type, left, right) = Refused("divisor")
                 /\ remainderFractions(type, left, right) = Refused("divisor")
          ELSE /\ Same(divideFractions(type, left, right), a * d, b * c)
               /\ Same(remainderFractions(type, left, right), a * d - quotient * b * c, b * d)
       /\ IF d # 1 THEN powerFractions(type, left, right) = Refused("exponent")
          ELSE Magnitude(c) <= MaxPower => PowerIsExact(type, left, right)
       /\ Fits({a * d, c * b, a * d + c * b, b * d, -(a * d + c * b)}) =>
            Succeeds(addFractions(type, left, right))
       /\ equalsFraction(left, right) = (a * d = c * b)
       /\ LET less == lessThanFraction(type, left, right) IN
          Succeeds(less) => less.value = (a * d < c * b)
-----------------------------------------------------------------------------

\* In units of the smallest, the magnitude of a decimal; past the largest,
\* an infinity's.
Beyond == Ten ^ (MAXIMUM_ADJUSTED_EXPONENT + 1 - MINIMUM_EXPONENT)
Units(d) ==
  IF d.kind = "infinity" THEN Beyond ELSE d.coefficient * D!powerOfTen(d.exponent - MINIMUM_EXPONENT)

\* A decimal of so many units; one form of it is its type's (TypeOK).
Means(d, n, units) ==
  /\ d.kind = IF units >= Beyond THEN "infinity" ELSE "finite"
  /\ d.negative = n /\ Units(d) = units

\* From one decimal to the next, where so many units are.
StepAt(units) == D!powerOfTen(D!Larger(0, D!digitCount(units) - PRECISION))

\* Which of the multiples of a step around a quotient a mode goes to.  Halfway,
\* it is the even multiple.
GoesUp(mode, n, top, bottom, low, step) ==
  LET double == (2 * top) \div bottom
      beforeHalf == double < 2 * low + step
      atHalf == double = 2 * low + step /\ (2 * top) % bottom = 0
  IN CASE mode = "truncate" -> FALSE
       [] mode = "floor" -> n
       [] mode = "ceiling" -> ~n
       [] mode = "halfAwayFromZero" -> ~beforeHalf
       [] mode = "halfEven" -> ~beforeHalf /\ (atHalf => (low \div step) % 2 = 1)

RoundedTo(step, mode, n, top, bottom) ==
  LET low == ((top \div bottom) \div step) * step IN
  IF low * bottom = top THEN low
  ELSE IF GoesUp(mode, n, top, bottom, low, step) THEN low + step ELSE low

\* The units of the decimal nearest to a quotient of units, in the sense of a
\* mode.  Past the largest, what is not rounded towards zero is infinite.
Correctly(mode, n, top, bottom) ==
  IF top \div bottom >= Beyond
  THEN IF mode = "truncate" \/ mode = (IF n THEN "ceiling" ELSE "floor")
       THEN Beyond - StepAt(Beyond - 1) ELSE Beyond
  ELSE RoundedTo(StepAt(top \div bottom), mode, n, top, bottom)

\* A quotient of coefficients times a power of ten.
CorrectlyScaled(mode, n, top, bottom, exponent) ==
  LET shift == exponent - MINIMUM_EXPONENT IN
  IF shift >= 0 THEN Correctly(mode, n, top * D!powerOfTen(shift), bottom)
  ELSE Correctly(mode, n, top, bottom * D!powerOfTen(-shift))

Amount(d) == IF d.negative THEN -Units(d) ELSE Units(d)

SumIsCorrect(x, y, mode) ==
  LET total == Amount(x) + Amount(y) IN
  IF total # 0 THEN Means(D!add(x, y, mode), total < 0, Correctly(mode, total < 0, Magnitude(total), 1))
  ELSE D!add(x, y, mode) =
         D!zero(IF D!isZero(x) /\ x.negative = y.negative THEN x.negative ELSE mode = "floor")

PowerIsCorrect(x, n, mode) ==
  LET k == Magnitude(n)
      negative == x.negative /\ n % 2 = 1
      exact == Multiplied(x.coefficient, k)
  IN \/ n < 0 /\ k * D!digitCount(x.coefficient) > EXACT_DIGIT_LIMIT
     \/ Means(D!powerParts(x, n, mode), negative,
              IF n >= 0 THEN CorrectlyScaled(mode, negative, exact, 1, x.exponent * k)
              ELSE CorrectlyScaled(mode, negative, 1, exact, -x.exponent * k))

FiniteIsCorrect(x, y, mode) ==
  LET negative == x.negative # y.negative IN
  /\ SumIsCorrect(x, y, mode)
  /\ D!subtract(x, y, mode) = D!add(x, D!negate(y), mode)
  /\ Means(D!multiply(x, y, mode), negative,
           CorrectlyScaled(mode, negative, x.coefficient * y.coefficient, 1, x.exponent + y.exponent))
  /\ ~D!isZero(y) => Means(D!divide(x, y, mode), negative,
       CorrectlyScaled(mode, negative, x.coefficient, y.coefficient, x.exponent - y.exponent))
  /\ ~D!isZero(y) => Means(D!remainder(x, y), x.negative, Units(x) % Units(y))
  /\ (~D!isZero(x) /\ D!IsWhole(y) /\ D!toBigInt(y) \in DecimalPowers) =>
       PowerIsCorrect(x, D!toBigInt(y), mode)

\* Rounded to places, a decimal is a multiple of the place, and nearest.
PlacesAreCorrect(x, places, mode) ==
  LET place == D!powerOfTen(-places - MINIMUM_EXPONENT)
      nearest == RoundedTo(place, mode, x.negative, Units(x), 1)
  IN Means(D!roundParts(x, places, mode), x.negative,
           IF nearest >= Beyond THEN Correctly(mode, x.negative, Beyond, 1) ELSE nearest)

OrderIsThatOfAmounts(x, y) ==
  LET order == D!compare(x, y) IN
  IF "nan" \in {x.kind, y.kind} THEN order = D!Unordered
  ELSE order = IF Amount(x) < Amount(y) THEN -1 ELSE IF Amount(x) > Amount(y) THEN 1 ELSE 0

\* In every mode, a result is the exact one rounded once, however far apart
\* the operands are and wherever in the range it falls.
DecimalsAreCorrect ==
  kind = "decimal" =>
    /\ OrderIsThatOfAmounts(left, right)
    /\ (left.kind = "finite" /\ right.kind = "finite") =>
         \A mode \in D!RoundingModes :
           /\ FiniteIsCorrect(left, right, mode)
           /\ \A places \in RoundedPlaces : PlacesAreCorrect(left, places, mode)

-----------------------------------------------------------------------------

\* The magnitude of the format nearest to a quotient, the even one of two:
\* rounded once, without the engine's double between.
NearestFloat(top, bottom) ==
  LET whole == top \div bottom
      spacing == IF whole < 2 ^ FRACTION_BITS THEN 1 ELSE 2 ^ (F!Log2[whole, 1] - FRACTION_BITS)
      low == (whole \div spacing) * spacing
      past == 2 * (top - low * bottom)
  IN IF past > spacing * bottom \/ (past = spacing * bottom /\ (low \div spacing) % 2 = 1)
     THEN low + spacing ELSE low

IsNearest(x, n, top, bottom) ==
  LET nearest == NearestFloat(top, bottom) IN
  x = IF nearest > F!maximumFloat THEN F!Infinite(n) ELSE F!Finite(n, nearest, 1)

\* Whatever the engine's logarithm estimates, an operation on the double and
\* one more rounding is the operation rounded once.
FloatsAreNearest ==
  (kind = "float" /\ left.kind = "finite" /\ right.kind = "finite") =>
    \A off \in -1 .. 1 :
      LET Rounded(x) == F!roundToHalfPrecision(x, off)
          total == F!Signed(left) + F!Signed(right)
          n == left.negative # right.negative
      IN /\ total # 0 => IsNearest(Rounded(F!Plus(left, right)), total < 0, Magnitude(total), 1)
         /\ IsNearest(Rounded(F!Times(left, right)), n, left.top * right.top, One)
         /\ right.top # 0 => IsNearest(Rounded(F!Over(left, right)), n, left.top * One, right.top)
         /\ right.top # 0 => IsNearest(Rounded(F!Modulo(left, right)), left.negative,
                                       left.top % right.top, 1)
         /\ F!isFloat(left, off)

-----------------------------------------------------------------------------

\* The exact sum of the products of a row and a column, and whether one of
\* the sums on the way to it is out of range.
Term(x, y, r, c, k) == At(x, r, k) * At(y, k, c)
Partial(x, y, r, c, n) == FoldLeft(LAMBDA s, k : s + Term(x, y, r, c, k), 0, [k \in 1 .. n |-> k])
AllFit(t, x, y) ==
  \A r \in 1 .. x.rows, c \in 1 .. y.columns, k \in 1 .. x.columns :
    InRange(t, Term(x, y, r, c, k)) /\ InRange(t, Partial(x, y, r, c, k))

IsProduct(t, x, y, outcome) ==
  IF x.columns # y.rows THEN outcome = Refused("shape")
  ELSE IF ~AllFit(t, x, y) THEN outcome = Refused("range")
  ELSE /\ outcome.value.rows = x.rows /\ outcome.value.columns = y.columns
       /\ \A r \in 1 .. x.rows, c \in 1 .. y.columns :
            At(outcome.value, r, c) = Partial(x, y, r, c, x.columns)

Transposed(x) == transpose(x).value

\* The product is that of matrices of every shape, in the integers; it turns
\* around with its operands.
MatricesAreExact ==
  kind = "matrix" =>
    LET product1 == multiplyMatrices(type, left, right)
        product2 == multiplyMatrices(type, Transposed(right), Transposed(left))
        dotted == dot(type, left, right)
    IN /\ IsProduct(type, left, right, product1)
       /\ \A r \in 1 .. left.rows, c \in 1 .. left.columns : At(Transposed(left), c, r) = At(left, r, c)
       /\ Succeeds(product1) /\ Succeeds(product2) => product2.value = Transposed(product1.value)
       /\ \A n \in {left.rows} : Succeeds(identity(n, n)) /\
            multiplyMatrices(type, identity(n, n).value, left) = Ok(left)
       /\ (left.rows = 1 /\ right.rows = 1 /\ Succeeds(dotted)) =>
            multiplyMatrices(type, left, Transposed(right)) = Ok(Matrix(1, 1, <<dotted.value>>))
       /\ equalsMatrix(left, right) = (left = right)
       /\ fromRows(type, Rows(left), left.rows, left.columns) = Ok(left)
       /\ left.rows # left.columns =>
            fromRows(type, Rows(left), left.columns, left.rows) = Refused("length")

Norm(x) == FoldLeft(LAMBDA s, component : s + component * component, 0, x)

\* The norm of a product is the product of the norms, a value times its
\* conjugate is its norm, and dividing a product by its second factor gives
\* the first back.
RecordsAreExact ==
  kind \in {"complex", "quaternion"} =>
    LET product1 == productRule(type, left, right)
        other == conjugate(type, right)
        square == Then(other, LAMBDA c : productRule(type, right, c))
    IN /\ Succeeds(product1) => Norm(product1.value) = Norm(left) * Norm(right)
       /\ Succeeds(square) => square = fromReal(type, Norm(right), Len(right))
       /\ (Succeeds(product1) /\ Norm(right) # 0) =>
            LET back == divideHypercomplex(type, product1.value, right) IN
            Succeeds(back) => back.value = left
       /\ (kind = "quaternion" /\ Succeeds(product1)) =>
            product1.value[1] = productRule(Unbounded, right, left).value[1]

-----------------------------------------------------------------------------

\* The types that do not round give the exact result, or refuse: integers,
\* fractions, matrices, vectors, complex numbers and quaternions
\* (packages/types/src: integer, fraction, matrix, vector, hypercomplex); and
\* every value is in the one form its type has for it (TypeOK).
ResultsAreExact ==
  TypeOK /\ IntegersAreExact /\ FractionsAreExact /\ MatricesAreExact /\ RecordsAreExact

\* The types that round do so once, of the exact result: decimals in each of
\* the modes, half precision floats to the nearest
\* (packages/types/src: decimal, halfPrecisionFloat, float).
ResultsAreRoundedOnce == DecimalsAreCorrect /\ FloatsAreNearest

-----------------------------------------------------------------------------

\* The amount a text shows, as a coefficient and an exponent.
Shown(text) ==
  [coefficient |-> D!Value(text.whole \o text.fraction),
   exponent |-> text.exponent - Len(text.fraction)]

\* A text shows a decimal rounded so that its last digit is of a place.
ShowsAt(text, d, place, mode) ==
  LET shift == place - MINIMUM_EXPONENT
      shown == Shown(text)
      exact == Units(d)
  IN /\ shown.exponent = place
     /\ IF shift >= 0
        THEN shown.coefficient * D!powerOfTen(shift) =
               RoundedTo(D!powerOfTen(shift), mode, d.negative, exact, 1)
        ELSE shown.coefficient = exact * D!powerOfTen(-shift)
     /\ text.negative = (d.negative /\ ~D!isZero(d))

\* With so many digits, or with one more if they were rounded up to a power.
ShowsDigits(text, d, precision, mode) ==
  LET adjusted == IF D!isZero(d) THEN 0 ELSE D!adjustedExponent(d) IN
  \/ ShowsAt(text, d, adjusted - precision + 1, mode)
  \/ ShowsAt(text, d, adjusted - precision + 2, mode) /\ ~ D!isZero(d)
       /\ Shown(text).coefficient = D!powerOfTen(precision - 1)

DecimalReadsBack(d) ==
  /\ D!parseDecimal(D!formatDecimal(d)) = d
  /\ D!decodeDecimal(D!encodeDecimal(d)) = d
  /\ LET bits == D!encodeDecimal(d) IN
     /\ bits.coefficient < D!powerOfTen(PRECISION)
     /\ bits.biased \in 0 .. MAXIMUM_ADJUSTED_EXPONENT - PRECISION + 1 - MINIMUM_EXPONENT
  /\ d.kind = "finite" =>
       \A mode \in D!RoundingModes, places \in ShownPlaces :
         /\ ShowsAt(D!formatFixed(d, places, mode), d, -places, mode)
         /\ ShowsDigits(D!formatPrecision(d, places + 1, mode), d, places + 1, mode)
         /\ ShowsDigits(D!formatExponential(d, places, mode), d, places + 1, mode)

\* A text of more digits than are kept, out of the range or within it, is read
\* as the decimal nearest to it.
LongTextIsNearest(d) ==
  \A more \in [1 .. 4 -> {0, 1, Ten \div 2}], exponent \in {0, -4} :
    LET text == D!Text(d.negative, D!Digits(d.coefficient) \o more, <<>>, exponent)
        nearest == CorrectlyScaled("halfEven", d.negative, D!Value(text.whole), 1, exponent)
    IN d.kind = "finite" => Means(D!parseDecimal(text), d.negative, nearest)

\* What is written is read back as it was, as bytes and as text, and a text
\* of fewer digits shows the value rounded (packages/types/src: codec.ts,
\* format.ts, parse.ts, decimal128.ts, binary16.ts).
NumbersReadBack ==
  CASE kind = "integer" ->
         type # Unbounded =>
           /\ read(type, write(type, left)) = left
           /\ Len(write(type, left)) = type.width \div Byte
    [] kind = "decimal" ->
         left = right => DecimalReadsBack(left) /\ LongTextIsNearest(left)
    [] kind = "float" ->
         \A off \in -1 .. 1 :
           /\ F!decodeHalf(F!encodeHalf(left, off)) = left
           /\ F!encodeHalf(left, off).bits < 2 ^ (FRACTION_BITS) * (F!AllOnes + 1)
    [] OTHER -> TRUE

=============================================================================

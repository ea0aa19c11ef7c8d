----------------------------- MODULE Composites -----------------------------
(***************************************************************************)
(* Values made of several integers (packages/types/src): exact rationals   *)
(* (fraction), a numerator over a positive denominator in lowest terms;    *)
(* and elements in a sequence, with a shape if it is a matrix              *)
(* (componentwise, matrix, vector, components, hypercomplex,               *)
(* complexNumber, quaternion).  The integers are checked, and the first of *)
(* their operations that is refused, in the order the code does them, is   *)
(* the answer.                                                             *)
(***************************************************************************)
EXTENDS IntegerTypes

Pair(numerator, denominator) == [numerator |-> numerator, denominator |-> denominator]

\* What a function of two values comes to, the refusal of the first one first.
Both(first, second, F(_, _)) == Then(first, LAMBDA x : Then(second, LAMBDA y : F(x, y)))

make(top, bottom) == Both(top, bottom, LAMBDA x, y : Ok(Pair(x, y)))

absolute(t, x) == IF x < 0 THEN negate(t, x) ELSE Ok(x)

\* Euclid's algorithm; no remainder of it can be refused.
Divisor[x \in Nat, y \in Nat] == IF y = 0 THEN x ELSE Divisor[y, x % y]

greatestCommonDivisor(t, x, y) ==
  Both(absolute(t, x), absolute(t, y), LAMBDA m, n : Ok(Divisor[m, n]))

Positive(t, top, bottom) ==
  IF bottom < 0 THEN make(negate(t, top), negate(t, bottom)) ELSE Ok(Pair(top, bottom))

reduce(t, top, bottom) ==
  Both(top, bottom, LAMBDA x, y :
    IF y = 0 THEN Refused("divisor")
    ELSE Then(Positive(t, x, y), LAMBDA f :
           Then(greatestCommonDivisor(t, f.numerator, f.denominator), LAMBDA d :
             make(divide(t, f.numerator, d), divide(t, f.denominator, d)))))

over(t, x, d) == IF d \in {0, 1} THEN Ok(x) ELSE divide(t, x, d)

Times(t, first, second) == Both(first, second, LAMBDA x, y : multiply(t, x, y))

\* Common factors are cancelled across before anything is multiplied.
product(t, n1, d1, n2, d2) ==
  Both(greatestCommonDivisor(t, n1, d2), greatestCommonDivisor(t, n2, d1), LAMBDA g, h :
    reduce(t, Times(t, over(t, n1, g), over(t, n2, h)), Times(t, over(t, d1, h), over(t, d2, g))))

\* Over the least common denominator.  No divisor of it is refused.
sum(t, x, y, Combine(_, _, _)) ==
  LET d == Divisor[x.denominator, y.denominator]
      xs == y.denominator \div d
      ys == x.denominator \div d
  IN reduce(t, Both(multiply(t, x.numerator, xs), multiply(t, y.numerator, ys),
                    LAMBDA m, n : Combine(t, m, n)),
               multiply(t, x.denominator, xs))

cross(t, x, y, F(_, _)) ==
  Both(multiply(t, x.numerator, y.denominator), multiply(t, y.numerator, x.denominator), F)

-----------------------------------------------------------------------------

fromParts(t, numerator, denominator) == reduce(t, from(t, numerator), from(t, denominator))
fromWhole(t, x) == make(from(t, x), Ok(1))

\* An outcome: asking may be refused.
isFraction(t, f) ==
  IF ~is(t, f.numerator) \/ ~is(t, f.denominator) \/ f.denominator <= 0 THEN Ok(FALSE)
  ELSE Then(greatestCommonDivisor(t, f.numerator, f.denominator), LAMBDA d : Ok(d = 1))

addFractions(t, x, y) == sum(t, x, y, add)
subtractFractions(t, x, y) == sum(t, x, y, subtract)
multiplyFractions(t, x, y) == product(t, x.numerator, x.denominator, y.numerator, y.denominator)

divideFractions(t, x, y) ==
  IF y.numerator = 0 THEN Refused("divisor")
  ELSE product(t, x.numerator, x.denominator, y.denominator, y.numerator)

\* With the sign of the dividend.
remainderFractions(t, x, y) ==
  IF y.numerator = 0 THEN Refused("divisor")
  ELSE cross(t, x, y, LAMBDA m, n :
         Then(divide(t, m, n), LAMBDA q :
           reduce(t, Then(multiply(t, q, n), LAMBDA p : subtract(t, m, p)),
                     multiply(t, x.denominator, y.denominator))))

powerFractions(t, x, y) ==
  IF y.denominator # 1 THEN Refused("exponent")
  ELSE IF y.numerator >= 0
       THEN make(power(t, x.numerator, y.numerator), power(t, x.denominator, y.numerator))
       ELSE Then(negate(t, y.numerator), LAMBDA n :
              reduce(t, power(t, x.denominator, n), power(t, x.numerator, n)))

negateFraction(t, x) == make(negate(t, x.numerator), Ok(x.denominator))
incrementFraction(t, x) == make(add(t, x.numerator, x.denominator), Ok(x.denominator))
decrementFraction(t, x) == make(subtract(t, x.numerator, x.denominator), Ok(x.denominator))

equalsFraction(x, y) == x = y
lessThanFraction(t, x, y) == cross(t, x, y, LAMBDA m, n : Ok(m < n))

-----------------------------------------------------------------------------
(* Elements.                                                               *)

\* The results of outcomes, or the first refusal of them.
All(outcomes) ==
  LET refused == SelectSeq(outcomes, LAMBDA outcome : ~Succeeds(outcome)) IN
  IF refused = <<>> THEN Ok([i \in DOMAIN outcomes |-> outcomes[i].value]) ELSE refused[1]

addEach(t, x, y) == All([i \in DOMAIN x |-> add(t, x[i], y[i])])
subtractEach(t, x, y) == All([i \in DOMAIN x |-> subtract(t, x[i], y[i])])
negateEach(t, x) == All([i \in DOMAIN x |-> negate(t, x[i])])
scaleEach(t, x, factor) == All([i \in DOMAIN x |-> multiply(t, x[i], factor)])
divideEach(t, x, divisor) == All([i \in DOMAIN x |-> divide(t, x[i], divisor)])
equalsEach(x, y) == Len(x) = Len(y) /\ \A i \in DOMAIN x : x[i] = y[i]

\* Every index is within its operand.  The sum starts with the first product,
\* which 0 leaves as it is.
sumOfProducts(t, n, x, xStart, xStride, y, yStart, yStride) ==
  FoldLeft(LAMBDA s, i : Both(s, multiply(t, x[xStart + i * xStride], y[yStart + i * yStride]),
                              LAMBDA partial, p : add(t, partial, p)),
           Ok(0), [i \in 1 .. n |-> i - 1])

-----------------------------------------------------------------------------
(* Matrices, row after row; a vector is one that has one row or one column. *)

Matrix(rows, columns, elements) == [rows |-> rows, columns |-> columns, elements |-> elements]
createValue(elements, rows, columns) ==
  Then(elements, LAMBDA e : Ok(Matrix(rows, columns, e)))

At(m, row, column) == m.elements[(row - 1) * m.columns + column]

isMatrix(t, m, rows, columns) ==
  /\ m.rows = rows /\ m.columns = columns /\ Len(m.elements) = rows * columns
  /\ \A i \in DOMAIN m.elements : is(t, m.elements[i])

requireShape(m, like, outcome) ==
  IF m.rows = like.rows /\ m.columns = like.columns THEN outcome ELSE Refused("shape")

equalsMatrix(x, y) == x.rows = y.rows /\ x.columns = y.columns /\ equalsEach(x.elements, y.elements)

\* The operations of the type of the first operand.
addMatrices(t, x, y) ==
  requireShape(y, x, createValue(addEach(t, x.elements, y.elements), x.rows, x.columns))
subtractMatrices(t, x, y) ==
  requireShape(y, x, createValue(subtractEach(t, x.elements, y.elements), x.rows, x.columns))
negateMatrix(t, x) == createValue(negateEach(t, x.elements), x.rows, x.columns)
scaleMatrix(t, x, factor) == createValue(scaleEach(t, x.elements, factor), x.rows, x.columns)

multiplyMatrices(t, x, y) ==
  LET Cell(i) == LET row == (i - 1) \div y.columns
                     column == (i - 1) % y.columns
                 IN sumOfProducts(t, x.columns, x.elements, row * x.columns + 1, 1,
                                  y.elements, column + 1, y.columns)
  IN IF y.rows # x.columns THEN Refused("shape")
     ELSE createValue(All([i \in 1 .. x.rows * y.columns |-> Cell(i)]), x.rows, y.columns)

transpose(x) ==
  Ok(Matrix(x.columns, x.rows,
            [i \in DOMAIN x.elements |-> At(x, ((i - 1) % x.rows) + 1, ((i - 1) \div x.rows) + 1)]))

identity(rows, columns) ==
  IF rows # columns THEN Refused("shape")
  ELSE Ok(Matrix(rows, rows, [i \in 1 .. rows * rows |->
                               IF (i - 1) \div rows = (i - 1) % rows THEN 1 ELSE 0]))

\* From rows, each a sequence of integers.
convertElements(t, rows, rowCount, columnCount) ==
  IF Len(rows) # rowCount \/ \E i \in DOMAIN rows : Len(rows[i]) # columnCount THEN Refused("length")
  ELSE All([i \in 1 .. rowCount * columnCount |->
             from(t, rows[((i - 1) \div columnCount) + 1][((i - 1) % columnCount) + 1])])

fromRows(t, rows, rowCount, columnCount) ==
  createValue(convertElements(t, rows, rowCount, columnCount), rowCount, columnCount)
fromElements(t, elements, rows, columns) ==
  createValue(convertElements(t, <<elements>>, 1, rows * columns), rows, columns)

dot(t, x, y) ==
  requireShape(y, x, sumOfProducts(t, Len(x.elements), x.elements, 1, 1, y.elements, 1, 1))

-----------------------------------------------------------------------------
(* Records of components: complex numbers and quaternions.                 *)

Sub(t, x, y) == Both(x, y, LAMBDA m, n : subtract(t, m, n))
Sum(t, x, y) == Both(x, y, LAMBDA m, n : add(t, m, n))

complexProduct(t, x, y) ==
  All(<<Sub(t, multiply(t, x[1], y[1]), multiply(t, x[2], y[2])),
        Sum(t, multiply(t, x[1], y[2]), multiply(t, x[2], y[1]))>>)

hamiltonProduct(t, x, y) ==
  LET P(i, j) == multiply(t, x[i], y[j]) IN
  All(<<Sub(t, Sub(t, Sub(t, P(1, 1), P(2, 2)), P(3, 3)), P(4, 4)),
        Sub(t, Sum(t, Sum(t, P(1, 2), P(2, 1)), P(3, 4)), P(4, 3)),
        Sum(t, Sum(t, Sub(t, P(1, 3), P(2, 4)), P(3, 1)), P(4, 2)),
        Sum(t, Sub(t, Sum(t, P(1, 4), P(2, 3)), P(3, 2)), P(4, 1))>>)

productRule(t, x, y) == IF Len(x) = 2 THEN complexProduct(t, x, y) ELSE hamiltonProduct(t, x, y)

\* A record, or one number and zeros.
fromRecord(t, components) == All([i \in DOMAIN components |-> from(t, components[i])])
fromReal(t, x, n) == Then(from(t, x), LAMBDA r : Ok([i \in 1 .. n |-> IF i = 1 THEN r ELSE 0]))

isRecord(t, x, n) == Len(x) = n /\ \A i \in DOMAIN x : is(t, x[i])

conjugate(t, x) ==
  Then(negateEach(t, Tail(x)), LAMBDA rest : Ok(<<x[1]>> \o rest))

divideHypercomplex(t, x, y) ==
  Both(sumOfProducts(t, Len(y), y, 1, 1, y, 1, 1), conjugate(t, y), LAMBDA norm, c :
    Then(productRule(t, x, c), LAMBDA p : divideEach(t, p, norm)))
=============================================================================

---------------------------- MODULE IntegerTypes ----------------------------
(***************************************************************************)
(* The checked integer types (packages/types/src/integer): signed or       *)
(* unsigned, of a width, carried by a number, whose bitwise operators work *)
(* on the engine's word, or by a bigint, which has no width; and           *)
(* BigInteger, which has no range.  A type is a record                     *)
(* [signed, width, big].  An operation's outcome is a code and, unless it  *)
(* is refused, a value.                                                    *)
(***************************************************************************)
EXTENDS Integers, SequencesExt

CONSTANTS
  Word,  \* the bits of the engine's bitwise operators: 32
  Byte,  \* the bits of a byte: 8
  Half   \* the bits of the halves the widest types are written in: 64

ASSUME WordAssumption == {Word, Byte, Half} \subseteq Nat \ {0}

Ok(x) == [code |-> "ok", value |-> x]
Refused(code) == [code |-> code]
Succeeds(outcome) == outcome.code = "ok"

\* What a function of the value comes to, unless it was refused.
Then(outcome, F(_)) == IF Succeeds(outcome) THEN F(outcome.value) ELSE outcome

Magnitude(x) == IF x < 0 THEN -x ELSE x

\* Division as the engine does it: towards zero, the remainder with the sign
\* of the dividend.
Quotient(x, y) ==
  LET magnitude == Magnitude(x) \div Magnitude(y) IN
  IF (x < 0) = (y < 0) THEN magnitude ELSE -magnitude
Rest(x, y) == x - y * Quotient(x, y)

Raised(x, n) == IF n = 0 THEN 1 ELSE x ^ n

Bit(x, i) == (x \div 2 ^ i) % 2
asUintN(n, x) == x % 2 ^ n
asIntN(n, x) == ((x + 2 ^ (n - 1)) % 2 ^ n) - 2 ^ (n - 1)

\* The number whose n lowest bits are those of a set.
Assemble(n, bits) ==
  FoldSet(LAMBDA i, sum : sum + 2 ^ i, 0, bits \cap 0 .. n - 1)

-----------------------------------------------------------------------------

Unbounded == [signed |-> TRUE, width |-> 0, big |-> TRUE]  \* BigInteger

minimum(t) == IF t.signed THEN -(2 ^ (t.width - 1)) ELSE 0
maximum(t) == IF t.signed THEN 2 ^ (t.width - 1) - 1 ELSE 2 ^ t.width - 1

InRange(t, x) == t = Unbounded \/ (minimum(t) <= x /\ x <= maximum(t))

accept(t, x) == IF InRange(t, x) THEN Ok(x) ELSE Refused("range")

\* Two's complement, by the engine's shifts and masks or by its conversions.
ShiftedLeft(x, k) == asIntN(Word, asIntN(Word, x) * 2 ^ k)
ShiftedRight(x, k) == asIntN(Word, x) \div 2 ^ k
Logically(x, k) == asUintN(Word, x) \div 2 ^ k
Masked(x, n) == asIntN(Word, Assemble(n, {i \in 0 .. n - 1 : Bit(x, i) = 1}))

truncate(t, x) ==
  CASE t.width = Word /\ t.signed -> asIntN(Word, x)
    [] t.width = Word /\ ~t.signed -> Logically(x, 0)
    [] t.width # Word /\ t.signed -> ShiftedRight(ShiftedLeft(x, Word - t.width), Word - t.width)
    [] t.width # Word /\ ~t.signed -> Masked(x, t.width)

wrapBits(t, x) == IF t.signed THEN asIntN(t.width, x) ELSE asUintN(t.width, x)

Wrapped(t, x) == IF t.big THEN wrapBits(t, x) ELSE truncate(t, x)

\* An integer of either kind is taken by any type, a whole number only.
from(t, x) == accept(t, x)
wrap(t, x) == Ok(Wrapped(t, x))
is(t, x) == InRange(t, x)

-----------------------------------------------------------------------------

add(t, x, y) == accept(t, x + y)
subtract(t, x, y) == accept(t, x - y)
multiply(t, x, y) == accept(t, x * y)
negate(t, x) == accept(t, -x)
increment(t, x) == accept(t, x + 1)
decrement(t, x) == accept(t, x - 1)

divide(t, x, y) == IF y = 0 THEN Refused("divisor") ELSE accept(t, Quotient(x, y))
remainder(t, x, y) == IF y = 0 THEN Refused("divisor") ELSE accept(t, Rest(x, y))

\* Every product accepted; the factor is squared only while a
\* higher bit of the exponent is left.
Places(exponent) == {i \in 0 .. Word : 2 ^ i <= exponent}

Squaring(t, base, exponent, SquaresAt(_)) ==
  LET Step(s, i) ==
        [product |-> IF Bit(exponent, i) = 0 THEN s.product
                     ELSE Then(s.product, LAMBDA p : Then(s.factor, LAMBDA f : accept(t, p * f))),
         factor |-> IF SquaresAt(i) THEN Then(s.factor, LAMBDA f : accept(t, f * f)) ELSE s.factor]
      n == Cardinality(Places(exponent))
      last == FoldLeft(Step, [product |-> Ok(1), factor |-> Ok(base)], [i \in 1 .. n |-> i - 1])
  IN IF Succeeds(last.factor) THEN last.product ELSE last.factor

squared(t, base, exponent) ==
  Squaring(t, base, exponent, LAMBDA i : i + 1 \in Places(exponent))

\* At once, unless the exponent alone says that it cannot be in range.
raised(t, base, exponent) ==
  IF t # Unbounded /\ Magnitude(base) >= 2 /\ exponent >= t.width THEN Refused("range")
  ELSE accept(t, Raised(base, exponent))

power(t, base, exponent) ==
  IF exponent < 0 THEN Refused("exponent")
  ELSE IF t.big THEN raised(t, base, exponent) ELSE squared(t, base, exponent)

-----------------------------------------------------------------------------
(* Bits.  A bigint is as wide as its operands need.                        *)

Wide(t) == IF t.big THEN t.width + 1 ELSE Word

Bitwise(t, Holds(_)) ==
  Wrapped(t, asIntN(Wide(t), Assemble(Wide(t), {i \in 0 .. Wide(t) - 1 : Holds(i)})))

bitwiseAnd(t, x, y) == Ok(Bitwise(t, LAMBDA i : Bit(x, i) = 1 /\ Bit(y, i) = 1))
bitwiseOr(t, x, y) == Ok(Bitwise(t, LAMBDA i : Bit(x, i) = 1 \/ Bit(y, i) = 1))
bitwiseXor(t, x, y) == Ok(Bitwise(t, LAMBDA i : Bit(x, i) # Bit(y, i)))
bitwiseNot(t, x) == Ok(Bitwise(t, LAMBDA i : Bit(x, i) = 0))

requireCount(t, count, outcome) ==
  IF count < 0 \/ count >= t.width THEN Refused("count") ELSE outcome

\* Mutant: a shift to the right that reads an unsigned value as signed.
ShiftedAsSigned(t, x, count) == requireCount(t, count, Ok(ShiftedRight(x, count)))

shiftLeft(t, x, count) ==
  requireCount(t, count, Ok(Wrapped(t, IF t.big THEN x * 2 ^ count ELSE ShiftedLeft(x, count))))

shiftRight(t, x, count) ==
  requireCount(t, count, Ok(IF t.big THEN x \div 2 ^ count
                            ELSE IF t.signed THEN ShiftedRight(x, count) ELSE Logically(x, count)))

shiftRightLogical(t, x, count) ==
  requireCount(t, count,
    Ok(IF t.big THEN wrapBits(t, asUintN(t.width, x) \div 2 ^ count)
       ELSE truncate(t, Logically(IF t.width = Word THEN x ELSE Masked(x, t.width), count))))
-----------------------------------------------------------------------------
(* Bytes, the lowest first.                                                *)

Bytes(bits, n) == [i \in 1 .. n \div Byte |-> asUintN(Byte, bits \div 2 ^ (Byte * (i - 1)))]
Number(bytes) == FoldSet(LAMBDA i, sum : sum + bytes[i] * 2 ^ (Byte * (i - 1)), 0, DOMAIN bytes)

writeHalves(bits) == Bytes(asUintN(Half, bits), Half) \o Bytes(asUintN(Half, bits \div 2 ^ Half), Half)
readHalves(bytes) ==
  Number(SubSeq(bytes, Half \div Byte + 1, Len(bytes))) * 2 ^ Half
    + Number(SubSeq(bytes, 1, Half \div Byte))

InHalves(t) == t.big /\ t.width = 2 * Half

write(t, x) == IF InHalves(t) THEN writeHalves(x) ELSE Bytes(asUintN(t.width, x), t.width)

read(t, bytes) ==
  LET bits == IF InHalves(t) THEN readHalves(bytes) ELSE Number(bytes) IN
  IF t.signed THEN asIntN(t.width, bits) ELSE bits
=============================================================================

------------------------------- MODULE Structs -------------------------------
(***************************************************************************)
(* Structs (packages/types/src/struct): fields placed by alignment, the    *)
(* largest first, read and written each by the codec of its type, and      *)
(* registered as a type that can be a field in turn; and the composites    *)
(* that repeat an element (registerRepeatedCodec).  A type is a name; the  *)
(* registry says of each its size, its alignment and its parts, the types  *)
(* written one after another with where they begin; a struct's type lists  *)
(* its fields.  A value is what its scalars hold, in the order they are    *)
(* declared.  And what the checker and sizeOf, alignOf, layoutOf and       *)
(* offsetOf (packages/reflect/src/transformer/layout) make of the types.   *)
(* The arithmetic of sizes and alignments that the checker does while it   *)
(* instantiates types (struct/arithmetic.ts) comes first: a number is its  *)
(* text, digits the most significant first; a carry, a remainder and a     *)
(* padding are lengths of tuples.                                          *)
(***************************************************************************)
EXTENDS Integers, SequencesExt

CONSTANTS
  Sizes,      \* the sizes of the scalar types, in a sequence
  MaxTypes,   \* bound: on the structs and the repeated types declared
  MaxFields,  \* bound: on the fields of a struct, and on the repeats
  MaxSize,    \* bound: on the size of what is declared
  Offset      \* where in a view values are written

StructAssumption ==
  /\ \A i \in DOMAIN Sizes : Sizes[i] \in Nat \ {0}
  /\ {MaxTypes, MaxFields, MaxSize, Offset} \subseteq Nat

VARIABLES
  registered,  \* the codecs, the latest last: the scalar types first
  view,        \* what byte an offset holds
  written,     \* what was written last: a type and a value, or <<>>
  told         \* of each type, what its declaration tells, once asked, or <<>>

vars == <<registered, view, written, told>>

-----------------------------------------------------------------------------
(* The arithmetic of types.                                                *)

\* A number that is not known, or a text that spells none.
Unknown == -1

\* The text of a number, and the number it spells: none if it has leading zeros.
RECURSIVE Text(_)
Text(n) == IF n < 10 THEN <<n>> ELSE Append(Text(n \div 10), n % 10)

ToNumber(text) ==
  IF Len(text) > 1 /\ text[1] = 0 THEN Unknown
  ELSE FoldLeft(LAMBDA n, digit : n * 10 + digit, 0, text)

Known(numbers) == Unknown \notin numbers

-----------------------------------------------------------------------------

Head0(text) == IF text = <<>> THEN 0 ELSE text[1]
Tail0(text) == IF text = <<>> THEN <<>> ELSE Tail(text)

\* The digit and the carry of a sum of two digits and a carry.
AddDigits(left, right, carry) ==
  LET all == left + right + carry IN IF all >= 10 THEN <<all - 10, 1>> ELSE <<all, 0>>

\* Texts backwards, to the end of both and of the carry.
RECURSIVE AddReversed(_, _, _, _)
AddReversed(left, right, carry, sum) ==
  IF left = <<>> /\ right = <<>> THEN (IF carry = 1 THEN Append(sum, 1) ELSE sum)
  ELSE LET added == AddDigits(Head0(left), Head0(right), carry) IN
       AddReversed(Tail0(left), Tail0(right), added[2], Append(sum, added[1]))

Add(left, right) ==
  IF ~Known({left, right}) THEN Unknown
  ELSE ToNumber(Reverse(AddReversed(Reverse(Text(left)), Reverse(Text(right)), 0, <<>>)))

MultiplyByDigit(n, digit) == FoldLeft(LAMBDA product, k : Add(product, n), 0, [k \in 1 .. digit |-> k])

TimesTen(n) == IF n = 0 THEN 0 ELSE ToNumber(Append(Text(n), 0))

Multiply(left, right) ==
  IF ~Known({left, right}) THEN Unknown
  ELSE FoldLeft(LAMBDA product, digit : Add(TimesTen(product), MultiplyByDigit(left, digit)), 0, Text(right))

-----------------------------------------------------------------------------

\* The last digits of a number decide its remainder by a power of two.
RemainderDigits == [alignment \in {2, 4, 8, 16} |->
  CASE alignment = 2 -> 1 [] alignment = 4 -> 2 [] alignment = 8 -> 3 [] alignment = 16 -> 4]

\* The last of them; the text may have fewer.
Take(reversed, n) == Reverse(SubSeq(reversed, 1, IF Len(reversed) < n THEN Len(reversed) ELSE n))

\* Chunks are taken off a tuple as long as they fit.
RECURSIVE Leftover(_, _)
Leftover(length, chunk) == IF length >= chunk THEN Leftover(length - chunk, chunk) ELSE length

TupleLength(digits) == FoldLeft(LAMBDA length, digit : length * 10 + digit, 0, digits)

Remainder(n, alignment) == Leftover(TupleLength(Take(Reverse(Text(n)), RemainderDigits[alignment])), alignment)

RoundUp(n, alignment) ==
  IF ~Known({n, alignment}) THEN Unknown
  ELSE IF alignment \notin DOMAIN RemainderDigits \/ Remainder(n, alignment) = 0 THEN n
  ELSE Add(n, alignment - Remainder(n, alignment))

LargestAlignment(alignments) ==
  IF ~Known(alignments) THEN Unknown
  ELSE IF 16 \in alignments THEN 16
  ELSE IF 8 \in alignments THEN 8
  ELSE IF 4 \in alignments THEN 4
  ELSE IF 2 \in alignments THEN 2
  ELSE 1

-----------------------------------------------------------------------------

\* What the checker computes is what numbers make of it.
ArithmeticIsExact(numbers) ==
  /\ \A left, right \in numbers :
       Add(left, right) = left + right /\ Multiply(left, right) = left * right
  /\ \A n \in numbers, added \in 0 .. 16, alignment \in {1, 2, 4, 8, 16} :
       RoundUp(n + added, alignment) = ((n + added + alignment - 1) \div alignment) * alignment

-----------------------------------------------------------------------------
(* Types.                                                                  *)

Scalar(size) == [size |-> size, alignment |-> size, lists |-> FALSE, parts |-> <<>>]
Field(type, offset) == [type |-> type, offset |-> offset]

Larger(x, y) == IF x >= y THEN x ELSE y

-----------------------------------------------------------------------------

\* The positions of the fields, those of the largest alignment first, and in
\* the order of declaration among equals.
Sorted(fields) ==
  SortSeq([i \in DOMAIN fields |-> i],
          LAMBDA i, j : LET a == registered[fields[i]].alignment
                            b == registered[fields[j]].alignment
                        IN a > b \/ (a = b /\ i < j))

\* Where each field begins, in the order of declaration.
placed(fields) ==
  LET order == Sorted(fields)
      End[i \in 0 .. Len(fields)] ==
        IF i = 0 THEN 0 ELSE End[i - 1] + registered[fields[order[i]]].size
  IN [i \in DOMAIN fields |-> End[CHOOSE j \in 0 .. Len(fields) - 1 : order[j + 1] = i]]

alignmentOf(fields) ==
  FoldLeft(LAMBDA a, type : Larger(a, registered[type].alignment), 1, fields)

padded(end, alignment) == ((end + alignment - 1) \div alignment) * alignment

sizeOf(fields) ==
  padded(FoldLeft(LAMBDA end, type : end + registered[type].size, 0, fields), alignmentOf(fields))

struct(fields) ==
  [size |-> sizeOf(fields), alignment |-> alignmentOf(fields), lists |-> TRUE,
   parts |-> [i \in DOMAIN fields |-> Field(fields[i], placed(fields)[i])]]

repeated(type, n) ==
  [size |-> n * registered[type].size, alignment |-> registered[type].alignment, lists |-> FALSE,
   parts |-> [i \in 1 .. n |-> Field(type, (i - 1) * registered[type].size)]]

-----------------------------------------------------------------------------
(* The layouts that the types declare.                                     *)

PartsOf(type) == registered[type].parts

\* What the type of a value declares: literals, or computed of its parts.
TypeLayout[type \in 1 .. Len(registered)] ==
  LET Of(i) == TypeLayout[PartsOf(type)[i].type]
      alignment == LargestAlignment({Of(i).alignment : i \in DOMAIN PartsOf(type)})
      SumOfSizes == FoldLeft(LAMBDA sum, i : Add(sum, Of(i).size), 0, [i \in DOMAIN PartsOf(type) |-> i])
  IN IF PartsOf(type) = <<>> THEN [size |-> registered[type].size, alignment |-> registered[type].alignment]
     ELSE IF registered[type].lists THEN [size |-> RoundUp(SumOfSizes, alignment), alignment |-> alignment]
     ELSE [size |-> Multiply(Len(PartsOf(type)), Of(1).size), alignment |-> alignment]

LargestFirst(declared) ==
  SortSeq([i \in DOMAIN declared |-> i],
          LAMBDA i, j : \/ declared[i].alignment > declared[j].alignment
                        \/ declared[i].alignment = declared[j].alignment /\ i < j)

\* The whole layout of a type: with its fields, placed by what the type lists
\* of them.
readLayout(type) ==
  LET declared == [i \in DOMAIN PartsOf(type) |-> TypeLayout[PartsOf(type)[i].type]]
      Place(so, i) == [end |-> so.end + declared[i].size, offsets |-> (i :> so.end) @@ so.offsets]
      offsets == FoldLeft(Place, [end |-> 0, offsets |-> <<>>], LargestFirst(declared)).offsets
  IN [size |-> TypeLayout[type].size, alignment |-> TypeLayout[type].alignment,
      fields |-> IF registered[type].lists THEN offsets ELSE <<>>]

\* sizeOf, alignOf, and offsetOf, which leaves a field it does not find.
readLayoutMember(type, member) == TypeLayout[type][member]

offsetOf(type, i) ==
  LET fields == readLayout(type).fields IN IF i \in DOMAIN fields THEN fields[i] ELSE Unknown

-----------------------------------------------------------------------------

\* The scalars of a type, with where they begin, in the order of declaration.
Scalars[type \in 1 .. Len(registered)] ==
  LET parts == registered[type].parts IN
  IF parts = <<>> THEN <<Field(type, 0)>>
  ELSE FlattenSeq([i \in DOMAIN parts |->
         [j \in DOMAIN Scalars[parts[i].type] |->
           [Scalars[parts[i].type][j] EXCEPT !.offset = @ + parts[i].offset]]])

\* A scalar is written whole: each of its bytes says of which scalar it is.
BytesOf(scalar) == scalar.offset .. scalar.offset + registered[scalar.type].size - 1

writeFields(bytes, type, value, offset) ==
  FoldLeft(LAMBDA b, i : LET scalar == Scalars[type][i] IN
             [at \in DOMAIN b |-> IF at - offset \in BytesOf(scalar)
                                  THEN <<value[i], at - offset - scalar.offset>> ELSE b[at]],
           bytes, [i \in DOMAIN Scalars[type] |-> i])

\* What each scalar is read as: the bytes of its place.
readFields(bytes, type, offset) ==
  [i \in DOMAIN Scalars[type] |->
    LET scalar == Scalars[type][i] IN
    [k \in 1 .. registered[scalar.type].size |-> bytes[offset + scalar.offset + k - 1]]]

requireRoom(size, offset) == offset >= 0 /\ offset + size <= Cardinality(DOMAIN view)

-----------------------------------------------------------------------------

Empty == <<"none", 0>>

Init ==
  /\ registered = [i \in DOMAIN Sizes |-> Scalar(Sizes[i])]
  /\ view = [at \in 0 .. Offset + MaxSize |-> Empty]
  /\ written = <<>>
  /\ told = <<>>

Register(codec) ==
  /\ codec.size <= MaxSize
  /\ registered' = Append(registered, codec)
  /\ UNCHANGED <<view, written, told>>

Declare ==
  /\ Len(registered) < Len(Sizes) + MaxTypes
  /\ \E n \in 1 .. MaxFields : \E fields \in [1 .. n -> DOMAIN registered] : Register(struct(fields))

Repeat ==
  /\ Len(registered) < Len(Sizes) + MaxTypes
  /\ \E type \in DOMAIN registered, n \in 2 .. MaxFields : Register(repeated(type, n))

\* A value whose scalars are told apart by what they hold.
Write(type) ==
  LET value == [i \in DOMAIN Scalars[type] |-> i] IN
  /\ requireRoom(registered[type].size, Offset)
  /\ view' = writeFields(view, type, value, Offset)
  /\ written' = <<type, value>>
  /\ UNCHANGED <<registered, told>>

\* Of each type, its size and alignment, and the offset of each of its parts.
Tell ==
  /\ told' = [type \in DOMAIN registered |->
               [size |-> readLayoutMember(type, "size"), alignment |-> readLayoutMember(type, "alignment"),
                offsets |-> [i \in DOMAIN PartsOf(type) |-> offsetOf(type, i)]]]
  /\ UNCHANGED <<registered, view, written>>

\* Once a value is written, or the types are asked, no more are declared.
Next ==
  /\ written = <<>> /\ told = <<>>
  /\ Declare \/ Repeat \/ Tell \/ \E type \in DOMAIN registered : Write(type)

Spec == Init /\ [][Next]_vars

-----------------------------------------------------------------------------

\* Every scalar of every type lies within it, at an offset it can be read at
\* wherever a value of the type may lie, and no two share a byte; and a type's
\* size is a multiple of its alignment, so that values of it can be repeated.
LayoutsAreSound ==
  \A type \in DOMAIN registered :
    LET scalars == Scalars[type]
        this == registered[type]
    IN /\ this.size % this.alignment = 0
       /\ \A i \in DOMAIN scalars :
            /\ BytesOf(scalars[i]) \subseteq 0 .. this.size - 1
            /\ this.alignment % registered[scalars[i].type].alignment = 0
            /\ scalars[i].offset % registered[scalars[i].type].alignment = 0
            /\ \A j \in DOMAIN scalars : i # j => BytesOf(scalars[i]) \cap BytesOf(scalars[j]) = {}

\* What the checker computes of a type, and what the calls compiled by it answer,
\* is where the fields of its values are.
TypesTellTheLayout ==
  told # <<>> =>
    \A type \in DOMAIN registered :
      /\ told[type].size = registered[type].size
      /\ told[type].alignment = registered[type].alignment
      /\ \A i \in DOMAIN PartsOf(type) :
           told[type].offsets[i] = IF registered[type].lists THEN PartsOf(type)[i].offset ELSE Unknown

\* A value written is read back, scalar by scalar, and nothing around it is
\* touched.
StructsReadBack ==
  written # <<>> =>
    /\ \A i \in DOMAIN written[2] :
         LET read == readFields(view, written[1], Offset)[i] IN
         \A k \in DOMAIN read : read[k] = <<written[2][i], k - 1>>
    /\ \A at \in DOMAIN view :
         at \notin Offset .. Offset + registered[written[1]].size - 1 => view[at] = Empty
=============================================================================

------------------------------ MODULE MCValues ------------------------------
(***************************************************************************)
(* The numeric types, the structs and deep equality on small instances,    *)
(* one at a time.                                                          *)
(* Integers of three and four bits wrap, overflow and shift out; decimals  *)
(* of two digits in radix four have ties, digits far apart, and exponents  *)
(* at both ends; floats of two fraction bits are subnormal, normal and     *)
(* infinite; structs of up to three fields nest once; three objects hold   *)
(* each other, themselves, and zeros of both signs.                        *)
(***************************************************************************)
EXTENDS Calculator, TLC

CONSTANTS
  Sizes, MaxTypes, MaxFields, MaxSize, Offset,  \* of structs
  Numbers,                                      \* that the checker adds
  Objects, Primitives, Zeros,                   \* that are compared
  LookedAt                                      \* "numbers", "structs", "objects"

VARIABLES
  part,                        \* which of them is looked at
  registered, view, written, told,  \* of the structs
  heap, equal, literals        \* of the objects: what they are, which pairs are
                               \* equal, and what is written of each

S == INSTANCE Structs

ASSUME StructsAssumption == S!StructAssumption

structVars == <<registered, view, written, told>>
objectVars == <<heap, equal, literals>>

\* A rule for instances, by one of their fields.
rules == <<[kinds |-> {"instance"}, by |-> "a"]>>

G == INSTANCE ObjectGraphs

\* What an object may be; the keys of maps and sets are never negative zeros.
ObjectsInOrder == <<"x", "y", "z">>
Contents ==
  LET Of(kinds, entries) == [kind : kinds, entries : entries] IN
  Of({"record", "instance"}, {[a |-> v] : v \in Objects \cup Zeros})
  \cup Of({"record"}, {[a |-> v, b |-> "x"] : v \in {"x", "y"}})
  \cup Of({"array"}, {<<v>> : v \in Objects \cup {"-0"}})
  \cup Of({"map"}, {(k :> v) : k \in {"0", "x"}, v \in Objects})
  \cup Of({"set"}, {(k :> TRUE) : k \in {"NaN", "x", "y"}})
  \cup Of({"bytes", "typed"}, {<<v>> : v \in Zeros}) \cup Of({"bare", "record", "array"}, {<<>>})

Make ==
  /\ Cardinality(DOMAIN heap) < Cardinality(Objects)
  /\ \E content \in Contents :
       heap' = (ObjectsInOrder[Cardinality(DOMAIN heap) + 1] :> content) @@ heap
  /\ UNCHANGED <<equal, literals>>

\* Once all are made, they are compared, and written.
Compared == literals # <<>>

CompareAndWrite ==
  /\ DOMAIN heap = Objects /\ ~Compared
  /\ equal' = G!EqualPairs
  /\ literals' = [object \in Objects |-> G!constantOf(object)]
  /\ UNCHANGED heap

\* What is not looked at stays as it is.
MCInit ==
  /\ part \in LookedAt
  /\ heap = <<>> /\ equal = {} /\ literals = <<>>
  /\ IF part = "numbers" THEN Init ELSE kind = "integer" /\ type = Unbounded /\ left = 0 /\ right = 0
  /\ IF part = "structs" THEN S!Init ELSE registered = <<>> /\ view = <<>> /\ written = <<>> /\ told = <<>>

MCNext ==
  /\ part' = part
  /\ \/ part = "numbers" /\ Next /\ UNCHANGED <<structVars, objectVars>>
     \/ part = "structs" /\ S!Next /\ UNCHANGED <<vars, objectVars>>
     \/ part = "objects" /\ (Make \/ CompareAndWrite) /\ UNCHANGED <<vars, structVars>>

MCSpec == MCInit /\ [][MCNext]_<<part, vars, structVars, objectVars>>

\* Two values are equal exactly if nothing tells them apart, and that makes
\* classes of them (packages/functions/src/createEquals).
EqualIsIndistinguishable ==
  part = "objects" /\ Compared => G!EqualIsIndistinguishable(equal)

\* What is written is read back as it was: numbers as bytes and as text; the
\* fields of a struct, which share no byte and are aligned wherever a value lies,
\* at the offsets its type tells; and an object that a literal can be written of
\* (packages/types/src: codec.ts, format.ts, parse.ts, struct; packages/reflect:
\* transformer/layout, transformer/literal, constantOf).
WhatIsWrittenIsReadBack ==
  /\ NumbersReadBack
  /\ part = "structs" => S!LayoutsAreSound /\ S!StructsReadBack /\ S!TypesTellTheLayout
  /\ part = "structs" /\ Len(registered) = Len(Sizes) => S!ArithmeticIsExact(Numbers)
  /\ part = "objects" /\ Compared => G!LiteralsReadBack(literals)

-----------------------------------------------------------------------------

Signed(width) == [signed |-> TRUE, width |-> width, big |-> FALSE]
Unsigned(width) == [signed |-> FALSE, width |-> width, big |-> FALSE]
Big(t) == [t EXCEPT !.big = TRUE]

TypesValue ==
  LET numbers == {Signed(3), Unsigned(3), Signed(4), Unsigned(4)} IN
  numbers \cup {Big(t) : t \in numbers} \cup {Unbounded}
ElementTypesValue == {Signed(4), Unbounded}
ShapesValue == {<<1, 2>>, <<2, 1>>, <<2, 2>>}
PartsValue == {-1, 2}
SizesValue == <<1, 2, 4>>
MinusThree == -3
MinusOne == -1
RoundedPlacesValue == -3 .. 3
=============================================================================

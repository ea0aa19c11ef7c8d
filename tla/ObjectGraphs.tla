---------------------------- MODULE ObjectGraphs ----------------------------
(***************************************************************************)
(* What is done with objects that hold each other: deep equality with      *)
(* rules (packages/functions/src/createEquals), and the literals that can  *)
(* be written of what constantOf computed (packages/reflect:               *)
(* functions/utils/constantOf, transformer/literal).  Values are           *)
(* primitives and objects; the heap says what each object is: its kind,    *)
(* which stands for its prototype, and its entries, of an array and a set  *)
(* its elements.  A rule recognizes the objects of some kinds and compares *)
(* a part of them.  A literal is a tree: what is at every path into it.    *)
(***************************************************************************)
EXTENDS Integers, SequencesExt

CONSTANTS
  Objects, Primitives,
  Zeros,         \* the primitives that are equal and not the same
  rules          \* in order, each [kinds, by]: what it recognizes and compares

VARIABLE heap

Kinds == {"record", "bare", "array", "map", "set", "bytes", "typed", "instance"}

isObject(value) == value \in Objects

\* Two different zeros are equal, and NaN is itself.
sameValueZero(left, right) == left = right \/ {left, right} \subseteq Zeros

Entries(object) == heap[object].entries

-----------------------------------------------------------------------------
(* Structures, by a comparison of their parts.                             *)

compareRecords(left, right, compare(_, _)) ==
  /\ DOMAIN Entries(left) = DOMAIN Entries(right)
  /\ \A key \in DOMAIN Entries(left) : compare(Entries(left)[key], Entries(right)[key])

compareArrays(left, right, compare(_, _)) ==
  /\ Len(Entries(left)) = Len(Entries(right))
  /\ \A i \in DOMAIN Entries(left) : compare(Entries(left)[i], Entries(right)[i])

\* A map has its keys by what they are, not by what they hold.
Held(entries, key) == {k \in DOMAIN entries : sameValueZero(k, key)}

compareMaps(left, right, compare(_, _)) ==
  /\ Cardinality(DOMAIN Entries(left)) = Cardinality(DOMAIN Entries(right))
  /\ \A key \in DOMAIN Entries(left) :
       \E other \in Held(Entries(right), key) : compare(Entries(left)[key], Entries(right)[other])

compareSets(left, right) ==
  /\ Cardinality(DOMAIN Entries(left)) = Cardinality(DOMAIN Entries(right))
  /\ \A item \in DOMAIN Entries(left) : Held(Entries(right), item) # {}

\* Bytes are compared as they are, the elements of a typed array as numbers.
compareBytes(left, right) == Entries(left) = Entries(right)
compareTypedArrays(left, right) == compareArrays(left, right, sameValueZero)

compareStructures(left, right, compare(_, _)) ==
  LET kind == heap[left].kind IN
  /\ kind = heap[right].kind
  /\ CASE kind \in {"record", "bare"} -> compareRecords(left, right, compare)
       [] kind = "array" -> compareArrays(left, right, compare)
       [] kind = "map" -> compareMaps(left, right, compare)
       [] kind = "set" -> compareSets(left, right)
       [] kind = "bytes" -> compareBytes(left, right)
       [] kind = "typed" -> compareTypedArrays(left, right)
       [] kind = "instance" -> FALSE

-----------------------------------------------------------------------------
(* Rules.                                                                  *)

is(rule, value) == isObject(value) /\ heap[value].kind \in rule.kinds

Recognizing(first, second) ==
  {r \in DOMAIN rules : is(rules[r], first) \/ is(rules[r], second)}

\* The first rule that recognizes either decides.
Ruled(first, second, nested(_, _)) ==
  LET r == CHOOSE r \in Recognizing(first, second) : \A s \in Recognizing(first, second) : r <= s
  IN /\ is(rules[r], first) /\ is(rules[r], second)
     /\ nested(Entries(first)[rules[r].by], Entries(second)[rules[r].by])

decide(first, second, compare(_, _)) ==
  IF Recognizing(first, second) # {} THEN Ruled(first, second, compare)
  ELSE IF isObject(first) /\ isObject(second) THEN compareStructures(first, second, compare)
  ELSE sameValueZero(first, second)

RECURSIVE Compared(_, _, _)

\* Mutant: what is being compared already is taken for different.
AssumedDifferent(first, second) == FALSE

\* Two objects that are being compared already are taken for equal.
Assumed(first, second) == TRUE

Compared(first, second, inProgress) ==
  IF first = second THEN TRUE
  ELSE IF ~isObject(first) \/ ~isObject(second)
  THEN decide(first, second, LAMBDA l, r : Compared(l, r, inProgress))
  ELSE IF <<first, second>> \in inProgress THEN Assumed(first, second)
  ELSE decide(first, second, LAMBDA l, r : Compared(l, r, inProgress \cup {<<first, second>>}))

equals(left, right) == Compared(left, right, {})

Values == Objects \cup Primitives

\* What an object is compared with, and found equal to.
EqualPairs == {p \in Objects \X Values : equals(p[1], p[2])}

-----------------------------------------------------------------------------

\* What stands one comparison: the same, or decided by pairs that stand it too.
Stands(pairs) ==
  {p \in pairs : p[1] = p[2] \/ decide(p[1], p[2], LAMBDA l, r : <<l, r>> \in pairs)}

RECURSIVE Greatest(_)
Greatest(pairs) == IF Stands(pairs) = pairs THEN pairs ELSE Greatest(Stands(pairs))

\* Two values are equal exactly if nothing that can be reached from both in the
\* same way tells them apart, cycles included; and that makes classes of them.
EqualIsIndistinguishable(equal) ==
  LET same == Greatest(Values \X Values) IN
  /\ equal = {p \in same : p[1] \in Objects}
  /\ \A p \in same : <<p[2], p[1]>> \in same
  /\ \A p, q \in same : p[2] = q[1] => <<p[1], q[2]>> \in same

-----------------------------------------------------------------------------
(* Literals.                                                               *)

\* Keys in the order they are walked: which one it is does not matter.
Keys(object) == SetToSeq(DOMAIN Entries(object))

\* An array and a plain object, of whatever realm, can be written; what has a
\* prototype of its own, or holds something behind its keys, cannot.
IsPlain(object) == heap[object].kind \in {"record", "bare", "array"}

\* An object reached once stays seen, also when the walk has left it.
Reached(seen, before) == seen

RECURSIVE describeUnwritable(_, _)

Refused == [writable |-> FALSE, seen |-> {}]

\* Whether a value can be written, and the objects reached by then.
describeUnwritable(value, seen) ==
  LET Inner(so, key) ==
        IF ~so.writable THEN so ELSE describeUnwritable(Entries(value)[key], so.seen)
      walked == FoldLeft(Inner, [writable |-> TRUE, seen |-> seen \cup {value}], Keys(value))
  IN IF ~isObject(value) THEN [writable |-> TRUE, seen |-> seen]
     ELSE IF value \in seen \/ ~IsPlain(value) THEN Refused
     ELSE [walked EXCEPT !.seen = Reached(@, seen)]

IsWritable(value) == describeUnwritable(value, {}).writable

RECURSIVE constantLiteral(_)

\* Each path into the literal, with what is written there: a primitive, or a
\* frozen array or object.
constantLiteral(value) ==
  IF ~isObject(value) THEN {<<<<>>, <<"primitive", value>>>>}
  ELSE {<<<<>>, <<"frozen", IF heap[value].kind = "array" THEN "array" ELSE "record">>>>}
       \cup UNION {{<<<<key>> \o there[1], there[2]>> : there \in constantLiteral(Entries(value)[key])} :
                    key \in DOMAIN Entries(value)}

\* What is written of a value: its literal, or nothing if it is refused.
constantOf(value) == IF IsWritable(value) THEN constantLiteral(value) ELSE {}

\* What a value holds at each path, as long as no path goes through an object
\* twice or behind one's keys.
RECURSIVE PathsOf(_, _)
PathsOf(value, through) ==
  {<<<<>>, value>>}
    \cup (IF ~isObject(value) THEN {}
          ELSE IF value \in through \/ ~IsPlain(value) THEN {}
          ELSE UNION {{<<<<key>> \o there[1], there[2]>> :
                         there \in PathsOf(Entries(value)[key], through \cup {value})} :
                       key \in DOMAIN Entries(value)})

\* What a literal that is the value says at a path: what is there.  An object
\* without a prototype is the exception: the literal says an object with one.
SaidOf(value) ==
  IF ~isObject(value) THEN <<"primitive", value>>
  ELSE IF heap[value].kind = "bare" THEN <<"frozen", "record">>
  ELSE <<"frozen", heap[value].kind>>

\* A value is written exactly if a literal can be the same value: every object
\* in it is plain and at one path only, which is where the literal has one; so
\* nothing shared, and no cycle, is silently copied into two.  What is written
\* says, at every path and at no other, what the value holds there, an array, an
\* object or a primitive.  transformer/literal/index.ts:9-11 promises a value
\* "equal to what the runtime would have produced"; of an object made with
\* Object.create(null), which describeUnwritable accepts, :150 writes `{}`, an
\* object of another prototype: SaidOf says so, and nothing else differs.
LiteralsReadBack(literals) ==
  \A object \in DOMAIN heap :
    LET writable == literals[object] # {}
        paths == PathsOf(object, {})
        objects == {p \in paths : isObject(p[2])}
        OnePathEach == \A p, q \in objects : p[2] = q[2] => p[1] = q[1]
        AllPlain == \A p \in objects : IsPlain(p[2])
    IN /\ writable <=> AllPlain /\ OnePathEach
       /\ writable => literals[object] = {<<p[1], SaidOf(p[2])>> : p \in paths}
=============================================================================

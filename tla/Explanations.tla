---------------------------- MODULE Explanations ----------------------------
(***************************************************************************)
(* Where a value stopped matching a type (packages/transform-core:         *)
(* structural/explain), and the calls that test a value                    *)
(* (packages/reflect: is, as; packages/collections: ofType, cast); default *)
(* values of a type and the paths to its leaves.  An explanation is a      *)
(* tree: what is looked at of a value, and of its parts.                   *)
(***************************************************************************)
EXTENDS StructuralTests

CONSTANTS
  MAX_EXPLAINED,  \* how deep an explanation looks
  MAX_DESCRIBED   \* how deep paths are followed

Explains(looks, type, check, inner, definitionOf) ==
  [looks |-> looks, type |-> type, check |-> check, inner |-> inner,
   names |-> definitionOf.names, optional |-> definitionOf.optional]

accepts == [looks |-> "nowhere"]
unknown == [looks |-> "unknown"]

\* Mutant: a literal goes by the name of its primitive.
AlsoOfLiterals(type) ==
  IF Kind(type) = "stringLiteral" THEN "string"
  ELSE IF Kind(type) \in DOMAIN Primitives THEN Primitives[Kind(type)] ELSE ""

\* The name a type has at runtime; of a literal it would say too little.
primitiveNameOf(type) == IF Kind(type) \in DOMAIN Primitives \ {"bigintLiteral"} THEN Primitives[Kind(type)] ELSE ""

\* The yes or no of a type, written beside the test with functions of its own.
fallback(type, walk) == checkFor(type, Generation(walk.recursive, walk.counter), 0)

\* An explanation, and how many functions were named by then.
Tested(type, wrote, walk) ==
  [explains |-> IF wrote.check = refused THEN unknown
                ELSE Explains("whole", type, wrote.check, <<>>, definition[type]),
   walk |-> [walk EXCEPT !.counter = wrote.generation.counter]]

vague(type, walk) == Tested(type, fallback(type, walk), walk)

RECURSIVE explainFor(_, _, _)

explainArray(type, walk, depth) ==
  [explainFor(Parts(type)[1], walk, depth + 1) EXCEPT
     !.explains = Explains("elements", type, refused, IF @ = unknown THEN <<>> ELSE <<@>>, definition[type])]

Following(so, explained) ==
  [explains |-> Append(so.explains, explained.explains), walk |-> explained.walk]

explainObject(type, walk, depth) ==
  LET Next(so, part) == Following(so, explainFor(part, so.walk, depth + 1))
  IN [FoldLeft(Next, [explains |-> <<>>, walk |-> walk], Parts(type)) EXCEPT
        !.explains = Explains("fields", type, refused, @, definition[type])]

explainFor(type, walk, depth) ==
  CASE depth > MAX_EXPLAINED -> vague(type, walk)
    [] Kind(type) = "any" -> [explains |-> accepts, walk |-> walk]
    [] primitiveNameOf(type) # "" ->
         [explains |-> Explains("whole", type, Check("typeof", primitiveNameOf(type), <<>>), <<>>, definition[type]),
          walk |-> walk]
    [] Kind(type) = "array" -> explainArray(type, walk, depth)
    [] Kind(type) \in {"object", "indexed", "global"} /\ Parts(type) # <<>> -> explainObject(type, walk, depth)
    [] OTHER -> vague(type, walk)

buildExplainer(type, test) ==
  explainFor(type, [recursive |-> findRecursive(type), counter |-> test.counter], 0).explains

-----------------------------------------------------------------------------
(* What an explanation says of a value: nothing, the first path at which it *)
(* is not of the type that is expected there, or that it throws.            *)

Said(says, path, type) == [says |-> says, path |-> path, type |-> type]
silent == Said("nothing", <<>>, "")

\* The first that is not silent.
First(sayings) ==
  IF \E i \in DOMAIN sayings : sayings[i] # silent
  THEN sayings[CHOOSE i \in DOMAIN sayings :
                 sayings[i] # silent /\ \A j \in 1 .. i - 1 : sayings[j] = silent]
  ELSE silent

RECURSIVE Explanation(_, _, _, _)

Explanation(explains, value, path, functions) ==
  LET complaint == Said("complains", path, explains.type)
      Under(i, name, part) == Explanation(explains.inner[i], part, Append(path, name), functions)
      Skipped(i, part) ==
        explains.names[i] = "@symbol" \/ (explains.optional[i] /\ part.kind = "undefined")
  IN CASE explains.looks \in {"nowhere", "unknown"} -> silent
       [] explains.looks = "whole" ->
            LET answer == Answer(explains.check, value, functions)
            IN IF answer = "yes" THEN silent
               ELSE IF answer = "no" THEN complaint ELSE Said("throws", path, explains.type)
       [] explains.looks = "elements" ->
            IF value.kind # "array" THEN complaint
            ELSE IF explains.inner = <<>> THEN silent
            ELSE First([i \in DOMAIN value.parts |-> Under(1, ToString(i), value.parts[i])])
       [] explains.looks = "fields" ->
            IF value.kind \notin {"array", "object"} THEN complaint
            ELSE First([i \in DOMAIN explains.inner |->
                   LET part == Field(value, explains.names[i])
                   IN IF Skipped(i, part) THEN silent ELSE Under(i, explains.names[i], part)])

-----------------------------------------------------------------------------
(* The calls.                                                              *)

\* is(value); without a test the call is rejected.
is(test, value) ==
  IF test.check = refused THEN "rejected" ELSE Answer(test.check, value, test.functions)

\* as(value): what is passed on, or where it is said not to match.
as(test, explains, value) ==
  CASE is(test, value) = "yes" -> silent
    [] is(test, value) = "rejected" -> Said("rejected", <<>>, "")
    [] OTHER -> Explanation(explains, value, <<>>, test.functions)

\* What a sequence's ofType and cast narrow by: a name, a class or a test.
resolveTypeToken(type) ==
  LET name == CASE Kind(type) \in DOMAIN Primitives -> Primitives[Kind(type)]
                [] Kind(type) = "stringLiteral" -> "string"
                [] Kind(type) = "numberLiteral" -> "number"
                [] Kind(type) = "booleanLiteral" -> "boolean"
                [] Kind(type) = "undefined" -> "undefined"
                [] OTHER -> ""
  IN IF name # "" THEN [check |-> Check("typeof", name, <<>>), functions |-> <<>>, counter |-> 0]
     ELSE IF Kind(type) = "class"
     THEN [check |-> classCheck(type, Generation({}, 0)).check, functions |-> <<>>, counter |-> 0]
     ELSE buildStructuralTest(type)
-----------------------------------------------------------------------------
(* What the compiler says of a type (packages/reflect/src/transformer): a   *)
(* default value of it (defaultOf), and the paths to the leaves of its      *)
(* values (pathsOf, in describe).                                          *)

Value(kind, text) == [kind |-> kind, text |-> text, names |-> <<>>, parts |-> <<>>]
null == Value("null", "")

EmptyOf == [string |-> Value("string", ""), template |-> null, number |-> Value("number", "0"),
            bigint |-> Value("bigint", "0"), symbol |-> Value("symbol", "new")]

Constructible == {"Map", "Set", "WeakMap", "WeakSet", "Date"}

-----------------------------------------------------------------------------

RECURSIVE buildDefault(_, _, _)

\* A union is empty if it can be, the first of its members otherwise.
buildUnionDefault(type, seen, depth) ==
  LET members == Parts(type)
      nullish == {i \in DOMAIN members : Kind(members[i]) \in {"null", "undefined"}}
  IN IF nullish = {} THEN buildDefault(members[1], seen, depth + 1)
     ELSE Value(Kind(members[CHOOSE i \in nullish : \A j \in nullish : i <= j]), "")

\* Mutant: every property is left out.
LeavesOut(d) == {}

\* The properties a value needs.
Needed(d) == {i \in DOMAIN d.parts : ~d.optional[i]}

buildObjectDefault(type, seen, depth) ==
  LET d == definition[type]
      needed == SetToSortSeq(Needed(d), LAMBDA i, j : i < j)
      Of(i) == buildDefault(d.parts[i], seen \cup {type}, depth + 1)
  IN CASE d.kind = "tuple" ->
            [Value("array", "") EXCEPT !.parts = [i \in DOMAIN d.parts |-> buildDefault(d.parts[i], seen, depth + 1)]]
       [] d.kind = "array" -> Value("array", "")
       [] d.kind \in Classes /\ d.text \in Constructible -> Value("object", d.text)
       [] d.kind = "function" -> Value("function", "")
       [] OTHER -> [Value("object", "") EXCEPT
                     !.names = [n \in DOMAIN needed |-> d.names[needed[n]]],
                     !.parts = [n \in DOMAIN needed |-> Of(needed[n])]]

\* A cycle is closed with null.
buildDefault(type, seen, depth) ==
  LET d == definition[type] IN
  CASE type \in seen \/ depth > MAX_DEPTH -> null
    [] d.kind \in {"undefined", "never"} -> undefined
    [] d.kind \in {"null", "any", "unresolved", "intersection"} -> null
    [] d.kind = "stringLiteral" -> Value("string", d.text)
    [] d.kind = "numberLiteral" -> Value("number", d.text)
    [] d.kind = "booleanLiteral" -> Value("boolean", d.text)
    [] d.kind = "bigintLiteral" -> Value("bigint", d.text)
    [] d.kind \in DOMAIN EmptyOf -> EmptyOf[d.kind]
    [] d.kind = "union" /\ d.text = "boolean" -> Value("boolean", "false")
    [] d.kind = "union" /\ d.text # "boolean" -> buildUnionDefault(type, seen, depth)
    [] OTHER -> buildObjectDefault(type, seen, depth)

defaultOf(type) == buildDefault(type, {}, 0)

-----------------------------------------------------------------------------
(* Paths.                                                                  *)

LeafKinds == Literals \cup DOMAIN Primitives \cup {"null", "undefined", "any", "never"}

withoutUndefined(type) ==
  IF Kind(type) # "union" THEN [rest |-> <<type>>, optional |-> FALSE]
  ELSE LET rest == SelectSeq(Parts(type), LAMBDA part : Kind(part) # "undefined")
       IN [rest |-> rest, optional |-> Len(rest) # Len(Parts(type))]

\* The properties of a type; an intersection has those of its members.
shapeOf(type) ==
  LET Of(Get(_)) == FlattenSeq([i \in DOMAIN Parts(type) |-> Get(definition[Parts(type)[i]])])
      d == definition[type]
  IN IF d.kind # "intersection" THEN d
     ELSE [d EXCEPT !.names = Of(LAMBDA m : m.names), !.parts = Of(LAMBDA m : m.parts),
                    !.optional = Of(LAMBDA m : m.optional)]

\* Those whose names a source can write.
Reportable(d) == SelectSeq([i \in DOMAIN d.parts |-> i], LAMBDA i : d.names[i] # "@symbol")

RECURSIVE walkPaths(_, _, _, _, _)

walkPaths(current, prefix, optional, open, depth) ==
  LET split == withoutUndefined(current)
      soFar == optional \/ split.optional
      single == split.rest[1]
      d == shapeOf(single)
      Found(type) == <<[path |-> prefix, type |-> type, optional |-> soFar]>>
      Member(i) == walkPaths(d.parts[i], Append(prefix, d.names[i]), soFar \/ d.optional[i],
                             open \cup {single}, depth + 1)
  IN IF Len(split.rest) > 1 \/ Len(split.rest) = 0 THEN Found(current)
     ELSE IF d.kind \in LeafKinds \cup Classes THEN Found(single)
     ELSE IF d.kind = "array" THEN walkPaths(d.parts[1], Append(prefix, "[]"), soFar, open, depth + 1)
     ELSE IF single \in open \/ depth > MAX_DESCRIBED \/ Reportable(d) = <<>>
     THEN Found(single)
     ELSE FlattenSeq([n \in DOMAIN Reportable(d) |-> Member(Reportable(d)[n])])

pathsOfType(type) == walkPaths(type, <<>>, FALSE, {}, 0)

\* What the library declares of arrays.
ArrayMembers == <<"length", "map">>

\* The names of a type's members, of those that have any to name.
keysOfType(type) ==
  IF Kind(type) \in LeafKinds \cup {"union"} \cup Classes THEN <<>>
  ELSE IF Kind(type) \in {"array", "tuple"} THEN ArrayMembers
  ELSE LET d == shapeOf(type) IN [n \in DOMAIN Reportable(d) |-> d.names[Reportable(d)[n]]]

-----------------------------------------------------------------------------
(* What the calls of a type become, and what they answer when they run.    *)

Written(type) ==
  LET test == buildStructuralTest(type) IN
  [test |-> test, explains |-> buildExplainer(type, test), token |-> resolveTypeToken(type),
   default |-> defaultOf(type), paths |-> pathsOfType(type), keys |-> keysOfType(type)]

Answers(written, value) ==
  [is |-> is(written.test, value), as |-> as(written.test, written.explains, value),
   narrows |-> is(written.token, value)]

-----------------------------------------------------------------------------
(* What the tests, explanations, defaults and paths written from a type    *)
(* stand for: which values are of a type.                                  *)

RECURSIVE IsBy(_, _, _)

\* Whether a value is of a type, of which the kinds in `loose` go by their typeof.
IsBy(value, type, loose) ==
  LET d == definition[type]
      Is(part, of) == IsBy(part, of, loose) IN
  CASE d.kind \in loose -> value.kind = Primitives[d.kind]
    [] d.kind = "any" -> TRUE
    [] d.kind \in {"never", "unresolved", "indexed"} -> FALSE
    [] d.kind \in Literals \cup {"null", "undefined"} -> IsLiteral(value, type)
    [] d.kind \in {"string", "number", "bigint", "symbol"} -> value.kind = d.kind
    [] d.kind = "bigintLiteral" -> value.kind = "bigint" /\ value.text = d.text
    [] d.kind = "template" -> value.kind = "string" /\ value.text = d.text
    [] d.kind = "function" -> value.kind = "function"
    [] d.kind = "union" -> \E i \in DOMAIN d.parts : Is(value, d.parts[i])
    [] d.kind = "intersection" -> \A i \in DOMAIN d.parts : Is(value, d.parts[i])
    [] d.kind = "array" -> value.kind = "array" /\ \A i \in DOMAIN value.parts : Is(value.parts[i], d.parts[1])
    [] d.kind = "tuple" -> /\ value.kind = "array" /\ Len(value.parts) = Len(d.parts)
                           /\ \A i \in DOMAIN d.parts : Is(value.parts[i], d.parts[i])
    [] d.kind \in Classes -> value.kind = "object" /\ value.text = d.text
    [] d.kind = "object" ->
         /\ value.kind \in {"array", "object"}
         /\ \A i \in DOMAIN d.parts :
              \/ Is(Field(value, d.names[i]), d.parts[i])
              \/ d.optional[i] /\ Field(value, d.names[i]).kind = "undefined"

Is(value, type) == IsBy(value, type, {})

\* What a type is made of, itself included.
RECURSIVE Reached(_, _)
Reached(type, so) ==
  IF type \in so THEN so
  ELSE FoldLeft(LAMBDA all, part : Reached(part, all), so \cup {type}, partsOf(type))
MadeOf(type) == Reached(type, {})

MadeOfKind(type, kinds) == \E t \in MadeOf(type) : Kind(t) \in kinds

OnCircle(type) == \E i \in DOMAIN partsOf(type) : type \in MadeOf(partsOf(type)[i])
IsCyclic(type) == \E t \in MadeOf(type) : OnCircle(t)

\* A circle of types that is come to, from outside it, by way of a union.
EnteredByUnion(type) ==
  \E u \in MadeOf(type) :
    /\ Kind(u) = "union" /\ OnCircle(u)
    /\ u = type \/ \E t \in MadeOf(type) \ MadeOf(u) : u \in ToSet(partsOf(t))

\* How many levels of parts a type has.
RECURSIVE Levels(_)
Levels(type) ==
  IF partsOf(type) = <<>> THEN 0
  ELSE 1 + (CHOOSE n \in {Levels(t) : t \in ToSet(partsOf(type))} :
              \A t \in ToSet(partsOf(type)) : Levels(t) <= n)

TooDeep(type) == ~IsCyclic(type) /\ Levels(type) > MAX_DEPTH

\* What a value of a type cannot do without; of a union, of its first member.
Needs(type) ==
  LET d == definition[type] IN
  CASE d.kind = "object" -> {d.parts[i] : i \in {j \in DOMAIN d.parts : ~d.optional[j]}}
    [] d.kind = "tuple" -> ToSet(d.parts)
    [] d.kind = "union" /\ ~\E i \in DOMAIN d.parts : Kind(d.parts[i]) \in {"null", "undefined"} -> {d.parts[1]}
    [] OTHER -> {}

RECURSIVE ComesBack(_, _)
ComesBack(type, path) == type \in path \/ \E t \in Needs(type) : ComesBack(t, path \cup {type})

\* A type of which each value needs another.
NeedsItself(type) == ComesBack(type, {})

\* The values at the end of a path, in every element of the arrays on it.
RECURSIVE ValuesAt(_, _)
ValuesAt(value, path) ==
  IF path = <<>> THEN {value}
  ELSE IF value.kind = "array"
  THEN UNION {ValuesAt(value.parts[i], Tail(path)) :
                i \in {j \in DOMAIN value.parts : Head(path) \in {"[]", ToString(j)}}}
  ELSE ValuesAt(Field(value, Head(path)), Tail(path))

-----------------------------------------------------------------------------

\* What no check can be written of.
CannotBeProved == {"unresolved", "indexed"}

IsUnprovable(type) ==
  LET d == definition[type] IN
  \/ d.kind \in CannotBeProved
  \/ d.kind = "class" /\ d.text \notin InScope
  \/ d.kind = "tuple" /\ d.text = "variable"
  \/ d.kind = "object" /\ (d.parts = <<>> \/ \E i \in DOMAIN d.names : d.names[i] = "@symbol")

RefusedTypes ==
  {type \in Types : EnteredByUnion(type) \/ TooDeep(type) \/ \E t \in MadeOf(type) : IsUnprovable(t)}

\* What the test of a type, refused or not, has to answer of a value.
Right(type, value, isRefused) ==
  IF isRefused THEN "rejected"
  ELSE IF IsBy(value, type, {"bigintLiteral", "template"}) THEN "yes" ELSE "no"

\* What a sequence narrows a literal type by: the typeof of the literal.
TypeOfLiteral == [stringLiteral |-> "string", numberLiteral |-> "number", booleanLiteral |-> "boolean"]
Narrows(type, value, isRefused) ==
  IF Kind(type) \notin DOMAIN TypeOfLiteral THEN Right(type, value, isRefused)
  ELSE IF value.kind = TypeOfLiteral[Kind(type)] THEN "yes" ELSE "no"

\* A test says yes to the values of its type and no to all others, or is refused,
\* and never calls what is not declared.
IsExact(type, value, answers, isRefused) ==
  answers.is = Right(type, value, isRefused) /\ answers.narrows = Narrows(type, value, isRefused)

\* What as() refuses it explains by a path at which the value is not of the type
\* expected there.
ExplainsWhatFails(type, value, said) ==
  said.says # "rejected" =>
    /\ said = silent <=> Is(value, type)
    /\ said # silent => /\ said.says = "complains"
                        /\ \A part \in ValuesAt(value, said.path) : ~Is(part, said.type)

\* The keys of an object type are what its paths begin with.
KeysBeginPaths(type, keys, paths) ==
  keys # <<>> /\ Kind(type) \notin {"array", "tuple"}
    => ToSet(keys) = {paths[n].path[1] : n \in DOMAIN paths}

\* A path that is not optional leads to something in every value of the type, and
\* whatever a path leads to is of the type named at its end, or absent.
PathsLeadSomewhere(type, value, paths) ==
  Is(value, type) =>
    \A n \in DOMAIN paths : \A part \in ValuesAt(value, paths[n].path) :
      \/ Is(part, paths[n].type)
      \/ paths[n].optional /\ part.kind = "undefined"
=============================================================================

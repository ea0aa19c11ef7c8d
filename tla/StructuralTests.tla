-------------------------- MODULE StructuralTests --------------------------
(***************************************************************************)
(* Tests written out from types when the code is compiled                  *)
(* (packages/transform-core: structural).  Of a type the checker knows its *)
(* definition, and the types it is made of; what is written is a tree of   *)
(* checks and the functions that stand for types that refer to themselves. *)
(* A value is [kind, text, names, parts]: of an array the elements, of an  *)
(* object its fields and, in text, its class.                              *)
(***************************************************************************)
EXTENDS Integers, SequencesExt, TLC

CONSTANTS
  Types, definition,   \* [kind, text, names, optional, parts] of every type
  InScope,             \* the classes that are values where the call is
  MAX_DEPTH            \* how deep a type is written out

refused == [test |-> "refused"]

undefined == [kind |-> "undefined", text |-> "", names |-> <<>>, parts |-> <<>>]

Field(value, name) ==
  IF \E i \in DOMAIN value.names : value.names[i] = name
  THEN value.parts[CHOOSE i \in DOMAIN value.names : value.names[i] = name] ELSE undefined

Kind(type) == definition[type].kind
Parts(type) == definition[type].parts

Literals == {"stringLiteral", "numberLiteral", "booleanLiteral"}
Classes == {"class", "global"}
Primitives == [string |-> "string", number |-> "number", bigint |-> "bigint", symbol |-> "symbol",
               template |-> "string", bigintLiteral |-> "bigint"]

-----------------------------------------------------------------------------
(* Cycles.                                                                 *)

partsOf(type) ==
  IF Kind(type) \in {"union", "intersection", "array", "tuple", "object", "indexed"}
  THEN Parts(type) ELSE <<>>

RECURSIVE visitType(_, _, _)

\* Met again on the way down, a type is the one its cycle closes on.
visitType(type, path, found) ==
  IF type \in path THEN [found EXCEPT !.recursive = @ \cup {type}]
  ELSE IF type \in found.finished THEN found
  ELSE LET walked == FoldLeft(LAMBDA so, part : visitType(part, path \cup {type}, so), found, partsOf(type))
       IN [walked EXCEPT !.finished = @ \cup {type}]

\* Mutant: only a type that is a part of itself is recursive.
DirectlyOnly(root) == {type \in Types : \E i \in DOMAIN partsOf(type) : partsOf(type)[i] = type}

findRecursive(root) == visitType(root, {}, [recursive |-> {}, finished |-> {}]).recursive

-----------------------------------------------------------------------------
(* Checks.                                                                 *)

Check(test, text, checks) ==
  [test |-> test, text |-> text, checks |-> checks, names |-> <<>>, optional |-> <<>>]

\* What was written of a type, and what the generation knows by then.
Wrote(check, generation) == [check |-> check, generation |-> generation]

RECURSIVE checkFor(_, _, _)

admitsUndefined(type) ==
  \/ Kind(type) = "undefined"
  \/ Kind(type) = "union" /\ \E i \in DOMAIN Parts(type) : Kind(Parts(type)[i]) = "undefined"

\* Which of an object's properties may be absent beside what their types admit.
Optional(definitionOf) ==
  [i \in DOMAIN definitionOf.parts |->
    definitionOf.optional[i] /\ ~admitsUndefined(definitionOf.parts[i])]

Combining == [union |-> "any", intersection |-> "all", array |-> "every", tuple |-> "tuple", object |-> "object"]

\* A rest element, no property at all, and a name that cannot be written.
IsVague(d) ==
  \/ d.kind = "tuple" /\ d.text = "variable"
  \/ d.kind = "object" /\ (d.parts = <<>> \/ \E i \in DOMAIN d.names : d.names[i] = "@symbol")

Extended(wrote, next) == Wrote(Append(wrote.check, next.check), next.generation)

\* The checks of all parts make one; refused if any is.
Combined(d, wrote) ==
  IF \E i \in DOMAIN wrote.check : wrote.check[i] = refused THEN Wrote(refused, wrote.generation)
  ELSE Wrote([Check(Combining[d.kind], "", wrote.check) EXCEPT !.names = d.names, !.optional = Optional(d)],
             wrote.generation)

\* The parts of a type are written one after the other.
checkForParts(type, generation, depth) ==
  LET d == definition[type]
      Next(so, part) == Extended(so, checkFor(part, so.generation, depth + 1))
  IN IF IsVague(d) THEN Wrote(refused, generation)
     ELSE Combined(d, FoldLeft(Next, Wrote(<<>>, generation), d.parts))

classCheck(type, generation) ==
  LET name == definition[type].text IN
  Wrote(IF Kind(type) = "global" \/ name \in InScope THEN Check("instanceof", name, <<>>) ELSE refused,
        generation)

checkForObject(type, generation, depth) ==
  LET opened == [generation EXCEPT !.open = @ \cup {type}]
      wrote == CASE Kind(type) \in DOMAIN Combining -> checkForParts(type, opened, depth)
                 [] Kind(type) \in Classes -> classCheck(type, opened)
                 [] Kind(type) = "function" -> Wrote(Check("typeof", "function", <<>>), opened)
                 [] Kind(type) = "indexed" -> Wrote(refused, opened)
  IN [wrote EXCEPT !.generation.open = generation.open]

Named(generation) == "check" \o ToString(generation.counter)

\* The function of a type has its body once that is written, and is taken back
\* if it cannot be.
Declared(type, name, wrote) ==
  IF wrote.check = refused
  THEN Wrote(refused, [wrote.generation EXCEPT
                        !.declared = [t \in DOMAIN @ \ {type} |-> @[t]]])
  ELSE Wrote(Check("call", name, <<>>), [wrote.generation EXCEPT !.declared[type].body = wrote.check])

\* A type that refers to itself becomes a function, and every mention of it a call.
checkThroughFunction(type, generation) ==
  IF type \in DOMAIN generation.declared
  THEN Wrote(Check("call", generation.declared[type].name, <<>>), generation)
  ELSE LET name == Named(generation)
           named == [generation EXCEPT !.counter = @ + 1,
                                       !.declared = (type :> [name |-> name, body |-> refused]) @@ @]
       IN Declared(type, name, checkForObject(type, named, 0))

checkFor(type, generation, depth) ==
  LET kind == Kind(type) IN
  CASE depth > MAX_DEPTH \/ kind = "unresolved" -> Wrote(refused, generation)
    [] kind = "any" -> Wrote(Check("all", "", <<>>), generation)
    [] kind = "never" -> Wrote(Check("any", "", <<>>), generation)
    [] kind \in Literals \cup {"null", "undefined"} -> Wrote(Check("only", type, <<>>), generation)
    [] kind \in {"union", "intersection"} -> checkForParts(type, generation, depth)
    [] kind \in DOMAIN Primitives -> Wrote(Check("typeof", Primitives[kind], <<>>), generation)
    [] type \in generation.recursive -> checkThroughFunction(type, generation)
    [] type \in generation.open -> Wrote(refused, generation)
    [] OTHER -> checkForObject(type, generation, depth)

Generation(recursive, counter) ==
  [recursive |-> recursive, open |-> {}, declared |-> <<>>, counter |-> counter]

Test(wrote) ==
  LET declared == wrote.generation.declared
  IN [check |-> wrote.check, counter |-> wrote.generation.counter,
      functions |-> [n \in {declared[t].name : t \in DOMAIN declared} |->
                      declared[CHOOSE t \in DOMAIN declared : declared[t].name = n].body]]

\* The test of a type: its check, and the functions that are declared beside it.
buildStructuralTest(type) == Test(checkFor(type, Generation(findRecursive(type), 0), 0))

-----------------------------------------------------------------------------
(* What a check answers of a value when it runs: yes, no, or that it throws *)
(* because it calls a function nothing declares.                            *)

IsLiteral(value, type) ==
  LET d == definition[type] IN
  CASE d.kind \in {"null", "undefined"} -> value.kind = d.kind
    [] d.kind = "stringLiteral" -> value.kind = "string" /\ value.text = d.text
    [] d.kind = "numberLiteral" -> value.kind = "number" /\ value.text = d.text
    [] d.kind = "booleanLiteral" -> value.kind = "boolean" /\ value.text = d.text

Settled(answer, answers) ==
  IF \E i \in DOMAIN answers : answers[i] # answer
  THEN answers[CHOOSE i \in DOMAIN answers :
                 answers[i] # answer /\ \A j \in 1 .. i - 1 : answers[j] = answer]
  ELSE answer

RECURSIVE Answer(_, _, _)

Answer(check, value, functions) ==
  LET Says(condition) == IF condition THEN "yes" ELSE "no"
      On(i, part) == Answer(check.checks[i], part, functions)
      Every(i) == Field(value, check.names[i])
  IN CASE check.test = "only" -> Says(IsLiteral(value, check.text))
       [] check.test = "typeof" -> Says(value.kind = check.text)
       [] check.test = "instanceof" -> Says(value.kind = "object" /\ value.text = check.text)
       [] check.test = "any" -> Settled("no", [i \in DOMAIN check.checks |-> On(i, value)])
       [] check.test = "all" -> Settled("yes", [i \in DOMAIN check.checks |-> On(i, value)])
       [] check.test = "every" ->
            IF value.kind # "array" THEN "no"
            ELSE Settled("yes", [i \in DOMAIN value.parts |-> On(1, value.parts[i])])
       [] check.test = "tuple" ->
            IF value.kind # "array" \/ Len(value.parts) # Len(check.checks) THEN "no"
            ELSE Settled("yes", [i \in DOMAIN check.checks |-> On(i, value.parts[i])])
       [] check.test = "object" ->
            IF value.kind \notin {"array", "object"} THEN "no"
            ELSE Settled("yes", [i \in DOMAIN check.checks |->
                   IF check.optional[i] /\ Every(i).kind = "undefined" THEN "yes" ELSE On(i, Every(i))])
       [] check.test = "call" ->
            IF check.text \in DOMAIN functions THEN Answer(functions[check.text], value, functions)
            ELSE "throws"
=============================================================================

------------------------------ MODULE MCCompiler ------------------------------
(***************************************************************************)
(* The compiler plugins on small inputs, a part of them at a time: the     *)
(* flow walk over programs of four holes, filled one by one; what is       *)
(* written from the types of a small world, over values that follow their  *)
(* definitions, rightly and wrongly; the constants of files of three       *)
(* declarations; and the program kept alive while a few files are edited   *)
(* and handed over.                                                        *)
(***************************************************************************)
EXTENDS FlowWalk, TLC

CONSTANTS
  LookedAt,                          \* the parts: "flow", "types", "constants", "host"
  Shapes,                            \* the shapes of code that are filled in
  MAX_DEPTH, MAX_EXPLAINED, MAX_DESCRIBED, Depth,  \* of types, explanations, paths and values
  unwritten, MaxSteps                \* of the host

VARIABLES
  part,              \* the part looked at
  subject, given,    \* a shape and what fills its holes, a type and a value, or a file
  output, answers,   \* what was made of it, and what that answers when it runs
  disk, overlays, versions, rootNames, program, builds, last, edited, ahead, steps

hostVars == <<disk, overlays, versions, rootNames, program, builds, last, edited, ahead, steps>>

-----------------------------------------------------------------------------
(* Programs.                                                               *)

Size == 4

\* Something done with the owner a, or with the borrow of it that h holds.
Fillings == {"use", "useBorrow", "move", "borrow", "lend", "renew"}

Filled(filling, at) ==
  CASE filling = "use" -> Read("a", at)
    [] filling = "useBorrow" -> Read("h", at)
    [] filling = "move" -> Call("move", <<Read("a", at)>>)
    [] filling = "borrow" -> Assign("h", Call("borrow", <<Read("a", at)>>))
    [] filling = "lend" -> Assign("h", Call("borrowMutable", <<Read("a", at)>>))
    [] filling = "renew" -> Assign("a", Nothing)

Maybe(code) == If(Nothing, code, Nothing)
Break == Jump("break", none)
Continue == Jump("continue", none)

Named(filling, at) ==
  <<Read(IF filling = "useBorrow" THEN "h" ELSE "a", at)>>

Program(form, filling) ==
  LET H(i) == Filled(filling[i], i)
      One == H(1)
      Two == H(2)
      Three == H(3)
      Four == H(4)
  IN CASE form = "straight" -> Block(<<One, Two, Three, Four>>)
       [] form = "if" -> Block(<<One, If(Nothing, Two, Three), Four>>)
       [] form = "logical" -> Block(<<One, And(Two, Three), Four>>)
       [] form = "conditional" -> Block(<<One, Conditional(Nothing, Two, Three), Four>>)
       [] form = "while" -> Block(<<One, While(Nothing, Block(<<Two, Three>>)), Four>>)
       [] form = "test" -> Block(<<One, While(Two, Three), Four>>)
       [] form = "branches" ->
            Block(<<While(Nothing, Block(<<Maybe(One), Maybe(Two), Maybe(Three)>>)), Four>>)
       [] form = "nested" ->
            Block(<<While(Nothing, Block(<<One, While(Nothing, Two), Three>>)), Four>>)
       [] form = "for" ->
            Block(<<For(One, Nothing, Two, Block(<<Maybe(Continue), Three>>)), Four>>)
       [] form = "break" ->
            Block(<<One, While(Nothing, Block(<<Two, Maybe(Break), Three>>)), Four>>)
       [] form = "forOf" -> Block(<<One, ForOf("h", Two, Three), Four>>)
       [] form = "do" -> Block(<<One, Do(Block(<<Two, Three>>), Nothing), Four>>)
       [] form = "switch" ->
            Block(<<Switch(One, <<Clause(FALSE, Nothing, Two),
                                  Clause(FALSE, Nothing, Block(<<Three, Break>>)),
                                  Clause(TRUE, Nothing, Four)>>), Read("a", 5), Read("h", 6)>>)
       [] form = "cases" ->
            Block(<<One, Switch(Nothing, <<Clause(FALSE, Nothing, Block(<<Two, Break>>)),
                                           Clause(FALSE, Nothing, Three)>>), Four>>)
       [] form = "return" ->
            Block(<<One, Maybe(Block(<<Two, Jump("return", none), Three>>)), Four>>)
       [] form = "try" -> Block(<<Try(Block(<<One, Two>>), TRUE, Three, Nothing), Four>>)
       [] form = "finally" -> Block(<<Try(One, TRUE, Two, Three), Four>>)
       [] form = "function" ->
            Block(<<One, Function(Named(filling[2], 2), Block(<<Two, Three>>)), Four>>)
       [] form = "thrown" -> Block(<<One, Try(Block(<<Two, Jump("throw", none)>>), TRUE, Three, Nothing), Four>>)
       [] form = "returned" ->
            Block(<<One, Try(Block(<<Two, Jump("return", none)>>), FALSE, Nothing, Three), Four>>)
       [] form = "labelled" ->
            Block(<<One, Labelled("L", While(Nothing,
                    Block(<<While(Nothing, Block(<<Two, Jump("break", "L")>>)), Three>>))), Four>>)

-----------------------------------------------------------------------------
(* Types and values.                                                       *)

D(kind, text, names, optional, parts) ==
  [kind |-> kind, text |-> text, names |-> names, optional |-> optional, parts |-> parts]
Leaf(kind, text) == D(kind, text, <<>>, <<>>, <<>>)
Of(kind, parts) == D(kind, "", [i \in DOMAIN parts |-> ToString(i)], [i \in DOMAIN parts |-> FALSE], parts)
Shape(names, optional, parts) == D("object", "", names, optional, parts)

definitionOf ==
  [any |-> Leaf("any", ""), never |-> Leaf("never", ""), null |-> Leaf("null", ""),
   undefined |-> Leaf("undefined", ""), string |-> Leaf("string", ""), number |-> Leaf("number", ""),
   dark |-> Leaf("stringLiteral", "dark"), light |-> Leaf("stringLiteral", "light"),
   true |-> Leaf("booleanLiteral", "true"), false |-> Leaf("booleanLiteral", "false"),
   boolean |-> D("union", "boolean", <<"1", "2">>, <<FALSE, FALSE>>, <<"true", "false">>),
   theme |-> Of("union", <<"dark", "light">>),
   maybe |-> Of("union", <<"undefined", "string">>),
   strings |-> Of("array", <<"string">>),
   pair |-> Of("tuple", <<"string", "number">>),
   rest |-> D("tuple", "variable", <<"1">>, <<FALSE>>, <<"string">>),
   function |-> Leaf("function", ""),
   date |-> D("global", "Date", <<"getTime", "@symbol">>, <<FALSE, FALSE>>, <<"function", "function">>),
   order |-> D("class", "Order", <<"id">>, <<FALSE>>, <<"number">>),
   erased |-> D("class", "Erased", <<"id">>, <<FALSE>>, <<"number">>),
   unresolved |-> Leaf("unresolved", ""),
   indexed |-> D("indexed", "", <<"id">>, <<FALSE>>, <<"number">>),
   empty |-> Shape(<<>>, <<>>, <<>>),
   keyed |-> Shape(<<"@symbol", "id">>, <<FALSE, FALSE>>, <<"number", "number">>),
   account |-> Shape(<<"id", "tag">>, <<FALSE, TRUE>>, <<"number", "string">>),
   named |-> Shape(<<"tag", "on">>, <<FALSE, FALSE>>, <<"maybe", "theme">>),
   both |-> Of("intersection", <<"account", "named">>),
   placed |-> Shape(<<"owner", "at">>, <<FALSE, TRUE>>, <<"account", "date">>),
   listed |-> Shape(<<"all">>, <<FALSE>>, <<"accounts">>), accounts |-> Of("array", <<"account">>),
   holder |-> Shape(<<"held">>, <<FALSE>>, <<"order">>),
   open |-> Shape(<<"held">>, <<FALSE>>, <<"unresolved">>),
   node |-> Shape(<<"next">>, <<TRUE>>, <<"maybeNode">>), maybeNode |-> Of("union", <<"undefined", "node">>),
   tree |-> Shape(<<"below">>, <<FALSE>>, <<"trees">>), trees |-> Of("array", <<"tree">>),
   left |-> Shape(<<"right">>, <<FALSE>>, <<"maybeRight">>), maybeRight |-> Of("union", <<"null", "right">>),
   right |-> Shape(<<"left">>, <<FALSE>>, <<"left">>),
   list |-> Of("union", <<"null", "cell">>), cell |-> Shape(<<"rest">>, <<FALSE>>, <<"list">>),
   chain |-> Shape(<<"head">>, <<FALSE>>, <<"list">>), loop |-> Shape(<<"self">>, <<FALSE>>, <<"loop">>),
   team |-> Shape(<<"teams", "members">>, <<TRUE, TRUE>>, <<"teams", "members">>), teams |-> Of("array", <<"team">>),
   member |-> Shape(<<"below", "leads">>, <<TRUE, TRUE>>, <<"members", "teams">>), members |-> Of("array", <<"member">>),
   deep |-> Shape(<<"in">>, <<FALSE>>, <<"deeper">>), deeper |-> Shape(<<"in">>, <<FALSE>>, <<"placed">>),
   bigints |-> Leaf("bigintLiteral", "5"), route |-> Leaf("template", "/home")]

AllTypes == DOMAIN definitionOf
AllInScope == {"Order"}

T == INSTANCE Explanations WITH Types <- AllTypes, definition <- definitionOf, InScope <- AllInScope

V(kind, text) == [kind |-> kind, text |-> text, names |-> <<>>, parts |-> <<>>]
Object(class, names, parts) == [kind |-> "object", text |-> class, names |-> names, parts |-> parts]
PlainValues == {V("undefined", ""), V("null", ""), V("string", "dark"), V("number", "0"), V("object", ""), V("array", "")}
MoreValues ==
  PlainValues \cup {V("boolean", "true"), V("boolean", "false"), V("string", "light"), V("bigint", "5"), V("bigint", "6"),
               V("string", "/home"), V("function", ""), V("symbol", ""), V("object", "Date"), V("object", "Order"),
               Object("", <<"getTime">>, <<V("function", "")>>), Object("Date", <<"getTime">>, <<V("function", "")>>)}

RECURSIVE Candidates(_, _)
Candidates(t, depth) ==
  LET d == definitionOf[t]
      Of1(i) == IF depth = 0 THEN PlainValues ELSE Candidates(d.parts[i], depth - 1)
      Fields(parts) == {Object("", d.names, f) : f \in parts}
  IN CASE d.kind \in {"union", "intersection"} -> UNION {Candidates(d.parts[i], depth) : i \in DOMAIN d.parts}
       [] d.kind = "array" -> PlainValues \cup {[V("array", "") EXCEPT !.parts = s] :
                                             s \in {<<>>} \cup {<<a>> : a \in Of1(1)} \cup {<<a, b>> : a \in Of1(1), b \in {V("string", "dark"), V("object", "")}}}
       [] d.kind = "tuple" -> MoreValues \cup {[V("array", "") EXCEPT !.parts = s] :
                                 s \in {<<a>> : a \in PlainValues} \cup {<<a, b>> : a, b \in PlainValues} \cup {<<a, b, a>> : a, b \in PlainValues}}
       [] d.kind = "object" /\ Len(d.parts) = 1 -> PlainValues \cup Fields({<<a>> : a \in Of1(1)})
       [] d.kind = "object" /\ Len(d.parts) = 2 -> PlainValues \cup Fields({<<a, b>> : a \in Of1(1), b \in Of1(2)})
       [] OTHER -> MoreValues

-----------------------------------------------------------------------------
(* Declarations.                                                           *)

C == INSTANCE ConstantEvaluation

DeclarationsEach == 3

Declarations ==
  LET Reads == {<<>>} \cup {<<read>> : read \in C!Changing .. DeclarationsEach}
               \cup {<<i, j>> : i, j \in 1 .. DeclarationsEach}
  IN [kind : C!Kinds \ {"let"}, reads : Reads] \cup {[kind |-> "let", reads |-> <<>>]}

-----------------------------------------------------------------------------
(* Files.                                                                  *)

Owned(functionName, callForm, module, package) ==
  [functionName |-> functionName, callForm |-> callForm, module |-> module, package |-> package]
ours == {Owned("is", "function", "utils/is", "@fulcro/reflect"),
         Owned("typeOf", "function", "utils/typeOf", unwritten), Owned("where", "method", "sequence", unwritten)}

is == Owned("is", "function", "utils/is", "@fulcro/reflect")
otherIs == Owned("is", "function", "lodash/is", "lodash")
typeOf == Owned("typeOf", "function", "utils/typeOf", "any")
where == Owned("where", "method", "sequence", "any")
otherWhere == Owned("where", "function", "sequence", "any")

Code(kind, at, children) == [kind |-> kind, at |-> at, children |-> children]
Calls(named, answer, at, children) ==
  [kind |-> "call", named |-> named, answer |-> answer, at |-> at, children |-> children]

Texts == {"plain", "named", "calls", "escapes", "wrong"}
Tree(text) ==
  Code("file", 0,
    CASE text = "plain" -> <<>>
      [] text = "named" -> <<Calls(otherIs, "refuse", 1, <<>>), Calls(otherWhere, "replace", 2, <<>>)>>
      [] text = "calls" -> <<Calls(is, "replace", 1, <<Calls(is, "refuse", 2, <<>>)>>)>>
      [] text = "escapes" ->
           <<Code("block", 0, <<Code("escaping", 1, <<Calls(where, "leave", 2, <<>>)>>)>>)>>
      [] text = "wrong" ->
           <<Calls(typeOf, "describe", 1, <<Calls(is, "refuse", 2, <<Calls(is, "refuse", 3, <<>>)>>)>>),
             Code("misuse", 4, <<>>)>>)

\* The nodes in it; and a declaration that escapes becomes two.
RECURSIVE Within(_)
Within(node) ==
  {node} \cup UNION {Within(node.children[i]) : i \in DOMAIN node.children}
  \cup (IF node.kind # "escaping" THEN {}
        ELSE {Code("frame", node.at, <<>>), Code("kept", node.at, node.children)})
AllNodes == UNION {Within(Tree(text)) : text \in Texts}

Refusals(text) == IF text = "wrong" THEN {2, 3, 4} ELSE {}
Mentions(text) == text # "plain"

\* Two files that the tsconfig lists, one that the first imports, and one left out.
AllFiles == {"f", "g", "imported", "js"}
ListedFiles == {"f", "g"}
IgnoredFiles == {"js"}
Imports == [file \in AllFiles |-> IF file = "f" THEN {"imported"} ELSE {}]
MCDisks ==
  {d \in [AllFiles -> {"plain", "calls", "wrong"}] : d["js"] = "plain" /\ d["imported"] # "wrong"}
  \cup {[f |-> "calls", g |-> "named", imported |-> unwritten, js |-> "plain"]}
WaysToSpell == {"compiler", "native"}

H == INSTANCE ProgramHost WITH
  rewriters <- ours, Files <- AllFiles, Ignored <- IgnoredFiles, Listed <- ListedFiles,
  imports <- Imports, Contents <- Texts, treeOf <- Tree, Nodes <- AllNodes, refusals <- Refusals,
  mentions <- Mentions, Spellings <- WaysToSpell, Disks <- MCDisks

ASSUME CompilerAssumption == H!HostAssumption

-----------------------------------------------------------------------------

\* What is not looked at stays as it is.
MCInit ==
  /\ part \in LookedAt
  /\ given = <<>> /\ output = unwritten /\ answers = unwritten
  /\ subject \in CASE part = "flow" -> Shapes [] part = "types" -> AllTypes [] OTHER -> {part}
  /\ IF part = "host" THEN H!Init
     ELSE /\ disk = <<>> /\ overlays = <<>> /\ versions = <<>> /\ rootNames = {} /\ program = unwritten
          /\ builds = 0 /\ last = unwritten /\ edited = FALSE /\ ahead = FALSE /\ steps = 0

Fill ==
  /\ part = "flow" /\ Len(given) < Size
  /\ \E filling \in Fillings : given' = Append(given, filling)
  /\ UNCHANGED <<part, subject, output, answers, hostVars>>

DeclareNext ==
  /\ part = "constants" /\ Len(given) < DeclarationsEach
  /\ \E declaration \in Declarations : given' = Append(given, declaration)
  /\ UNCHANGED <<part, subject, output, answers, hostVars>>

\* What is complete is compiled: a file is walked, the calls of a type are
\* written, a file with constants is rewritten.
Compile ==
  /\ output = unwritten
  /\ \/ /\ part = "flow" /\ Len(given) = Size
        /\ output' = walkFlow(Program(subject, given))
     \/ part = "types" /\ output' = T!Written(subject)
     \/ /\ part = "constants" /\ Len(given) = DeclarationsEach
        /\ output' = C!rewriteFile(given)
  /\ UNCHANGED <<part, subject, given, answers, hostVars>>

\* What was written of a type runs, on a value.
Ask ==
  /\ part = "types" /\ output # unwritten /\ given = <<>>
  /\ \E value \in Candidates(subject, Depth) \cup MoreValues :
       given' = <<value>> /\ answers' = T!Answers(output, value)
  /\ UNCHANGED <<part, subject, output, hostVars>>

Host == part = "host" /\ H!Next /\ UNCHANGED <<part, subject, given, output, answers>>

MCNext == Fill \/ DeclareNext \/ Compile \/ Ask \/ Host

MCSpec == MCInit /\ [][MCNext]_<<part, subject, given, output, answers, hostVars>>

-----------------------------------------------------------------------------
(* The flow walk.                                                          *)

Walked == part = "flow" /\ output # unwritten

Uses(filling) == \E i \in DOMAIN given : given[i] = filling

\* What the walk does not follow: the test of a loop run last, and a throw
\* from the middle of a try, where a value is given in them.
GivesValue(filling) == filling \in {"borrow", "lend", "renew"}
NotFollowed ==
  \/ subject = "test" /\ GivesValue(given[3])
  \/ subject = "try" /\ GivesValue(given[2])
  \/ subject \in {"thrown", "returned", "labelled"}

\* What it takes for more than it is: a loop that runs at least once, a test
\* that gives a value, and an owner renewed while what it lent is about.
TakenForMore ==
  \/ subject \in {"do", "labelled"}
  \/ subject = "test" /\ GivesValue(given[2])
  \/ Uses("renew") /\ (Uses("borrow") \/ Uses("lend"))

\* What some path misuses, through branches, loops, jumps and functions, is
\* reported (packages/memory/src/transformer/flow).
MissesNothing ==
  Walked /\ ~NotFollowed => Misuses(Program(subject, given)) \subseteq output

\* What is reported is misused on some path.
RefusesNothingValid ==
  Walked /\ ~TakenForMore => output \subseteq Misuses(Program(subject, given))

-----------------------------------------------------------------------------
(* Types.                                                                  *)

Asked == part = "types" /\ given # <<>>

RefusedTypes == T!RefusedTypes

\* A test says yes to the values of its type and no to all others, never calls a
\* function that is not declared, and is written of every type but those that are
\* refused (packages/transform-core/src/structural): types with a part that no check
\* can be written of, types of more levels than MAX_DEPTH (index.ts:94, :406), and
\* circles of types entered at a union (:444 comes before :489).  docs/sequences.md:249-250 and
\* docs/reflect.md:509-511 say "nested to any depth" and "types that contain
\* themselves" of all.  Where the docs list literals as covered and call any partial
\* check refused (docs/sequences.md:249, :303-304), a bigint literal and a template
\* literal go by their typeof, and so does any literal that ofType or cast is given
\* itself (collections/src/transformer).
IsExact == Asked => T!IsExact(subject, given[1], answers, subject \in RefusedTypes)

\* What as() refuses is explained by a path at which the value is not of the type
\* expected there, what it accepts is not (structural/explain, reflect: as).
ExplainsWhatFails ==
  Asked /\ ~T!MadeOfKind(subject, {"bigintLiteral", "template", "global"}) /\ ~T!IsCyclic(subject)
    => T!ExplainsWhatFails(subject, given[1], answers.as)

HasDefault ==
  /\ ~T!MadeOfKind(subject, {"intersection", "class", "indexed", "never", "unresolved", "template"})
  /\ ~T!TooDeep(subject) /\ ~T!NeedsItself(subject)

\* What is told of a type at run time is true of its values: the default of it is
\* one of them, and every path of it leads, in each of them, to what the path says
\* is there (packages/reflect: defaultOf, pathsOf, keysOf).  Not so, against
\* docs/reflect.md:170 ("the result is always a valid T"), the default of a type that
\* has what HasDefault lists: below MAX_DEPTH and where a required property closes a
\* circle null is put (defaultOf/index.ts:68), whatever the type there.
ReportsAreTrue ==
  part = "types" /\ output # unwritten =>
    /\ HasDefault => T!Is(output.default, subject)
    /\ T!KeysBeginPaths(subject, output.keys, output.paths)
    /\ Asked => T!PathsLeadSomewhere(subject, given[1], output.paths)

-----------------------------------------------------------------------------
(* Constants.                                                              *)

\* A file computes the same with its constants computed while it is compiled,
\* exactly the ones that can change are refused, and none is computed twice
\* (packages/reflect/src/transformer/constantOf).
ComputesTheSame ==
  part = "constants" /\ output # unwritten => C!ComputesTheSame(given, output)

-----------------------------------------------------------------------------
(* The host.                                                               *)

\* What is transformed is what was handed over, unless the file was as it is on
\* the disk and the disk was edited since (packages/transform-core/src/program);
\* every refusal in a file is in its one report, and nothing else is
\* (packages/transform-core/src/transformer); and a first run over files as they
\* are on the disk builds the program once, and once more for each file the
\* tsconfig does not list.
TransformsWhatItIsGiven ==
  part = "host" => H!TransformsWhatItIsGiven /\ H!ReportsEveryRefusal /\ H!ColdRunBuildsOnce

\* What is transformed is the current content of the file.
TransformsTheCurrentContent == part = "host" => H!TransformsTheCurrentContent
=============================================================================

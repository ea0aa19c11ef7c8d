------------------------------ MODULE FlowWalk ------------------------------
(***************************************************************************)
(* The walk of a function's code in the order it runs, and the ownership   *)
(* rules it carries along (packages/memory/src/transformer: flow,          *)
(* ownership).  Code is a tree of records; an identifier that is read has  *)
(* a place, and what is reported is a set of places.  A path is the facts  *)
(* on it and whether it is reachable; a walk is a path, the paths that     *)
(* left by a break or a continue, and what was reported so far.            *)
(***************************************************************************)
EXTENDS Integers, SequencesExt, FiniteSetsExt

CONSTANT Rounds  \* bound: how often a path goes round a loop

none == "none"

-----------------------------------------------------------------------------
(* Facts: the names that were moved, and of each name that holds a borrow   *)
(* the loan: whose, of which kind, and what ended it.                       *)

initial == [moved |-> {}, loans |-> <<>>]

Loan(owner, kind, ended) == [owner |-> owner, kind |-> kind, ended |-> ended]

\* The first loan of a name stays, ended if either is.
join(first, second) ==
  LET Known(name) == name \in DOMAIN first.loans
      Joined(name) ==
        IF ~Known(name) THEN second.loans[name]
        ELSE IF name \notin DOMAIN second.loans \/ first.loans[name].ended # none
        THEN first.loans[name]
        ELSE [first.loans[name] EXCEPT !.ended = second.loans[name].ended]
  IN [moved |-> first.moved \cup second.moved,
      loans |-> [name \in DOMAIN first.loans \cup DOMAIN second.loans |-> Joined(name)]]

\* Mutant: whatever an iteration changed, it is not walked again.
TakenForSame(first, second) == TRUE

\* As many of each are the same names.
same(first, second) == first = second

isMisused(name, facts) ==
  \/ name \in facts.moved
  \/ name \in DOMAIN facts.loans /\ facts.loans[name].ended # none

\* A call that moves a name or lends it out.
call(operation, owner, facts) ==
  LET Ends(loan) == loan.owner = owner /\ loan.ended = none
                      /\ (operation # "borrow" \/ loan.kind = "borrowMutable")
  IN IF operation = "other" \/ owner = none THEN facts
     ELSE [moved |-> facts.moved \cup (IF operation = "move" THEN {owner} ELSE {}),
           loans |-> [name \in DOMAIN facts.loans |->
                       IF Ends(facts.loans[name]) THEN [facts.loans[name] EXCEPT !.ended = operation]
                       ELSE facts.loans[name]]]

IsBorrow(value) == value.kind = "call" /\ value.operation \in {"borrow", "borrowMutable"}

\* A name is given a value; one that was never moved or lent is as good as new.
bind(name, value, facts) ==
  [moved |-> facts.moved \ {name},
   loans |-> LET others == [n \in DOMAIN facts.loans \ {name} |-> facts.loans[n]] IN
             IF IsBorrow(value) /\ value.owner # none
             THEN (name :> Loan(value.owner, value.operation, none)) @@ others ELSE others]

-----------------------------------------------------------------------------
(* Code.                                                                   *)

Nothing == [kind |-> "nothing"]
Read(name, at) == [kind |-> "read", name |-> name, at |-> at]
Call(operation, arguments) ==
  [kind |-> "call", operation |-> operation, arguments |-> arguments,
   owner |-> IF arguments # <<>> /\ Head(arguments).kind = "read" THEN Head(arguments).name ELSE none]
Assign(name, value) == [kind |-> "assign", name |-> name, value |-> value]
And(left, right) == [kind |-> "and", left |-> left, right |-> right]
Conditional(condition, whenTrue, whenFalse) ==
  [kind |-> "conditional", condition |-> condition, whenTrue |-> whenTrue, whenFalse |-> whenFalse]
Function(reads, body) == [kind |-> "function", reads |-> reads, body |-> body]

Block(statements) == [kind |-> "block", statements |-> statements]
If(condition, then, else) == [kind |-> "if", condition |-> condition, then |-> then, else |-> else]
Jump(kind, label) == [kind |-> kind, label |-> label]
While(condition, body) == [kind |-> "while", condition |-> condition, body |-> body]
Do(body, condition) == [kind |-> "do", condition |-> condition, body |-> body]
For(initializer, condition, incrementor, body) ==
  [kind |-> "for", initializer |-> initializer, condition |-> condition,
   incrementor |-> incrementor, body |-> body]
ForOf(name, expression, body) == [kind |-> "forOf", name |-> name, expression |-> expression, body |-> body]
Switch(expression, clauses) == [kind |-> "switch", expression |-> expression, clauses |-> clauses]
Clause(isDefault, test, body) == [isDefault |-> isDefault, test |-> test, body |-> body]
Try(tried, hasCatch, caught, finally) ==
  [kind |-> "try", tried |-> tried, hasCatch |-> hasCatch, caught |-> caught, finally |-> finally]
Labelled(label, body) == [kind |-> "labelled", label |-> label, body |-> body]

Jumps == {"break", "continue"}

-----------------------------------------------------------------------------
(* Paths and walks.                                                        *)

Path(facts, reachable) == [facts |-> facts, reachable |-> reachable]
start == Path(initial, TRUE)
unreachable == Path(initial, FALSE)

merge(first, second) ==
  IF ~first.reachable THEN second
  ELSE IF ~second.reachable THEN first
  ELSE Path(join(first.facts, second.facts), TRUE)

mergeAll(first, rest) == FoldLeft(merge, first, rest)

Walk(path, reported) ==
  [path |-> path, breaks |-> <<>>, continues |-> <<>>, reported |-> reported]

\* What a walk goes on with, in place of its path.
On(walk, path) == [walk EXCEPT !.path = path]

\* A rule is applied where the path is reachable only.
Applied(walk, facts) == IF walk.path.reachable THEN On(walk, Path(facts, TRUE)) ELSE walk

Noted(name, at, walk) ==
  IF walk.path.reachable /\ isMisused(name, walk.path.facts)
  THEN [walk EXCEPT !.reported = @ \cup {at}] ELSE walk

\* A function created here closes over what it names.
capture(reads, walk) == FoldLeft(LAMBDA w, r : Noted(r.name, r.at, w), walk, reads)

\* Once from where it is entered and, if that changed anything, once more from
\* what the first iteration leaves.
loop(entry, Iterate(_)) ==
  LET Own(walk, path) == [walk EXCEPT !.path = path, !.breaks = <<>>, !.continues = <<>>]
      first == Iterate(Own(entry, entry.path))
      again == mergeAll(entry.path, <<first.path>> \o first.continues)
      second == Iterate(Own(first, again))
      Left(walk, path) == [walk EXCEPT !.path = path, !.breaks = entry.breaks,
                                       !.continues = entry.continues]
  IN IF same(again.facts, entry.path.facts) THEN Left(first, mergeAll(again, first.breaks))
     ELSE Left(second, mergeAll(again, <<second.path>> \o second.continues \o first.breaks
                                         \o second.breaks))

-----------------------------------------------------------------------------

RECURSIVE expression(_, _), statement(_, _)

\* A function's own body is walked from the initial facts, whenever that is:
\* nothing but its reports comes of it.
created(e, walk) ==
  LET captured == capture(e.reads, walk) IN
  [captured EXCEPT !.reported = @ \cup statement(e.body, Walk(start, {})).reported]

binary(e, walk) ==
  IF e.kind = "and"
  THEN LET left == expression(e.left, walk)
           right == expression(e.right, left)
       IN On(right, merge(left.path, right.path))
  ELSE LET after == expression(e.value, walk)
       IN Applied(after, bind(e.name, e.value, after.path.facts))

expression(e, walk) ==
  CASE e.kind = "nothing" -> walk
    [] e.kind = "read" -> Noted(e.name, e.at, walk)
    [] e.kind = "call" ->
         LET after == FoldLeft(LAMBDA w, argument : expression(argument, w), walk, e.arguments)
         IN Applied(after, call(e.operation, e.owner, after.path.facts))
    [] e.kind \in {"and", "assign"} -> binary(e, walk)
    [] e.kind = "conditional" ->
         LET condition == expression(e.condition, walk)
             whenTrue == expression(e.whenTrue, condition)
             whenFalse == expression(e.whenFalse, On(whenTrue, condition.path))
         IN On(whenFalse, merge(whenTrue.path, whenFalse.path))
    [] e.kind = "function" -> created(e, walk)

IfStatement(s, walk) ==
  LET condition == expression(s.condition, walk)
      whenTrue == statement(s.then, condition)
      whenFalse == statement(s.else, On(whenTrue, condition.path))
  IN On(whenFalse, merge(whenTrue.path, whenFalse.path))

\* Mutant: the statement after a jump is reached from it.
GoesOn(s, walk) ==
  CASE s.kind = "break" -> [walk EXCEPT !.breaks = Append(@, walk.path)]
    [] s.kind = "continue" -> [walk EXCEPT !.continues = Append(@, walk.path)]
    [] OTHER -> walk

\* A label does not say which loop is left.
JumpStatement(s, walk) ==
  LET gone == On(walk, unreachable) IN
  CASE s.kind = "break" -> [gone EXCEPT !.breaks = Append(@, walk.path)]
    [] s.kind = "continue" -> [gone EXCEPT !.continues = Append(@, walk.path)]
    [] s.kind \in {"return", "throw"} -> gone

ForStatement(s, walk) ==
  loop(expression(s.initializer, walk), LAMBDA each :
    LET ran == statement(s.body, expression(s.condition, each))
    IN expression(s.incrementor, [ran EXCEPT !.path = mergeAll(@, ran.continues), !.continues = <<>>]))

ForOfStatement(s, walk) ==
  loop(expression(s.expression, walk), LAMBDA each :
    statement(s.body, Applied(each, bind(s.name, Nothing, each.path.facts))))

SwitchStatement(s, walk) ==
  LET tested == expression(s.expression, walk)
      Enter(falling, clause) ==
        statement(clause.body, expression(clause.test,
                                          On(falling, merge(tested.path, falling.path))))
      fallen == FoldLeft(Enter, [On(tested, unreachable) EXCEPT !.breaks = <<>>], s.clauses)
      hasDefault == \E i \in DOMAIN s.clauses : s.clauses[i].isDefault
  IN [fallen EXCEPT !.path = mergeAll(@, fallen.breaks \o
                                      <<IF hasDefault THEN unreachable ELSE tested.path>>),
                    !.breaks = walk.breaks]

TryStatement(s, walk) ==
  LET tried == statement(s.tried, walk)
      caught == statement(s.caught, On(tried, merge(walk.path, tried.path)))
  IN statement(s.finally, IF s.hasCatch THEN On(caught, merge(tried.path, caught.path)) ELSE tried)

statement(s, walk) ==
  CASE s.kind = "block" -> FoldLeft(LAMBDA w, each : statement(each, w), walk, s.statements)
    [] s.kind = "if" -> IfStatement(s, walk)
    [] s.kind \in Jumps \cup {"return", "throw"} -> JumpStatement(s, walk)
    [] s.kind = "while" -> loop(walk, LAMBDA each : statement(s.body, expression(s.condition, each)))
    [] s.kind = "do" -> loop(walk, LAMBDA each : expression(s.condition, statement(s.body, each)))
    [] s.kind = "for" -> ForStatement(s, walk)
    [] s.kind = "forOf" -> ForOfStatement(s, walk)
    [] s.kind = "switch" -> SwitchStatement(s, walk)
    [] s.kind = "try" -> TryStatement(s, walk)
    [] s.kind = "labelled" -> statement(s.body, walk)
    [] OTHER -> expression(s, walk)

walkFlow(file) == statement(file, Walk(start, {})).reported

-----------------------------------------------------------------------------
(* What the walk stands for: every path the code can take, each with its   *)
(* own facts.  Nothing is joined: code that is reached with a set of facts *)
(* ends with a set of facts, and a place is misused when some path misuses *)
(* it.  Of a loop, the paths that go round at most Rounds times are        *)
(* followed.                                                               *)

\* The paths that get to the end of code, those that leave it with how they do,
\* the facts at every point on the way, and the places where something is misused.
Ends(here, left, passed, misused) ==
  [here |-> here, left |-> left, passed |-> passed, misused |-> misused]

At(paths) == Ends(paths, {}, paths, {})

Either(one, other) ==
  Ends(one.here \cup other.here, one.left \cup other.left,
       one.passed \cup other.passed, one.misused \cup other.misused)

Changed(run, Change(_)) ==
  LET here == {Change(facts) : facts \in run.here}
  IN [run EXCEPT !.here = here, !.passed = @ \cup here]

Misusing(name, at, run) ==
  IF \E facts \in run.here : isMisused(name, facts)
  THEN [run EXCEPT !.misused = @ \cup {at}] ELSE run

\* A name that is given a value leaves what was borrowed from its old value alone.
Given(name, value, facts) ==
  LET after == bind(name, value, facts) IN
  [after EXCEPT !.loans = [n \in DOMAIN @ |->
    IF @[n].owner = name /\ n \in DOMAIN facts.loans /\ @[n] = facts.loans[n]
    THEN [@[n] EXCEPT !.owner = none] ELSE @[n]]]

Leaves(run, how, label) ==
  [run EXCEPT !.here = {},
              !.left = @ \cup {[how |-> how, label |-> label, facts |-> facts] : facts \in run.here}]

\* What leaves in this way with this label goes on here.
Stops(run, how, label) ==
  LET stopped == {l \in run.left : l.how = how /\ l.label = label}
  IN [run EXCEPT !.here = @ \cup {l.facts : l \in stopped}, !.left = @ \ stopped]

RECURSIVE Runs(_, _)

After(run, code) ==
  LET next == Runs(code, run.here)
  IN Either([run EXCEPT !.here = {}], next)

\* Test, body, what follows the body, and so on.
Around(run, test, body, next) ==
  LET Round[k \in 0 .. Rounds] ==
        LET reached == IF k = 0 THEN run ELSE
              After(Stops(After([Round[k - 1] EXCEPT !.left = {}], body), "continue", none), next)
        IN After(reached, test)
      ran == FoldSet(LAMBDA k, all : Either(Round[k], all), Round[0], 1 .. Rounds)
  IN Stops([ran EXCEPT !.left = UNION {Round[k].left : k \in 0 .. Rounds}], "break", none)

Doing(run, body, test) ==
  LET Round[k \in 1 .. Rounds] ==
        After(Stops(After(IF k = 1 THEN run ELSE Round[k - 1], body), "continue", none), test)
  IN Stops(FoldSet(LAMBDA k, all : Either(Round[k], all), Round[1], 2 .. Rounds), "break", none)

Switching(run, code) ==
  LET tested == After(run, code.expression)
      Enter(falling, clause) ==
        After([falling EXCEPT !.here = @ \cup tested.here], clause.body)
      fallen == FoldLeft(Enter, [tested EXCEPT !.here = {}], code.clauses)
      noneFits == IF \E i \in DOMAIN code.clauses : code.clauses[i].isDefault THEN {} ELSE tested.here
  IN Stops([fallen EXCEPT !.here = @ \cup noneFits], "break", none)

\* Anything in the try may throw; whatever way is taken out of it, the finally runs.
Trying(code, paths) ==
  LET tried == Runs(code.tried, paths)
      thrown == tried.passed \cup {l.facts : l \in {m \in tried.left : m.how = "throw"}}
      handled ==
        IF code.hasCatch
        THEN Either([tried EXCEPT !.left = {l \in @ : l.how # "throw"}], Runs(code.caught, thrown))
        ELSE Either(tried, Leaves([At(thrown) EXCEPT !.passed = {}], "throw", none))
      Finally(l) == Leaves(Runs(code.finally, {l.facts}), l.how, l.label)
      done == After([handled EXCEPT !.left = {}], code.finally)
  IN FoldSet(LAMBDA l, all : Either(Finally(l), all), done, handled.left)

Runs(code, paths) ==
  CASE code.kind = "nothing" -> At(paths)
    [] code.kind = "read" -> Misusing(code.name, code.at, At(paths))
    [] code.kind = "call" ->
         Changed(FoldLeft(After, At(paths), code.arguments),
                 LAMBDA facts : call(code.operation, code.owner, facts))
    [] code.kind = "assign" ->
         Changed(After(At(paths), code.value), LAMBDA facts : Given(code.name, code.value, facts))
    [] code.kind = "and" ->
         LET left == After(At(paths), code.left) IN Either(left, After(left, code.right))
    [] code.kind = "conditional" ->
         LET condition == After(At(paths), code.condition)
         IN Either(After(condition, code.whenTrue), After(condition, code.whenFalse))
    [] code.kind = "function" ->
         LET closed == FoldLeft(LAMBDA run, r : Misusing(r.name, r.at, run), At(paths), code.reads)
         IN [closed EXCEPT !.misused = @ \cup Runs(code.body, {initial}).misused]
    [] code.kind = "block" -> FoldLeft(After, At(paths), code.statements)
    [] code.kind = "if" ->
         LET condition == After(At(paths), code.condition)
         IN Either(After(condition, code.then), After(condition, code.else))
    [] code.kind \in {"return", "throw", "break", "continue"} -> Leaves(At(paths), code.kind, code.label)
    [] code.kind = "while" -> Around(At(paths), code.condition, code.body, Nothing)
    [] code.kind = "do" -> Doing(At(paths), code.body, code.condition)
    [] code.kind = "for" ->
         Around(After(At(paths), code.initializer), code.condition, code.body, code.incrementor)
    [] code.kind = "forOf" ->
         Around(After(At(paths), code.expression), Nothing,
                Block(<<Assign(code.name, Nothing), code.body>>), Nothing)
    [] code.kind = "switch" -> Switching(At(paths), code)
    [] code.kind = "try" -> Trying(code, paths)
    [] code.kind = "labelled" -> Stops(After(At(paths), code.body), "break", code.label)

\* Where some path misuses a name.
Misuses(file) == Runs(file, {initial}).misused
=============================================================================

-------------------------- MODULE ConstantEvaluation --------------------------
(***************************************************************************)
(* The evaluation of constantOf while compiling                            *)
(* (packages/reflect/src/transformer/constantOf): what the call reads is   *)
(* proved constant, assembled as a script, and run.  A file is the         *)
(* sequence of its declarations, each of a kind and with the names it      *)
(* reads, which are their numbers; everything read is used, and a function *)
(* is read by calling it.  A value is the set of the names it was computed *)
(* from.                                                                   *)
(***************************************************************************)
EXTENDS Integers, SequencesExt

BuiltIn == 0    \* a name like Math
Changing == -1  \* a name like Date
Own == -2       \* in a script, the name a function has in itself
Thrown == -3    \* in a value, that computing it threw

BUILT_INS == {BuiltIn}

Kinds == {"const", "arrow", "function", "constant", "let"}

\* What can be read only after its declaration ran, and what is called.
IsCalled(kind) == kind \in {"arrow", "function"}

-----------------------------------------------------------------------------
(* Running declarations, of which a scope holds those that have been.      *)

Closure(name, reads) == [name |-> name, called |-> TRUE, reads |-> reads, value |-> {}]
Constant(name, value) == [name |-> name, called |-> FALSE, reads |-> <<>>, value |-> value]

\* A function that is running is not called again: its recursion ends.
RECURSIVE Read(_, _, _)
Read(read, scope, running) ==
  IF read \in {BuiltIn, Changing} THEN {read}
  ELSE IF read = Own \/ read \in running THEN {}
  ELSE IF read \notin DOMAIN scope THEN {Thrown}
  ELSE IF ~scope[read].called THEN scope[read].value
  ELSE {scope[read].name}
       \cup UNION {Read(inner, scope, running \cup {read}) : inner \in ToSet(scope[read].reads)}

Compute(name, reads, scope) == {name} \cup UNION {Read(read, scope, {}) : read \in ToSet(reads)}

Threw(scope) == \E bound \in DOMAIN scope : Thrown \in scope[bound].value

-----------------------------------------------------------------------------
(* What is proved of one call.                                             *)

\* Mutant: what is read is declared after what reads it.
DeclaredFirst(script, declaration) == <<declaration>> \o script

\* A declaration follows those it reads.
Declared(script, declaration) == Append(script, declaration)

\* So far: the names bound, by their numbers; the script; what was proved last,
\* with its names replaced, and the binding found last; and of the program, the
\* outcomes, the calls being evaluated, those that were, and whether one waits
\* for itself.
Begin == [bindings |-> <<>>, script |-> <<>>, text |-> <<>>, binding |-> Own, failed |-> FALSE]
Program == Begin @@ [outcomes |-> <<>>, active |-> {}, evaluated |-> <<>>, endless |-> FALSE]

Fail(so) == [so EXCEPT !.failed = TRUE]
Bound(so, binding) == [so EXCEPT !.binding = binding]
Position(so, name) == {k \in DOMAIN so.bindings : so.bindings[k] = name}

\* Runs a script, and what computes the value.
run(script, name, text) ==
  LET Run1(scope, d) ==
        (d.binding :> IF d.kind = "literal" THEN Constant(d.name, d.value)
                      ELSE IF IsCalled(d.kind) THEN Closure(d.name, d.text)
                      ELSE Constant(d.name, Compute(d.name, d.text, scope))) @@ scope
      scope == FoldLeft(Run1, <<>>, script)
      value == Compute(name, text, scope)
  IN IF Threw(scope) \/ Thrown \in value THEN {Thrown} ELSE value

RECURSIVE bind(_, _, _, _), prove(_, _, _), evaluate(_, _, _)

\* The names read are bound in turn, as long as they can be.
prove(root, file, so) ==
  LET Bind(s, name) ==
        IF s.failed THEN s
        ELSE LET bound == bind(name, root, file, s) IN
             [bound EXCEPT !.text = Append(s.text, bound.binding)]
  IN FoldLeft(Bind, [so EXCEPT !.text = <<>>], file[root].reads)

\* What is declared of a name once it is proved.
Declare(so, k, name, kind, value) ==
  IF so.failed THEN so
  ELSE Bound([so EXCEPT !.script = Declared(@, [binding |-> k, name |-> name, kind |-> kind,
                                                text |-> so.text, value |-> value])], k)

\* A binding is reserved before its declaration is proved, so that what reads
\* itself through others finds it.
bind(name, root, file, so) ==
  LET k == Len(so.bindings) + 1
      reserved == [so EXCEPT !.bindings = Append(@, name)]
      After(evaluated) ==
        Declare(IF evaluated.outcomes[name] = {} THEN Fail(evaluated) ELSE evaluated,
                k, name, "literal", evaluated.outcomes[name])
  IN IF name \in BUILT_INS THEN Bound(so, name)
     ELSE IF name = Changing THEN Fail(so)
     ELSE IF file[name].kind = "function" /\ name = root THEN Bound(so, Own)
     ELSE IF Position(so, name) # {} THEN Bound(so, CHOOSE p \in Position(so, name) : TRUE)
     ELSE IF file[name].kind = "let" THEN Fail(reserved)
     ELSE IF file[name].kind = "constant" THEN After(evaluate(name, file, reserved))
     ELSE Declare(prove(name, file, reserved), k, name, file[name].kind, {})

\* Once per program: the value, nothing if it is refused.  A call that waits for
\* itself is evaluated until the stack overflows.
evaluate(call, file, so) ==
  LET Compute1(proved) ==
        LET value == run(proved.script, call, proved.text)
            outcome == IF proved.failed \/ Thrown \in value THEN {} ELSE value
        IN [so EXCEPT !.outcomes = (call :> outcome) @@ proved.outcomes,
                      !.evaluated = Append(proved.evaluated, call),
                      !.endless = proved.endless]
  IN IF call \in DOMAIN so.outcomes THEN so
     ELSE IF call \in so.active
     THEN [so EXCEPT !.outcomes = (call :> {}) @@ so.outcomes, !.endless = TRUE]
     ELSE Compute1(prove(call, file, [Begin @@ so EXCEPT !.active = @ \cup {call}]))

\* The calls of a file are rewritten in their order.
rewriteFile(file) ==
  FoldLeft(LAMBDA so, i : IF file[i].kind = "constant" THEN evaluate(i, file, so) ELSE so,
           Program, [i \in DOMAIN file |-> i])

-----------------------------------------------------------------------------

\* What the file computes when it runs as it is: the functions are there from
\* the start, the rest when it is reached.
Loaded(file) ==
  LET Functions == {i \in DOMAIN file : file[i].kind = "function"}
      Load(scope, i) ==
        IF i \in Functions THEN scope
        ELSE (i :> IF IsCalled(file[i].kind) THEN Closure(i, file[i].reads)
                   ELSE Constant(i, Compute(i, file[i].reads, scope))) @@ scope
  IN FoldLeft(Load, [i \in Functions |-> Closure(i, file[i].reads)], [i \in DOMAIN file |-> i])

\* What is read, however far.
RECURSIVE Reached(_, _)
Reached(names, file) ==
  LET more == names \cup UNION {ToSet(file[name].reads) : name \in names \cap DOMAIN file} IN
  IF more = names THEN names ELSE Reached(more, file)

CanChange(call, file) ==
  \E name \in Reached({call}, file) :
    name = Changing \/ (name \in DOMAIN file /\ file[name].kind = "let")

\* A file that runs computes the same once its constants are computed while it is
\* compiled; one of them is refused exactly if it reads, however far, what can
\* change; and each is evaluated once.
ComputesTheSame(file, rewritten) ==
  LET loaded == Loaded(file)
      constants == {i \in DOMAIN file : file[i].kind = "constant"}
  IN ~Threw(loaded) =>
       /\ ~rewritten.endless
       /\ IsInjective(rewritten.evaluated) /\ ToSet(rewritten.evaluated) = constants
       /\ \A call \in constants :
            rewritten.outcomes[call] = IF CanChange(call, file) THEN {} ELSE loaded[call].value
=============================================================================

----------------------------- MODULE MCSequences -----------------------------
(***************************************************************************)
(* Every operator of a sequence over every source of up to three elements, *)
(* of which one is null and two have equal keys; rankings over five, since *)
(* a heap shows what is wrong with it only after it evicted; pipelines of  *)
(* two operators, the second with the count the first declares; and a      *)
(* memoized sequence with two traversals.                                  *)
(***************************************************************************)
EXTENDS Traversal

CONSTANTS Items, MaxItems, Failing, Traversers

VARIABLES
  kind,  \* "traversal" or "memoized", which of the two is looked at
  array, cache, iterator, exhausted, yielded, told

Memo == INSTANCE Memoized

ASSUME SequencesAssumption == Memo!MemoizedAssumption /\ TraversalAssumption

memoVars == <<array, cache, iterator, exhausted, yielded, told>>

NoTraversal ==
  /\ LET taps == <<Parameters("tap", 0, <<>>, unknown)>> IN
     traversal = [async |-> FALSE, source |-> <<>>, wanted |-> taps, pipeline |-> taps]
  /\ stages = <<Opening(pipeline[1])>>
  /\ asking = consumer /\ given = <<<<>>, <<>>>> /\ ended = {} /\ aborted = FALSE /\ before = 0

NothingMemoized ==
  /\ array = <<>> /\ cache = <<>> /\ iterator = "unopened" /\ exhausted = FALSE
  /\ yielded = [t \in Traversers |-> <<>>] /\ told = [t \in Traversers |-> "reading"]

MCInit ==
  \/ kind = "traversal" /\ Init /\ NothingMemoized
  \/ kind = "memoized" /\ NoTraversal /\ Memo!Init

MCNext ==
  /\ kind' = kind
  /\ \/ kind = "traversal" /\ Next /\ UNCHANGED memoVars
     \/ kind = "memoized" /\ Memo!Next /\ UNCHANGED vars

MCSpec == MCInit /\ [][MCNext]_<<kind, vars, memoVars>>

\* Traversals of a memoized sequence that take turns are given the same
\* (packages/collections/src/collections/sequence: memoize).
RepeatsTheSame == Memo!TypeOK /\ Memo!RepeatsTheSame

-----------------------------------------------------------------------------

Elements == {null, 1, 2, 3}

\* The elements 7 and 8 are in no source: the one comes before all others, the
\* other after them.
HoldsValue(x) == x \in {1, 2, 7}
KeyValue(x) == IF x = null THEN 4 ELSE IF x = 3 THEN 1 ELSE IF x = 7 THEN 0 ELSE x
NumberValue(x) == IF x = null THEN 0 ELSE IF x = 7 THEN -5 ELSE x
InnerValue(x) == CASE x = 1 -> <<>> [] x = 2 -> <<2, 1>> [] OTHER -> <<x>>

UpToLength(S, n) == UNION {[1 .. k -> S] : k \in 0 .. n}
Others == UpToLength({null, 1, 3}, 2)

-----------------------------------------------------------------------------
Plain(ops) == {Parameters(op, 0, <<>>, unknown) : op \in ops}
Given(ops, N) == {Parameters(op, n, <<>>, unknown) : op \in ops, n \in N}
Paired(ops) == {Parameters(op, 0, other, unknown) : op \in ops, other \in Others}

PlainOps == {"where", "select", "selectMany", "choose", "ofType", "tap", "scan", "cast",
  "takeWhile", "skipWhile", "pairwise", "groupAdjacent", "distinctBy", "distinct"}
CountOps == {"take", "skip", "takeLast", "skipLast", "topBy"}
PlaceOps == {"elementAt", "elementAtOrNull"}
PairOps == {"except", "exceptBy", "intersect", "intersectBy", "union", "unionBy",
  "join", "groupJoin", "concat", "prepend", "zip"}
TotalOps == {"all", "aggregate", "toArray", "toSet", "forEach", "sum", "average",
  "min", "max", "minBy", "maxBy", "toLookup", "countBy", "toMap", "standardDeviation",
  "sampleStandardDeviation"}

\* Those both kinds of sequences have: the ones that are sequences themselves,
\* and the ones that answer.
Streams == Plain(PlainOps) \cup Given(CountOps, -1 .. 3) \cup Paired(PairOps)
           \cup Given({"chunk", "windowed"}, 0 .. 2)
           \cup Given({"defaultIfEmpty"}, {7})
           \cup {Parameters("append", 0, <<1>>, unknown)}
Answerers == Plain(TotalOps) \cup Given(PlaceOps, -1 .. 2)
             \cup Given({"contains"}, 1 .. 2) \cup Paired({"sequenceEqual"})

SyncStreams == Streams \cup Plain({"reverse", "groupBy", "orderBy", "orderByDescending",
  "thenBy", "thenByDescending"})
SyncAnswerers == Answerers
  \cup Given({"first", "firstOrNull", "last", "lastOrNull", "single", "singleOrNull",
              "count", "any"}, 0 .. 1)
  \cup Plain({"partition", "median"}) \cup Given({"index"}, 0 .. 2)
  \cup Given({"percentile"}, {-1, 0, 25, 90, 100, 101})

AsyncAnswerers == Answerers \cup Plain({"any", "first", "firstOrNull", "single",
  "singleOrNull", "last", "lastOrNull", "count"})

\* The orders in which the keys of four elements may be found.
Orders == {order \in [1 .. 4 -> 1 .. 4] : \A i, j \in 1 .. 4 : order[i] = order[j] => i = j}
Awaited == {Parameters("topByAwait", n, order, unknown) : n \in 0 .. 3, order \in Orders}

-----------------------------------------------------------------------------
Over(async, declared, O) == {[async |-> async, declared |-> declared, ops |-> q] : q \in O}
Alone(O) == {<<p>> : p \in O}

\* What can be done with whatever the first operator yields.
Seconds == Plain({"toArray", "count", "any", "first", "last"})
           \cup Given({"take", "skip", "takeLast", "skipLast", "elementAtOrNull"}, 1 .. 1)
           \cup Given({"chunk"}, {2})
ToCompose == {p \in SyncStreams : p.op # "cast" /\ ~Refused(p) /\ p.n < 3 /\ p.other \in {<<>>, <<1>>, <<3>>}}

\* A count is known of a sequence made from an array, of an asynchronous one never.
MCPipelines ==
  Over(FALSE, FALSE, Alone(SyncStreams) \cup Alone(SyncAnswerers))
  \cup Over(FALSE, TRUE, Alone(SyncStreams) \cup Alone(Given({"count", "any"}, 0 .. 1)))
  \cup Over(TRUE, FALSE, Alone(Streams) \cup Alone(AsyncAnswerers) \cup Alone(Awaited))
  \cup Over(FALSE, TRUE, {<<p, q>> : p \in ToCompose, q \in Seconds \cup Plain({"reverse"})})
  \cup Over(FALSE, FALSE, {<<p, q>> : p \in Plain(Orderings),
              q \in Plain({"sum", "average", "min", "max"}) \cup Given({"count", "any"}, 1 .. 1)})
  \cup Over(TRUE, FALSE, {<<p, q>> : p \in ToCompose \cap Streams, q \in Seconds})

Sources == UpToLength(Elements, 3)
Short == UpToLength({1, 2, 3}, 2) \cup {<<1, 2, 3>>, <<3, 1, 2>>, <<2, 3, 3>>}
MCSourcesOf(q) ==
  CASE Len(q.ops) = 2 -> Short
    [] q.ops[1].op = "topBy" /\ q.ops[1].n = 3 /\ q.declared -> [1 .. 5 -> Elements]
    [] q.ops[1].op = "topByAwait" -> {<<1, 2, 3, 1>>, <<3, 1, 2, 2>>, <<2, 3, 1>>}
    [] OTHER -> Sources

\* What the other sequence may have, or elements that are in neither; for the
\* second operator, whose elements may be anything, something else.
MCContinuations(k) ==
  IF k = 1 THEN (Others \ {<<>>}) \cup {<<2>>, <<7>>, <<8>>}
                \cup {<<7, 7, 7>>, <<8, 8, 8>>, <<7, 8, 1, 2>>, <<8, 7, null, 3>>}
  ELSE {<<stopped>>, <<stopped, stopped, stopped>>}
=============================================================================

---------------------------- MODULE SyncSequences ----------------------------
(***************************************************************************)
(* The operators of a sequence (packages/collections/src/collections/      *)
(* sequence and ordered), each as what its generator does with what it     *)
(* pulled: op(p, s, e) takes the parameters p, the state s it keeps and    *)
(* what its source answered, <<x>> for an element or <<>> for its end, and *)
(* says in what state it goes on, what it yields before it pulls again,    *)
(* and whether it is through.  A method that answers at once is an         *)
(* operator that yields its answer, or the code it fails with, as its only *)
(* element.  Numbers are exact: a mean is a pair, a root is not taken.     *)
(***************************************************************************)
EXTENDS Ranking

CONSTANTS
  Holds(_), Key(_), Number(_), Inner(_),  \* the callbacks
  null,                                   \* an element, and the answer there is none
  nothing, several, outOfRange, duplicate, wrongType, tooFew,  \* the codes
  unknown                                 \* a count that is not known

\* `n` is the number a method is given, `other` its other sequence, `known` the
\* count its source declares.
Parameters(op, n, other, known) == [op |-> op, n |-> n, other |-> other, known |-> known]

On(state, out) == [state |-> state, out |-> out, stop |-> FALSE]
Done(state, out) == [state |-> state, out |-> out, stop |-> TRUE]
Answer(x) == Done(<<>>, <<x>>)

\* For every element, on to state t; through at the end.
Each(e, s, t, out) == IF e = <<>> THEN Done(s, <<>>) ELSE On(t, out)

\* For every element, on to state t; at the end the answer.
Collect(e, t, answer) == IF e = <<>> THEN Answer(answer) ELSE On(t, <<>>)

\* A method that may be given a predicate is given one if n is not 0.
Passes(p, x) == p.n = 0 \/ Holds(x)

-----------------------------------------------------------------------------
(* One element at a time.                                                  *)

where(p, s, e) == Each(e, s, s, IF Holds(e[1]) THEN e ELSE <<>>)
ofType(p, s, e) == where(p, s, e)
select(p, s, e) == Each(e, s, s, <<Number(e[1])>>)
selectMany(p, s, e) == Each(e, s, s, Inner(e[1]))
choose(p, s, e) == Each(e, s, s, IF Holds(e[1]) THEN <<Number(e[1])>> ELSE <<>>)
tap(p, s, e) == Each(e, s, s, e)
scan(p, s, e) == LET t == 2 * s + Number(e[1]) IN Each(e, s, t, <<t>>)

cast(p, s, e) ==
  IF e # <<>> /\ ~Holds(e[1]) THEN Done(s, <<wrongType>>) ELSE Each(e, s, s, e)

takeWhile(p, s, e) ==
  IF e # <<>> /\ ~Holds(e[1]) THEN Done(s, <<>>) ELSE Each(e, s, s, e)

skipWhile(p, s, e) ==
  LET skips == s /\ Holds(e[1]) IN Each(e, s, skips, IF skips THEN <<>> ELSE e)

\* Mutant: the element after the last one taken is asked for too.
takeOneMore(p, s, e) == IF s = p.n THEN Done(s, <<>>) ELSE Each(e, s, s + 1, e)

take(p, s, e) ==
  IF e # <<>> /\ s + 1 >= p.n THEN Done(s + 1, e) ELSE Each(e, s, s + 1, e)

skip(p, s, e) == IF s < p.n THEN Each(e, s, s + 1, <<>>) ELSE Each(e, s, s, e)

defaultIfEmpty(p, s, e) ==
  IF e = <<>> THEN Done(s, IF s THEN <<p.n>> ELSE <<>>) ELSE On(FALSE, e)

-----------------------------------------------------------------------------
(* Windows.                                                                *)

\* What a window of n holds after it moved on to t.
LastOf(n, t) == IF Len(t) > n THEN Tail(t) ELSE t

takeLast(p, s, e) == IF e = <<>> THEN Done(s, s) ELSE On(LastOf(p.n, s \o e), <<>>)

skipLast(p, s, e) ==
  LET t == s \o e IN Each(e, s, LastOf(p.n, t), IF Len(t) > p.n THEN <<t[1]>> ELSE <<>>)

chunk(p, s, e) ==
  IF e = <<>> THEN Done(s, IF s = <<>> THEN <<>> ELSE <<s>>)
  ELSE LET t == s \o e IN IF Len(t) = p.n THEN On(<<>>, <<t>>) ELSE On(t, <<>>)

windowed(p, s, e) ==
  LET t == LastOf(p.n, s \o e) IN Each(e, s, t, IF Len(t) = p.n THEN <<t>> ELSE <<>>)

pairwise(p, s, e) == Each(e, s, e, IF s = <<>> THEN <<>> ELSE <<s \o e>>)

reverse(p, s, e) == IF e = <<>> THEN Done(s, Reverse(s)) ELSE On(s \o e, <<>>)

groupAdjacent(p, s, e) ==
  LET group == <<<<Key(s[1]), s>>>> IN
  IF e = <<>> THEN Done(s, IF s = <<>> THEN <<>> ELSE group)
  ELSE IF s # <<>> /\ Key(e[1]) # Key(s[1]) THEN On(e, group) ELSE On(s \o e, <<>>)

-----------------------------------------------------------------------------
(* Sets: s is what was seen, or for an intersection what is still wanted.   *)

Keys(t) == {Key(t[i]) : i \in 1 .. Len(t)}

Unseen(s, k, e) == IF k \in s THEN On(s, <<>>) ELSE On(s \cup {k}, e)
Wanted(s, k, e) == IF k \in s THEN On(s \ {k}, e) ELSE On(s, <<>>)

\* The elements of t not seen yet, each once.
Fresh(t, s, K(_)) ==
  FoldLeft(LAMBDA out, x : IF K(x) \in s \cup {K(out[i]) : i \in 1 .. Len(out)} THEN out
                           ELSE Append(out, x), <<>>, t)

distinct(p, s, e) == IF e = <<>> THEN Done(s, <<>>) ELSE Unseen(s, e[1], e)
distinctBy(p, s, e) == IF e = <<>> THEN Done(s, <<>>) ELSE Unseen(s, Key(e[1]), e)
except(p, s, e) == distinct(p, s, e)
exceptBy(p, s, e) == distinctBy(p, s, e)
intersect(p, s, e) == IF e = <<>> THEN Done(s, <<>>) ELSE Wanted(s, e[1], e)
intersectBy(p, s, e) == IF e = <<>> THEN Done(s, <<>>) ELSE Wanted(s, Key(e[1]), e)

union(p, s, e) ==
  IF e = <<>> THEN Done(s, Fresh(p.other, s, LAMBDA x : x)) ELSE Unseen(s, e[1], e)
unionBy(p, s, e) ==
  IF e = <<>> THEN Done(s, Fresh(p.other, s, Key)) ELSE Unseen(s, Key(e[1]), e)

-----------------------------------------------------------------------------
(* Groups, as pairs of a key and what has it, in the order of their keys'   *)
(* first elements.                                                         *)

AddTo(groups, x) ==
  IF \E i \in 1 .. Len(groups) : groups[i][1] = Key(x)
  THEN [i \in 1 .. Len(groups) |->
         IF groups[i][1] = Key(x) THEN <<Key(x), Append(groups[i][2], x)>> ELSE groups[i]]
  ELSE Append(groups, <<Key(x), <<x>>>>)

Grouped(t) == FoldLeft(AddTo, <<>>, t)

Bucket(groups, key) ==
  LET found == SelectSeq(groups, LAMBDA group : group[1] = key) IN
  IF found = <<>> THEN <<>> ELSE found[1][2]

groupBy(p, s, e) == IF e = <<>> THEN Done(s, s) ELSE On(AddTo(s, e[1]), <<>>)
toLookup(p, s, e) == Collect(e, AddTo(s, e[1]), s)
countBy(p, s, e) ==
  Collect(e, AddTo(s, e[1]), [i \in 1 .. Len(s) |-> <<s[i][1], Len(s[i][2])>>])

join(p, s, e) ==
  LET bucket == Bucket(s, Key(e[1])) IN
  Each(e, s, s, [i \in 1 .. Len(bucket) |-> <<e[1], bucket[i]>>])

groupJoin(p, s, e) == Each(e, s, s, <<<<e[1], Bucket(s, Key(e[1]))>>>>)

toMap(p, s, e) ==
  IF e # <<>> /\ Key(e[1]) \in {s[i][1] : i \in 1 .. Len(s)} THEN Answer(duplicate)
  ELSE Collect(e, Append(s, <<Key(e[1]), e[1]>>), s)

-----------------------------------------------------------------------------
(* With another sequence.                                                  *)

concat(p, s, e) == IF e = <<>> THEN Done(s, p.other) ELSE On(s, e)
append(p, s, e) == concat(p, s, e)
prepend(p, s, e) == Each(e, s, s, e)

\* s counts the pairs there were.
zip(p, s, e) ==
  IF s = Len(p.other) THEN Done(s, <<>>)
  ELSE Each(e, s, s + 1, <<<<e[1], p.other[s + 1]>>>>)

sequenceEqual(p, s, e) ==
  IF e = <<>> \/ s = Len(p.other) THEN Answer(e = <<>> /\ s = Len(p.other))
  ELSE IF e[1] # p.other[s + 1] THEN Answer(FALSE) ELSE On(s + 1, <<>>)

-----------------------------------------------------------------------------
(* Rankings: the heap and how many came before, or the elements.           *)

topBy(p, s, e) ==
  IF e = <<>> THEN Done(s, drain(s.heap))
  ELSE LET entry == [element |-> e[1], key |-> Key(e[1]), arrival |-> s.arrival] IN
       On([heap |-> offer(s.heap, p.n, entry), arrival |-> s.arrival + 1], <<>>)

\* sort: by the positions of the elements, which decide between equal keys.
sort(t, Before(_, _)) ==
  LET positions == SortSeq([i \in 1 .. Len(t) |-> i],
        LAMBDA i, j : Before(t[i], t[j]) \/ (~Before(t[j], t[i]) /\ i < j))
  IN [i \in 1 .. Len(t) |-> t[positions[i]]]

Up(x, y) == Key(x) < Key(y)
Down(x, y) == Key(x) > Key(y)
Then(First(_, _), Second(_, _), x, y) == First(x, y) \/ (~First(y, x) /\ Second(x, y))
NumberUp(x, y) == Number(x) < Number(y)
NumberDown(x, y) == Number(x) > Number(y)

Sorting(s, e, Before(_, _)) ==
  IF e = <<>> THEN Done(s, sort(s, Before)) ELSE On(s \o e, <<>>)

orderBy(p, s, e) == Sorting(s, e, Up)
orderByDescending(p, s, e) == Sorting(s, e, Down)
thenBy(p, s, e) == Sorting(s, e, LAMBDA x, y : Then(Down, NumberUp, x, y))
thenByDescending(p, s, e) == Sorting(s, e, LAMBDA x, y : Then(Up, NumberDown, x, y))

Orderings == {"orderBy", "orderByDescending", "thenBy", "thenByDescending"}

\* Methods that do not depend on the order are those of what was to be sorted.
unordered(ops) ==
  IF /\ Len(ops) = 2 /\ ops[1].op \in Orderings
     /\ ops[2].op \in {"count", "any", "sum", "average", "min", "max"}
  THEN Tail(ops) ELSE ops

-----------------------------------------------------------------------------
(* Answers about an element.                                               *)

\* A code when there is none.
OrFail(s, code) == IF s = <<>> THEN code ELSE s[1]

first(p, s, e) ==
  IF e # <<>> /\ Passes(p, e[1]) THEN Answer(e[1]) ELSE Collect(e, s, nothing)
firstOrNull(p, s, e) ==
  IF e # <<>> /\ Passes(p, e[1]) THEN Answer(e[1]) ELSE Collect(e, s, null)

findLast(p, s, e) == IF Passes(p, e[1]) THEN e ELSE s
last(p, s, e) == Collect(e, findLast(p, s, e), OrFail(s, nothing))
lastOrNull(p, s, e) == Collect(e, findLast(p, s, e), OrFail(s, null))

\* What single found: null when there was none.
resolveSingle(p, s, e, missing) ==
  IF e # <<>> /\ Passes(p, e[1])
  THEN IF s # <<>> THEN Answer(several) ELSE On(e, <<>>)
  ELSE Collect(e, s, IF OrFail(s, null) = null THEN missing ELSE s[1])
single(p, s, e) == resolveSingle(p, s, e, nothing)
singleOrNull(p, s, e) == resolveSingle(p, s, e, null)

elementAtOrNull(p, s, e) ==
  IF e # <<>> /\ s = p.n THEN Answer(e[1]) ELSE Collect(e, s + 1, null)

\* It fails whenever elementAtOrNull answers null.
elementAt(p, s, e) ==
  LET found == elementAtOrNull(p, s, e) IN
  IF found.out = <<null>> THEN Answer(outOfRange) ELSE found

\* sequence[n], through the proxy.
index(p, s, e) == elementAtOrNull(p, s, e)

Better(s, e, Wins(_, _)) == IF s = <<>> \/ Wins(e[1], s[1]) THEN e ELSE s
minBy(p, s, e) == Collect(e, Better(s, e, Up), OrFail(s, nothing))
maxBy(p, s, e) == Collect(e, Better(s, e, Down), OrFail(s, nothing))

-----------------------------------------------------------------------------
(* Answers about all of them.                                              *)

any(p, s, e) == IF e # <<>> /\ Passes(p, e[1]) THEN Answer(TRUE) ELSE Collect(e, s, FALSE)
all(p, s, e) == IF e # <<>> /\ ~Holds(e[1]) THEN Answer(FALSE) ELSE Collect(e, s, TRUE)
contains(p, s, e) == IF e = <<p.n>> THEN Answer(TRUE) ELSE Collect(e, s, FALSE)
count(p, s, e) == Collect(e, IF Passes(p, e[1]) THEN s + 1 ELSE s, s)
aggregate(p, s, e) == Collect(e, 2 * s + Number(e[1]), s)
toArray(p, s, e) == Collect(e, s \o e, s)
toSet(p, s, e) == Collect(e, s \cup {e[1]}, s)
forEach(p, s, e) == Collect(e, Append(s, <<e[1], Len(s)>>), s)
partition(p, s, e) ==
  Collect(e, IF Holds(e[1]) THEN <<s[1] \o e, s[2]>> ELSE <<s[1], s[2] \o e>>, s)

sum(p, s, e) == Collect(e, s + Number(e[1]), s)
average(p, s, e) ==
  Collect(e, <<s[1] + Number(e[1]), s[2] + 1>>, IF s[2] = 0 THEN nothing ELSE s)

Extreme(s, e, Wins(_, _)) ==
  IF s = <<>> \/ Wins(Number(e[1]), s[1]) THEN <<Number(e[1])>> ELSE s
min(p, s, e) == Collect(e, Extreme(s, e, LAMBDA x, y : x < y), OrFail(s, nothing))
max(p, s, e) == Collect(e, Extreme(s, e, LAMBDA x, y : x > y), OrFail(s, nothing))

sortedValues(s) == SortSeq(s, LAMBDA x, y : x < y)
Values(e, s, answer) == Collect(e, Append(s, Number(e[1])), IF s = <<>> THEN nothing ELSE answer)

\* Twice the median.
median(p, s, e) ==
  LET t == sortedValues(s)
      middle == Len(s) \div 2 IN
  Values(e, s, IF Len(s) % 2 = 1 THEN 2 * t[middle + 1] ELSE t[middle] + t[middle + 1])

\* A hundred times the percentile, for a rank in hundredths.
percentile(p, s, e) ==
  LET t == sortedValues(s)
      position == (Len(s) - 1) * p.n
      lower == t[position \div 100 + 1]
      upper == t[(position + 99) \div 100 + 1] IN
  Values(e, s, 100 * lower + (upper - lower) * (position % 100))

\* The mean is a fraction of the count, so the total is taken times the count.
squaredDeviations(s) ==
  LET total == FoldLeft(LAMBDA a, v : a + v, 0, s) IN
  FoldLeft(LAMBDA a, v : a + (v * Len(s) - total) * (v * Len(s) - total), 0, s) \div Len(s)

\* What the root is taken of: a numerator and a denominator.
standardDeviation(p, s, e) ==
  Values(e, s, <<squaredDeviations(s), Len(s) * Len(s)>>)
sampleStandardDeviation(p, s, e) ==
  Values(e, s, IF Len(s) < 2 THEN tooFew
               ELSE <<squaredDeviations(s), Len(s) * (Len(s) - 1)>>)

-----------------------------------------------------------------------------
(* What is known before anything is read, and how a traversal begins.      *)

\* The operators whose result has as many elements as their source.
Counted == Orderings \cup {"select", "tap", "scan", "cast", "reverse", "groupJoin"}

\* The arguments a call refuses (FULCRO1006, 1008, 1009).  It throws before there is a
\* sequence; here its stage says so when it is asked, and nothing was read either way.
Refused(p) ==
  \/ p.op \in {"chunk", "windowed"} /\ p.n < 1
  \/ p.op = "percentile" /\ p.n \notin 0 .. 100

\* The count a result declares, given the one its source does.
KnownCount(p) ==
  LET k == p.known
      n == IF p.n > 0 THEN p.n ELSE 0
      Least(a, b) == IF a < b THEN a ELSE b
      Less(m) == IF k > m THEN k - m ELSE 0
  IN
  IF k = unknown \/ Refused(p) THEN unknown
  ELSE CASE p.op \in Counted -> k
         [] p.op \in {"take", "takeLast", "topBy"} -> Least(n, k)
         [] p.op \in {"skip", "skipLast"} -> Less(n)
         [] p.op \in {"concat", "append", "prepend"} -> k + Len(p.other)
         [] p.op = "defaultIfEmpty" -> IF k = 0 THEN 1 ELSE k
         [] p.op = "chunk" -> (k + n - 1) \div n
         [] p.op = "zip" -> Least(k, Len(p.other))
         [] p.op = "windowed" -> Less(n - 1)
         [] p.op = "pairwise" -> Less(1)
         [] OTHER -> unknown

\* The state a generator begins with.
Initially(p) ==
  CASE p.op \in {"skipWhile", "defaultIfEmpty"} -> TRUE
    [] p.op \in {"take", "skip", "scan", "count", "aggregate", "sum", "zip",
                 "sequenceEqual", "elementAt", "elementAtOrNull", "index"} -> 0
    [] p.op \in {"distinct", "distinctBy", "union", "unionBy", "toSet"} -> {}
    [] p.op \in {"except", "intersect"} -> ToSet(p.other)
    [] p.op \in {"exceptBy", "intersectBy"} -> Keys(p.other)
    [] p.op \in {"join", "groupJoin"} -> Grouped(p.other)
    [] p.op = "topBy" -> [heap |-> <<>>, arrival |-> 0]
    [] p.op = "partition" -> <<<<>>, <<>>>>
    [] p.op = "average" -> <<0, 0>>
    [] OTHER -> <<>>

\* What comes before the source is read: some need not read it at all.
Opening(p) ==
  CASE Refused(p) -> Answer(outOfRange)
    [] p.op \in {"take", "takeLast", "topBy"} /\ p.n <= 0 -> Done(Initially(p), <<>>)
    [] p.op = "elementAt" /\ p.n < 0 -> Answer(outOfRange)
    [] p.op = "elementAtOrNull" /\ p.n < 0 -> Answer(null)
    [] p.op = "count" /\ p.n = 0 /\ p.known # unknown -> Answer(p.known)
    [] p.op = "any" /\ p.n = 0 /\ p.known # unknown -> Answer(p.known > 0)
    [] p.op = "prepend" -> On(Initially(p), p.other)
    [] OTHER -> On(Initially(p), <<>>)

\* The operator a stage is.
Step(p, s, e) ==
  CASE p.op = "where" -> where(p, s, e) [] p.op = "ofType" -> ofType(p, s, e)
    [] p.op = "select" -> select(p, s, e) [] p.op = "selectMany" -> selectMany(p, s, e)
    [] p.op = "choose" -> choose(p, s, e) [] p.op = "tap" -> tap(p, s, e)
    [] p.op = "scan" -> scan(p, s, e) [] p.op = "cast" -> cast(p, s, e)
    [] p.op = "takeWhile" -> takeWhile(p, s, e)
    [] p.op = "skipWhile" -> skipWhile(p, s, e) [] p.op = "take" -> take(p, s, e)
    [] p.op = "skip" -> skip(p, s, e)
    [] p.op = "defaultIfEmpty" -> defaultIfEmpty(p, s, e)
    [] p.op = "takeLast" -> takeLast(p, s, e) [] p.op = "skipLast" -> skipLast(p, s, e)
    [] p.op = "chunk" -> chunk(p, s, e) [] p.op = "windowed" -> windowed(p, s, e)
    [] p.op = "pairwise" -> pairwise(p, s, e) [] p.op = "reverse" -> reverse(p, s, e)
    [] p.op = "groupAdjacent" -> groupAdjacent(p, s, e)
    [] p.op = "distinct" -> distinct(p, s, e)
    [] p.op = "distinctBy" -> distinctBy(p, s, e) [] p.op = "except" -> except(p, s, e)
    [] p.op = "exceptBy" -> exceptBy(p, s, e)
    [] p.op = "intersect" -> intersect(p, s, e)
    [] p.op = "intersectBy" -> intersectBy(p, s, e) [] p.op = "union" -> union(p, s, e)
    [] p.op = "unionBy" -> unionBy(p, s, e) [] p.op = "groupBy" -> groupBy(p, s, e)
    [] p.op = "toLookup" -> toLookup(p, s, e) [] p.op = "countBy" -> countBy(p, s, e)
    [] p.op = "join" -> join(p, s, e) [] p.op = "groupJoin" -> groupJoin(p, s, e)
    [] p.op = "toMap" -> toMap(p, s, e) [] p.op = "concat" -> concat(p, s, e)
    [] p.op = "append" -> append(p, s, e) [] p.op = "prepend" -> prepend(p, s, e)
    [] p.op = "zip" -> zip(p, s, e) [] p.op = "sequenceEqual" -> sequenceEqual(p, s, e)
    [] p.op = "topBy" -> topBy(p, s, e) [] p.op = "orderBy" -> orderBy(p, s, e)
    [] p.op = "orderByDescending" -> orderByDescending(p, s, e)
    [] p.op = "thenBy" -> thenBy(p, s, e)
    [] p.op = "thenByDescending" -> thenByDescending(p, s, e)
    [] p.op = "first" -> first(p, s, e) [] p.op = "firstOrNull" -> firstOrNull(p, s, e)
    [] p.op = "last" -> last(p, s, e) [] p.op = "lastOrNull" -> lastOrNull(p, s, e)
    [] p.op = "single" -> single(p, s, e)
    [] p.op = "singleOrNull" -> singleOrNull(p, s, e)
    [] p.op = "elementAtOrNull" -> elementAtOrNull(p, s, e)
    [] p.op = "elementAt" -> elementAt(p, s, e) [] p.op = "index" -> index(p, s, e)
    [] p.op = "minBy" -> minBy(p, s, e) [] p.op = "maxBy" -> maxBy(p, s, e)
    [] p.op = "any" -> any(p, s, e) [] p.op = "all" -> all(p, s, e)
    [] p.op = "contains" -> contains(p, s, e) [] p.op = "count" -> count(p, s, e)
    [] p.op = "aggregate" -> aggregate(p, s, e) [] p.op = "toArray" -> toArray(p, s, e)
    [] p.op = "toSet" -> toSet(p, s, e) [] p.op = "forEach" -> forEach(p, s, e)
    [] p.op = "partition" -> partition(p, s, e) [] p.op = "sum" -> sum(p, s, e)
    [] p.op = "average" -> average(p, s, e) [] p.op = "min" -> min(p, s, e)
    [] p.op = "max" -> max(p, s, e) [] p.op = "median" -> median(p, s, e)
    [] p.op = "percentile" -> percentile(p, s, e)
    [] p.op = "standardDeviation" -> standardDeviation(p, s, e)
    [] p.op = "sampleStandardDeviation" -> sampleStandardDeviation(p, s, e)
=============================================================================

--------------------------- MODULE AsyncSequences ---------------------------
(***************************************************************************)
(* The operators of an asynchronous sequence (packages/collections/src/    *)
(* collections/async): most keep what their synchronous namesakes keep.    *)
(* Methods that answer take a signal, and look at it after every element   *)
(* that arrives and before they do anything with it.  Callbacks are waited *)
(* for one at a time; those that run several at once are mapConcurrent's.  *)
(***************************************************************************)
EXTENDS Ranking

CONSTANTS
  Holds(_), Key(_), Number(_), Inner(_), null,
  nothing, several, outOfRange, duplicate, wrongType, tooFew, unknown,
  stopped  \* what a method fails with once its signal was aborted

Sync == INSTANCE SyncSequences

On(state, out) == Sync!On(state, out)
Done(state, out) == Sync!Done(state, out)
Answer(x) == Sync!Answer(x)
Collect(e, t, answer) == Sync!Collect(e, t, answer)

-----------------------------------------------------------------------------
(* As when nothing is waited for.                                          *)

where(p, s, e) == Sync!where(p, s, e)
select(p, s, e) == Sync!select(p, s, e)
selectMany(p, s, e) == Sync!selectMany(p, s, e)
take(p, s, e) == Sync!take(p, s, e)
skip(p, s, e) == Sync!skip(p, s, e)
takeWhile(p, s, e) == Sync!takeWhile(p, s, e)
skipWhile(p, s, e) == Sync!skipWhile(p, s, e)
distinctBy(p, s, e) == Sync!distinctBy(p, s, e)
concat(p, s, e) == Sync!concat(p, s, e)
chunk(p, s, e) == Sync!chunk(p, s, e)
scan(p, s, e) == Sync!scan(p, s, e)
choose(p, s, e) == Sync!choose(p, s, e)
ofType(p, s, e) == Sync!ofType(p, s, e)
tap(p, s, e) == Sync!tap(p, s, e)
cast(p, s, e) == Sync!cast(p, s, e)
append(p, s, e) == Sync!append(p, s, e)
prepend(p, s, e) == Sync!prepend(p, s, e)
defaultIfEmpty(p, s, e) == Sync!defaultIfEmpty(p, s, e)
pairwise(p, s, e) == Sync!pairwise(p, s, e)
windowed(p, s, e) == Sync!windowed(p, s, e)
takeLast(p, s, e) == Sync!takeLast(p, s, e)
skipLast(p, s, e) == Sync!skipLast(p, s, e)
groupAdjacent(p, s, e) == Sync!groupAdjacent(p, s, e)
zip(p, s, e) == Sync!zip(p, s, e)
except(p, s, e) == Sync!except(p, s, e)
exceptBy(p, s, e) == Sync!exceptBy(p, s, e)
intersect(p, s, e) == Sync!intersect(p, s, e)
intersectBy(p, s, e) == Sync!intersectBy(p, s, e)
union(p, s, e) == Sync!union(p, s, e)
unionBy(p, s, e) == Sync!unionBy(p, s, e)
join(p, s, e) == Sync!join(p, s, e)
groupJoin(p, s, e) == Sync!groupJoin(p, s, e)
topBy(p, s, e) == Sync!topBy(p, s, e)
toArray(p, s, e) == Sync!toArray(p, s, e)
count(p, s, e) == Sync!count(p, s, e)
all(p, s, e) == Sync!all(p, s, e)
last(p, s, e) == Sync!last(p, s, e)
lastOrNull(p, s, e) == Sync!lastOrNull(p, s, e)
elementAtOrNull(p, s, e) == Sync!elementAtOrNull(p, s, e)
forEach(p, s, e) == Sync!forEach(p, s, e)
aggregate(p, s, e) == Sync!aggregate(p, s, e)
sum(p, s, e) == Sync!sum(p, s, e)
average(p, s, e) == Sync!average(p, s, e)
minBy(p, s, e) == Sync!minBy(p, s, e)
maxBy(p, s, e) == Sync!maxBy(p, s, e)
min(p, s, e) == Sync!min(p, s, e)
max(p, s, e) == Sync!max(p, s, e)
contains(p, s, e) == Sync!contains(p, s, e)
sequenceEqual(p, s, e) == Sync!sequenceEqual(p, s, e)
countBy(p, s, e) == Sync!countBy(p, s, e)
toMap(p, s, e) == Sync!toMap(p, s, e)
toLookup(p, s, e) == Sync!toLookup(p, s, e)
toSet(p, s, e) == Sync!toSet(p, s, e)

-----------------------------------------------------------------------------
(* Otherwise.                                                              *)

distinct(p, s, e) == IF e = <<>> THEN Done(s, <<>>) ELSE Sync!Unseen(s, e[1], e)

any(p, s, e) == Answer(e # <<>>)

firstOrNull(p, s, e) == Answer(IF e = <<>> THEN null ELSE e[1])

\* It fails whenever firstOrNull answers null.
first(p, s, e) == LET found == firstOrNull(p, s, e) IN
                  IF found.out = <<null>> THEN Answer(nothing) ELSE found

\* It fails whenever elementAtOrNull answers null.
elementAt(p, s, e) == LET found == elementAtOrNull(p, s, e) IN
                      IF found.out = <<null>> THEN Answer(outOfRange) ELSE found

\* only: whatever it is, the element is told from none.
only(s, e, missing) ==
  IF e # <<>> /\ s # <<>> THEN Answer(several)
  ELSE Collect(e, e, Sync!OrFail(s, missing))
single(p, s, e) == only(s, e, nothing)
singleOrNull(p, s, e) == only(s, e, null)

\* The elements are numbered before their keys are asked for.
numbered(p, s, i) == [element |-> s[i], key |-> Key(s[i]), arrival |-> i]

\* The keys are found in the order of p.other, which lists positions.
topByAwait(p, s, e) ==
  IF e # <<>> THEN On(s \o e, <<>>)
  ELSE LET order == SelectSeq(p.other, LAMBDA i : i <= Len(s)) IN
       Done(s, drain(FoldLeft(LAMBDA heap, i : offer(heap, p.n, numbered(p, s, i)),
                              <<>>, order)))

\* The least common multiple of the divisors up to four elements need.
Scale == 12

\* spread: the squares, scaled, are gathered with the mean as it moves.  The
\* mean before an element is s.total / s.count, and so the element is off by
\* delta / s.count from it, and by delta / (s.count + 1) from the one after.
spread(s, e) ==
  LET value == Number(e[1])
      delta == value * s.count - s.total
      grown == IF s.count = 0 THEN 0
               ELSE (Scale * delta * delta) \div (s.count * (s.count + 1)) IN
  [count |-> s.count + 1, total |-> s.total + value, squares |-> s.squares + grown]

\* As synchronous ones: the squares times the count, and the count times the
\* divisor.
Deviation(s, e, least, code, divisor) ==
  Collect(e, spread(s, e),
          IF s.count < least THEN code
          ELSE <<(s.squares * s.count) \div Scale, s.count * divisor>>)

standardDeviation(p, s, e) == Deviation(s, e, 1, nothing, s.count)
sampleStandardDeviation(p, s, e) == Deviation(s, e, 2, tooFew, s.count - 1)

-----------------------------------------------------------------------------
\* What a generator does before it reads: no count is known.
Opening(p) ==
  IF p.op \in {"standardDeviation", "sampleStandardDeviation"}
  THEN On([count |-> 0, total |-> 0, squares |-> 0], <<>>)
  ELSE IF p.op = "topByAwait" /\ p.n <= 0 THEN Done(<<>>, <<>>)
  ELSE Sync!Opening(p)

\* The operator a stage is.
Step(p, s, e) ==
  CASE p.op = "where" -> where(p, s, e) [] p.op = "select" -> select(p, s, e)
    [] p.op = "selectMany" -> selectMany(p, s, e) [] p.op = "take" -> take(p, s, e)
    [] p.op = "skip" -> skip(p, s, e) [] p.op = "takeWhile" -> takeWhile(p, s, e)
    [] p.op = "skipWhile" -> skipWhile(p, s, e)
    [] p.op = "distinctBy" -> distinctBy(p, s, e) [] p.op = "concat" -> concat(p, s, e)
    [] p.op = "chunk" -> chunk(p, s, e) [] p.op = "scan" -> scan(p, s, e)
    [] p.op = "choose" -> choose(p, s, e) [] p.op = "ofType" -> ofType(p, s, e)
    [] p.op = "tap" -> tap(p, s, e) [] p.op = "cast" -> cast(p, s, e)
    [] p.op = "append" -> append(p, s, e) [] p.op = "prepend" -> prepend(p, s, e)
    [] p.op = "defaultIfEmpty" -> defaultIfEmpty(p, s, e)
    [] p.op = "pairwise" -> pairwise(p, s, e) [] p.op = "windowed" -> windowed(p, s, e)
    [] p.op = "takeLast" -> takeLast(p, s, e) [] p.op = "skipLast" -> skipLast(p, s, e)
    [] p.op = "groupAdjacent" -> groupAdjacent(p, s, e) [] p.op = "zip" -> zip(p, s, e)
    [] p.op = "except" -> except(p, s, e) [] p.op = "exceptBy" -> exceptBy(p, s, e)
    [] p.op = "intersect" -> intersect(p, s, e)
    [] p.op = "intersectBy" -> intersectBy(p, s, e) [] p.op = "union" -> union(p, s, e)
    [] p.op = "unionBy" -> unionBy(p, s, e) [] p.op = "join" -> join(p, s, e)
    [] p.op = "groupJoin" -> groupJoin(p, s, e) [] p.op = "topBy" -> topBy(p, s, e)
    [] p.op = "toArray" -> toArray(p, s, e) [] p.op = "count" -> count(p, s, e)
    [] p.op = "all" -> all(p, s, e) [] p.op = "last" -> last(p, s, e)
    [] p.op = "lastOrNull" -> lastOrNull(p, s, e)
    [] p.op = "elementAtOrNull" -> elementAtOrNull(p, s, e)
    [] p.op = "forEach" -> forEach(p, s, e) [] p.op = "aggregate" -> aggregate(p, s, e)
    [] p.op = "sum" -> sum(p, s, e) [] p.op = "average" -> average(p, s, e)
    [] p.op = "minBy" -> minBy(p, s, e) [] p.op = "maxBy" -> maxBy(p, s, e)
    [] p.op = "min" -> min(p, s, e) [] p.op = "max" -> max(p, s, e)
    [] p.op = "contains" -> contains(p, s, e)
    [] p.op = "sequenceEqual" -> sequenceEqual(p, s, e)
    [] p.op = "countBy" -> countBy(p, s, e) [] p.op = "toMap" -> toMap(p, s, e)
    [] p.op = "toLookup" -> toLookup(p, s, e) [] p.op = "toSet" -> toSet(p, s, e)
    [] p.op = "distinct" -> distinct(p, s, e) [] p.op = "any" -> any(p, s, e)
    [] p.op = "firstOrNull" -> firstOrNull(p, s, e) [] p.op = "first" -> first(p, s, e)
    [] p.op = "elementAt" -> elementAt(p, s, e) [] p.op = "single" -> single(p, s, e)
    [] p.op = "singleOrNull" -> singleOrNull(p, s, e)
    [] p.op = "topByAwait" -> topByAwait(p, s, e)
    [] p.op = "standardDeviation" -> standardDeviation(p, s, e)
    [] p.op = "sampleStandardDeviation" -> sampleStandardDeviation(p, s, e)

\* Mutant: the signal is looked at when it is over.
CheckedAtTheEnd(answers, aborted, e) == answers /\ aborted /\ e = <<>>

\* checkAborted, by methods that answer, for every element.
checkAborted(answers, aborted, e) == answers /\ aborted /\ e # <<>>

\* The operator, unless its signal was aborted.
StepUnless(p, s, e, answers, aborted) ==
  IF checkAborted(answers, aborted, e) THEN Answer(stopped) ELSE Step(p, s, e)
=============================================================================

--------------------------- MODULE SequenceMeanings ---------------------------
(***************************************************************************)
(* What every operator of a sequence means, said of its source as a whole: *)
(* which of its elements are there, by their positions, and in what order. *)
(***************************************************************************)
EXTENDS SyncSequences

\* The elements of t at some positions, in order.
At(t, I) ==
  LET positions == SetToSortSeq(I, <) IN [i \in 1 .. Cardinality(I) |-> t[positions[i]]]

D(t) == 1 .. Len(t)
Pick(t, P(_)) == At(t, {i \in D(t) : P(t[i])})
Each1(t, F(_)) == [i \in D(t) |-> F(t[i])]

\* Those with no equal one before them.
Firsts(t, K(_)) == {i \in D(t) : \A j \in 1 .. (i - 1) : K(t[j]) # K(t[i])}
Self(x) == x

\* Where each would stand: after those that come before it, and after those no
\* different that were before it already.
Ranked(t, Before(_, _)) ==
  LET place(i) == Cardinality({j \in D(t) : Before(t[j], t[i])
                                 \/ (~Before(t[i], t[j]) /\ j <= i)})
  IN [k \in D(t) |-> t[CHOOSE i \in D(t) : place(i) = k]]

Part(t, m, n) == SubSeq(t, m, IF n < Len(t) THEN n ELSE Len(t))
Shorter(t, u) == IF Len(t) < Len(u) THEN Len(t) ELSE Len(u)
UpTo(n) == IF n > 0 THEN 1 .. n ELSE {}

\* Runs of one key, as pairs of the key and what has it.
Runs(t) ==
  LET starts == {i \in D(t) : i = 1 \/ Key(t[i - 1]) # Key(t[i])}
      end(i) == Max({j \in D(t) : \A k \in i .. j : Key(t[k]) = Key(t[i])}) IN
  At([i \in D(t) |-> <<Key(t[i]), SubSeq(t, i, end(i))>>], starts)

With(t, key) == SelectSeq(t, LAMBDA y : Key(y) = key)
Groups(t) ==
  At([i \in D(t) |-> <<Key(t[i]), With(t, Key(t[i]))>>], Firsts(t, Key))

Total(t) == FoldLeft(LAMBDA a, v : a + v, 0, t)
Twice(t) == FoldLeft(LAMBDA a, v : 2 * a + v, 0, t)
Numbers(t) == Each1(t, Number)
Ordered(t) == Ranked(Numbers(t), LAMBDA x, y : x < y)

\* Half the sum of the squares of all differences, which is the number of
\* values times the sum of the squares of their deviations.
Deviations(t) ==
  LET n == Numbers(t) IN
  Total([i \in D(t) |-> Total([j \in D(t) |-> (n[i] - n[j]) * (n[i] - n[j])])]) \div 2

\* The interpolation a percentile is, a hundredfold.
Between(t, position) ==
  LET low == position \div 100 + 1
      high == IF low < Len(t) THEN low + 1 ELSE low IN
  t[low] * (100 - (position % 100)) + t[high] * (position % 100)

\* What the elements the method asks about come to: none, one or several.
Found(p, t) == Pick(t, LAMBDA x : Passes(p, x))
OneOf(t, missing, many) == IF t = <<>> THEN missing ELSE IF Len(t) > 1 THEN many ELSE t[1]
FirstOf(t, missing) == IF t = <<>> THEN missing ELSE t[1]
NthOf(t, n, missing) == IF n + 1 \in D(t) THEN t[n + 1] ELSE missing

Prefix(t, P(_)) == {i \in D(t) : \A j \in 1 .. i : P(t[j])}

\* The result as a sequence, for operators that are sequences themselves.
SequenceMeaning(p, t) ==
  LET n == p.n
      u == p.other IN
  CASE p.op \in {"where", "ofType"} -> Pick(t, Holds)
    [] p.op = "select" -> Numbers(t)
    [] p.op = "selectMany" -> FlattenSeq(Each1(t, Inner))
    [] p.op = "choose" -> Numbers(Pick(t, Holds))
    [] p.op = "tap" -> t
    [] p.op = "scan" -> [i \in D(t) |-> Twice(Numbers(Part(t, 1, i)))]
    [] p.op = "cast" -> LET good == Prefix(t, Holds) IN
         At(t, good) \o IF good = D(t) THEN <<>> ELSE <<wrongType>>
    [] p.op = "takeWhile" -> At(t, Prefix(t, Holds))
    [] p.op = "skipWhile" -> At(t, D(t) \ Prefix(t, Holds))
    [] p.op = "take" -> At(t, {i \in D(t) : i <= n})
    [] p.op = "skip" -> At(t, {i \in D(t) : i > n})
    [] p.op = "defaultIfEmpty" -> IF t = <<>> THEN <<n>> ELSE t
    [] p.op = "takeLast" -> At(t, {i \in D(t) : i > Len(t) - n})
    [] p.op = "skipLast" -> At(t, {i \in D(t) : i <= Len(t) - n})
    [] p.op = "chunk" ->
         [i \in UpTo((Len(t) + n - 1) \div n) |-> Part(t, (i - 1) * n + 1, i * n)]
    [] p.op = "windowed" -> [i \in UpTo(Len(t) - n + 1) |-> Part(t, i, i + n - 1)]
    [] p.op = "pairwise" -> [i \in UpTo(Len(t) - 1) |-> <<t[i], t[i + 1]>>]
    [] p.op = "reverse" -> [i \in D(t) |-> t[Len(t) + 1 - i]]
    [] p.op = "groupAdjacent" -> Runs(t)
    [] p.op = "groupBy" -> Groups(t)
    [] p.op = "distinct" -> At(t, Firsts(t, Self))
    [] p.op = "distinctBy" -> At(t, Firsts(t, Key))
    [] p.op = "except" -> Pick(At(t, Firsts(t, Self)), LAMBDA x : x \notin ToSet(u))
    [] p.op = "exceptBy" -> Pick(At(t, Firsts(t, Key)), LAMBDA x : Key(x) \notin Keys(u))
    [] p.op = "intersect" -> Pick(At(t, Firsts(t, Self)), LAMBDA x : x \in ToSet(u))
    [] p.op = "intersectBy" -> Pick(At(t, Firsts(t, Key)), LAMBDA x : Key(x) \in Keys(u))
    [] p.op = "union" -> At(t \o u, Firsts(t \o u, Self))
    [] p.op = "unionBy" -> At(t \o u, Firsts(t \o u, Key))
    [] p.op = "join" ->
         FlattenSeq(Each1(t, LAMBDA x : Each1(With(u, Key(x)), LAMBDA y : <<x, y>>)))
    [] p.op = "groupJoin" -> Each1(t, LAMBDA x : <<x, With(u, Key(x))>>)
    [] p.op \in {"concat", "append"} -> t \o u
    [] p.op = "prepend" -> u \o t
    [] p.op = "zip" -> [i \in 1 .. Shorter(t, u) |-> <<t[i], u[i]>>]
    [] p.op \in {"topBy", "topByAwait"} -> Part(Ranked(t, Down), 1, n)
    [] p.op = "orderBy" -> Ranked(t, Up)
    [] p.op = "orderByDescending" -> Ranked(t, Down)
    [] p.op = "thenBy" -> Ranked(Ranked(t, NumberUp), Down)
    [] p.op = "thenByDescending" -> Ranked(Ranked(t, NumberDown), Up)

\* The answer, for methods that have one.
AnswerMeaning(p, t) ==
  LET n == p.n
      u == p.other
      found == Found(p, t) IN
  CASE p.op = "first" -> FirstOf(found, nothing)
    [] p.op = "firstOrNull" -> FirstOf(found, null)
    [] p.op = "last" -> FirstOf(Reverse(found), nothing)
    [] p.op = "lastOrNull" -> FirstOf(Reverse(found), null)
    [] p.op = "single" -> OneOf(found, nothing, several)
    [] p.op = "singleOrNull" -> OneOf(found, null, several)
    [] p.op = "elementAt" -> NthOf(t, n, outOfRange)
    [] p.op \in {"elementAtOrNull", "index"} -> NthOf(t, n, null)
    [] p.op = "minBy" -> FirstOf(Ranked(t, Up), nothing)
    [] p.op = "maxBy" -> FirstOf(Ranked(t, Down), nothing)
    [] p.op = "any" -> found # <<>>
    [] p.op = "all" -> \A i \in D(t) : Holds(t[i])
    [] p.op = "contains" -> n \in ToSet(t)
    [] p.op = "sequenceEqual" -> t = u
    [] p.op = "count" -> Len(found)
    [] p.op = "countBy" -> Each1(Groups(t), LAMBDA g : <<g[1], Len(g[2])>>)
    [] p.op = "aggregate" -> Twice(Numbers(t))
    [] p.op = "toArray" -> t
    [] p.op = "toSet" -> ToSet(t)
    [] p.op = "toLookup" -> Groups(t)
    [] p.op = "toMap" -> IF \E i, j \in D(t) : i # j /\ Key(t[i]) = Key(t[j])
                         THEN duplicate ELSE Each1(t, LAMBDA x : <<Key(x), x>>)
    [] p.op = "forEach" -> [i \in D(t) |-> <<t[i], i - 1>>]
    [] p.op = "partition" -> <<Pick(t, Holds), Pick(t, LAMBDA x : ~Holds(x))>>
    [] p.op = "sum" -> Total(Numbers(t))
    [] p.op = "average" -> IF t = <<>> THEN nothing ELSE <<Total(Numbers(t)), Len(t)>>
    [] p.op = "min" -> FirstOf(Ordered(t), nothing)
    [] p.op = "max" -> FirstOf(Reverse(Ordered(t)), nothing)
    [] p.op = "median" -> IF t = <<>> THEN nothing
         ELSE Ordered(t)[(Len(t) + 1) \div 2] + Ordered(t)[Len(t) \div 2 + 1]
    [] p.op = "percentile" -> IF t = <<>> THEN nothing ELSE Between(Ordered(t), (Len(t) - 1) * n)
    [] p.op = "standardDeviation" ->
         IF t = <<>> THEN nothing ELSE <<Deviations(t), Len(t) * Len(t)>>
    [] p.op = "sampleStandardDeviation" ->
         IF t = <<>> THEN nothing ELSE IF Len(t) = 1 THEN tooFew
         ELSE <<Deviations(t), Len(t) * (Len(t) - 1)>>

\* Methods that answer.
Answering ==
  {"first", "firstOrNull", "last", "lastOrNull", "single", "singleOrNull", "elementAt",
   "elementAtOrNull", "index", "minBy", "maxBy", "any", "all", "contains",
   "sequenceEqual", "count", "countBy", "aggregate", "toArray", "toSet", "toLookup",
   "toMap", "forEach", "partition", "sum", "average", "min", "max", "median",
   "percentile", "standardDeviation", "sampleStandardDeviation"}

\* There are no pieces of no elements, and no percentile beyond a whole.
Senseless(p) ==
  \/ p.op \in {"chunk", "windowed"} /\ p.n <= 0
  \/ p.op = "percentile" /\ (p.n < 0 \/ 100 < p.n)

Meaning(p, t) ==
  IF Senseless(p) THEN <<outOfRange>>
  ELSE IF p.op \in Answering THEN <<AnswerMeaning(p, t)>> ELSE SequenceMeaning(p, t)
=============================================================================

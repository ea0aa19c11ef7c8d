--------------------------- MODULE SequenceProofs ---------------------------
(***************************************************************************)
(* For any number of traversals of a memoized sequence, over a source that *)
(* changes and fails: they are given the same.  For any pipeline, source   *)
(* and callbacks: a method of an asynchronous sequence hears that its      *)
(* signal was aborted.                                                     *)
(***************************************************************************)
EXTENDS MCSequences, SequenceTheorems, TLAPS

-----------------------------------------------------------------------------
(* Memoized sequences.                                                     *)

\* A list of elements, one that is no longer than it may be, and one with which
\* another begins.
IsList(list) == list \in Seq(Items) /\ Len(list) <= MaxItems
Begins(list, whole) ==
  Len(list) <= Len(whole) /\ \A i \in 1 .. Len(list) : list[i] = whole[i]

\* What was read is no longer than the array may be, each traversal was given the
\* beginning of it, and those that ended all of it; nothing is read after an end.
MemoInv ==
  /\ IsList(array) /\ IsList(cache)
  /\ iterator \in {"unopened", "open", "spent"} /\ exhausted \in BOOLEAN
  /\ yielded \in [Traversers -> Seq(Items)]
  /\ told \in [Traversers -> {"reading", "ended", "failed"}]
  /\ \A t \in Traversers :
       /\ Begins(yielded[t], cache)
       /\ told[t] = "ended" => Len(yielded[t]) = Len(cache) /\ exhausted

LEMMA Lists ==
  ASSUME MaxItems \in Nat, NEW list
  PROVE  list \in Memo!BoundedSeq(Items, MaxItems) <=> IsList(list)
<1>1. ASSUME list \in Memo!BoundedSeq(Items, MaxItems) PROVE IsList(list)
  <2>1. PICK n \in 0 .. MaxItems : list \in [1 .. n -> Items]
    BY <1>1 DEF Memo!BoundedSeq, Memo!SeqOf
  <2>2. n \in Nat /\ n <= MaxItems
    BY <2>1
  <2> QED BY <2>1, <2>2 DEF IsList
<1>2. ASSUME IsList(list) PROVE list \in Memo!BoundedSeq(Items, MaxItems)
  <2>1. Len(list) \in 0 .. MaxItems /\ list \in [1 .. Len(list) -> Items]
    BY <1>2 DEF IsList
  <2> QED BY <2>1 DEF Memo!BoundedSeq, Memo!SeqOf
<1> QED BY <1>1, <1>2

LEMMA Beginnings ==
  ASSUME NEW list \in Seq(Items), NEW whole \in Seq(Items), Begins(list, whole)
  PROVE  /\ Memo!IsPrefix(list, whole)
         /\ Len(list) = Len(whole) => list = whole
<1>1. Len(list) \in Nat /\ Len(whole) \in Nat /\ Len(list) <= Len(whole)
  BY DEF Begins
<1>2. SubSeq(list, 1, Len(list)) = SubSeq(whole, 1, Len(list))
  BY <1>1 DEF Begins
<1>3. Len(list) = Len(whole) => list = whole
  BY <1>1 DEF Begins
<1> QED BY <1>1, <1>2, <1>3 DEF Memo!IsPrefix

LEMMA MemoStarts == ASSUME Memo!MemoizedAssumption, Memo!Init PROVE MemoInv
<1>1. IsList(array)
  BY Lists DEF Memo!Init, Memo!MemoizedAssumption
<1>2. IsList(<<>>) /\ Begins(<<>>, <<>>) /\ <<>> \in Seq(Items)
  BY DEF IsList, Begins, Memo!MemoizedAssumption
<1> QED BY <1>1, <1>2 DEF Memo!Init, MemoInv

\* An element that was read, or is now, is given to one traversal.
LEMMA GivenOne ==
  ASSUME MemoInv, NEW t \in Traversers, NEW item \in Items, IsList(cache'),
         Begins(cache, cache'), Len(yielded[t]) < Len(cache'), cache'[Len(yielded[t]) + 1] = item,
         yielded' = [yielded EXCEPT ![t] = Append(@, item)], told' = told, told[t] = "reading",
         exhausted' = exhausted, exhausted => cache' = cache,
         iterator' \in {"unopened", "open", "spent"}, array' = array
  PROVE  MemoInv'
<1>1. yielded[t] \in Seq(Items) /\ Append(yielded[t], item) \in Seq(Items)
      /\ Len(Append(yielded[t], item)) = Len(yielded[t]) + 1
  BY DEF MemoInv
<1>2. /\ yielded' \in [Traversers -> Seq(Items)]
      /\ yielded'[t] = Append(yielded[t], item)
      /\ \A u \in Traversers \ {t} : yielded'[u] = yielded[u]
  BY <1>1 DEF MemoInv
<1>3. ASSUME NEW u \in Traversers
      PROVE  /\ Begins(yielded'[u], cache')
             /\ told'[u] = "ended" => Len(yielded'[u]) = Len(cache') /\ exhausted'
  <2>1. /\ yielded[u] \in Seq(Items) /\ Begins(yielded[u], cache)
        /\ cache \in Seq(Items) /\ cache' \in Seq(Items)
        /\ told[u] = "ended" => Len(yielded[u]) = Len(cache) /\ exhausted
    BY DEF MemoInv, IsList
  <2>2. Begins(yielded[u], cache')
    BY <2>1 DEF Begins
  <2>3. CASE u # t
    BY <1>2, <2>1, <2>2, <2>3
  <2>4. CASE u = t
    <3>1. Begins(Append(yielded[t], item), cache')
      BY <1>1, <2>1, <2>2, <2>4 DEF Begins
    <3> QED BY <1>2, <2>4, <3>1
  <2> QED BY <2>3, <2>4
<1> QED BY <1>2, <1>3 DEF MemoInv

\* One traversal is told how it ended, and it has been given all that was read.
LEMMA ToldOne ==
  ASSUME MemoInv, NEW t \in Traversers, NEW how \in {"ended", "failed"},
         told' = [told EXCEPT ![t] = how], yielded' = yielded, cache' = cache, array' = array,
         iterator' \in {"unopened", "open", "spent"}, exhausted' \in BOOLEAN,
         exhausted => exhausted',
         how = "ended" => exhausted' /\ Len(yielded[t]) = Len(cache)
  PROVE  MemoInv'
<1>1. /\ told' \in [Traversers -> {"reading", "ended", "failed"}]
      /\ told'[t] = how /\ \A u \in Traversers \ {t} : told'[u] = told[u]
  BY DEF MemoInv
<1> QED BY <1>1 DEF MemoInv, IsList, Begins

LEMMA MemoResumes ==
  ASSUME Memo!MemoizedAssumption, MemoInv, NEW t \in Traversers, Memo!Resume(t) PROVE MemoInv'
<1>1. /\ yielded[t] \in Seq(Items) /\ cache \in Seq(Items) /\ array \in Seq(Items)
      /\ Len(yielded[t]) \in Nat /\ Len(cache) \in Nat /\ Len(array) \in Nat
      /\ Len(yielded[t]) <= Len(cache) /\ Len(cache) <= MaxItems /\ Len(array) <= MaxItems
  BY DEF MemoInv, IsList, Begins
<1>2. told[t] = "reading" /\ array' = array
  BY DEF Memo!Resume
<1>3. CASE Len(yielded[t]) < Len(cache)
  <2> DEFINE item == cache[Len(yielded[t]) + 1]
  <2>1. /\ yielded' = [yielded EXCEPT ![t] = Append(@, item)]
        /\ UNCHANGED <<told, cache, iterator, exhausted>>
    BY <1>3 DEF Memo!Resume, Memo!Cached, Memo!Give
  <2>2. item \in Items
    BY <1>1, <1>3
  <2>3. Begins(cache, cache') /\ IsList(cache') /\ iterator' \in {"unopened", "open", "spent"}
    BY <1>1, <2>1 DEF Begins, IsList, MemoInv
  <2> HIDE DEF item
  <2>4. cache'[Len(yielded[t]) + 1] = item /\ Len(yielded[t]) < Len(cache')
    BY <1>3, <2>1 DEF item
  <2> QED BY <1>2, <2>1, <2>2, <2>3, <2>4, GivenOne
<1>4. CASE ~(Len(yielded[t]) < Len(cache)) /\ exhausted
  <2>1. /\ told' = [told EXCEPT ![t] = "ended"]
        /\ UNCHANGED <<yielded, cache, iterator, exhausted>>
    BY <1>4 DEF Memo!Resume, Memo!Cached, Memo!Tell
  <2>2. Len(yielded[t]) = Len(cache)
    BY <1>1, <1>4
  <2>3. iterator' \in {"unopened", "open", "spent"} /\ exhausted' \in BOOLEAN
    BY <2>1 DEF MemoInv
  <2> QED BY <1>2, <1>4, <2>1, <2>2, <2>3, ToldOne
<1>5. CASE ~(Len(yielded[t]) < Len(cache)) /\ ~exhausted
  <2>1. Memo!Advance(t)
    BY <1>5 DEF Memo!Resume, Memo!Cached
  <2>2. Len(yielded[t]) = Len(cache)
    BY <1>1, <1>5
  <2>3. CASE iterator = "spent" \/ Len(cache) >= Len(array)
    <3>1. /\ exhausted' = TRUE /\ iterator' = "spent"
          /\ told' = [told EXCEPT ![t] = "ended"] /\ UNCHANGED <<yielded, cache>>
      BY <2>1, <2>3 DEF Memo!Advance, Memo!Tell
    <3> QED BY <1>2, <2>2, <3>1, ToldOne
  <2>4. CASE ~(iterator = "spent" \/ Len(cache) >= Len(array))
    <3> DEFINE item == array[Len(cache) + 1]
    <3>1. IF item \in Failing
          THEN /\ iterator' = "spent" /\ told' = [told EXCEPT ![t] = "failed"]
               /\ UNCHANGED <<yielded, cache, exhausted>>
          ELSE /\ iterator' = "open" /\ cache' = Append(cache, item)
               /\ yielded' = [yielded EXCEPT ![t] = Append(@, item)]
               /\ UNCHANGED <<told, exhausted>>
      BY <2>1, <2>4 DEF Memo!Advance, Memo!Tell, Memo!Give
    <3>2. item \in Items /\ Len(cache) < Len(array)
      BY <1>1, <2>4
    <3> HIDE DEF item
    <3>3. CASE item \in Failing
      <4>1. exhausted' \in BOOLEAN
        BY <3>1, <3>3 DEF MemoInv
      <4> QED BY <1>2, <3>1, <3>3, <4>1, ToldOne
    <3>4. CASE item \notin Failing
      <4>1. /\ cache' \in Seq(Items) /\ Len(cache') = Len(cache) + 1
            /\ cache'[Len(cache) + 1] = item
            /\ \A i \in 1 .. Len(cache) : cache'[i] = cache[i]
        <5>1. cache' = Append(cache, item)
          BY <3>1, <3>4
        <5> QED BY <1>1, <3>2, <5>1
      <4>2. IsList(cache') /\ Begins(cache, cache') /\ Len(yielded[t]) < Len(cache')
            /\ cache'[Len(yielded[t]) + 1] = item
        BY <1>1, <2>2, <3>2, <4>1 DEF IsList, Begins, Memo!MemoizedAssumption
      <4> QED BY <1>2, <1>5, <3>1, <3>2, <3>4, <4>2, GivenOne
    <3> QED BY <3>3, <3>4
  <2> QED BY <2>3, <2>4
<1> QED BY <1>3, <1>4, <1>5

LEMMA MemoStep ==
  ASSUME Memo!MemoizedAssumption, MemoInv, [Memo!Next]_(Memo!vars) PROVE MemoInv'
<1>1. ASSUME NEW t \in Traversers, Memo!Resume(t) PROVE MemoInv'
  BY <1>1, MemoResumes
<1>2. ASSUME IsList(array'), UNCHANGED <<cache, iterator, exhausted, yielded, told>>
      PROVE  MemoInv'
  BY <1>2 DEF MemoInv, IsList, Begins
<1>3. ASSUME NEW item \in Items, Memo!Push(item) PROVE MemoInv'
  <2>1. IsList(array')
    BY <1>3 DEF Memo!Push, MemoInv, IsList, Memo!MemoizedAssumption
  <2> QED BY <1>2, <1>3, <2>1 DEF Memo!Push
<1>4. ASSUME Memo!Pop PROVE MemoInv'
  <2>1. array \in Seq(Items) /\ Len(array) \in Nat /\ Len(array) <= MaxItems /\ array # <<>>
        /\ array' = SubSeq(array, 1, Len(array) - 1)
    BY <1>4 DEF Memo!Pop, Memo!Front, MemoInv, IsList
  <2>2. Len(array) >= 1
    BY <2>1
  <2>3. array' \in Seq(Items) /\ Len(array') = Len(array) - 1
    <3> DEFINE n == Len(array) - 1
    <3>1. n \in 0 .. Len(array)
      BY <2>1, <2>2
    <3>2. SubSeq(array, 1, n) \in Seq(Items) /\ Len(SubSeq(array, 1, n)) = n
      <4> HIDE DEF n
      <4>1. array \in Seq(Items) /\ n \in 0 .. Len(array)
        BY <2>1, <3>1
      <4> QED BY <4>1, SubSeqProperties
    <3> QED BY <2>1, <3>2
  <2>4. IsList(array')
    BY <2>1, <2>3 DEF IsList, Memo!MemoizedAssumption
  <2> QED BY <1>2, <1>4, <2>4 DEF Memo!Pop
<1>5. CASE UNCHANGED Memo!vars
  BY <1>5 DEF Memo!vars, MemoInv, IsList, Begins
<1> QED BY <1>1, <1>3, <1>4, <1>5 DEF Memo!Next

LEMMA MemoInvSuffices ==
  ASSUME Memo!MemoizedAssumption, MemoInv PROVE Memo!TypeOK /\ Memo!RepeatsTheSame
<1>1. ASSUME NEW t \in Traversers
      PROVE  /\ IsList(yielded[t]) /\ Memo!IsPrefix(yielded[t], cache)
             /\ told[t] = "ended" => yielded[t] = cache /\ exhausted
  <2>1. /\ yielded[t] \in Seq(Items) /\ cache \in Seq(Items) /\ Begins(yielded[t], cache)
        /\ Len(cache) <= MaxItems
    BY DEF MemoInv, IsList
  <2>2. Len(yielded[t]) <= MaxItems
    BY <2>1 DEF Begins, Memo!MemoizedAssumption
  <2> QED BY <2>1, <2>2, Beginnings DEF IsList, MemoInv
<1>2. yielded \in [Traversers -> Memo!BoundedSeq(Items, MaxItems)]
  <2>1. \A t \in Traversers : yielded[t] \in Memo!BoundedSeq(Items, MaxItems)
    BY <1>1, Lists DEF Memo!MemoizedAssumption
  <2> QED BY <2>1 DEF MemoInv
<1>3. array \in Memo!BoundedSeq(Items, MaxItems) /\ cache \in Memo!BoundedSeq(Items, MaxItems)
  BY Lists DEF MemoInv, Memo!MemoizedAssumption
<1> QED BY <1>1, <1>2, <1>3 DEF Memo!TypeOK, Memo!RepeatsTheSame, MemoInv

\* Traversals of a memoized sequence that take turns, however many, are given the
\* same elements, and those that were told of the end as many, though the source is
\* changed and fails meanwhile (memoize of collections/sequence).
THEOREM RepeatsTheSameHolds ==
  Memo!MemoizedAssumption => (MCSpec => []RepeatsTheSame)
<1> SUFFICES ASSUME Memo!MemoizedAssumption
    PROVE  MCSpec => []RepeatsTheSame
  OBVIOUS
<1>1. MCInit => MemoInv
  <2>1. NothingMemoized => MemoInv
    <3> SUFFICES ASSUME NothingMemoized PROVE MemoInv
      OBVIOUS
    <3>1. IsList(<<>>) /\ Begins(<<>>, <<>>) /\ <<>> \in Seq(Items)
      BY DEF IsList, Begins, Memo!MemoizedAssumption
    <3> QED BY <3>1 DEF NothingMemoized, MemoInv
  <2> QED BY <2>1, MemoStarts DEF MCInit
<1>2. MemoInv /\ [MCNext]_<<kind, vars, memoVars>> => MemoInv'
  <2>1. memoVars = Memo!vars
    BY DEF memoVars, Memo!vars
  <2> QED BY <2>1, MemoStep DEF MCNext, memoVars, Memo!vars
<1>3. MemoInv => RepeatsTheSame
  BY MemoInvSuffices DEF RepeatsTheSame
<1> QED BY <1>1, <1>2, <1>3, PTL DEF MCSpec

-----------------------------------------------------------------------------
\* A stage that is through, with something yet to yield or not, and one that goes
\* on and has nothing to yield.
Through(r) == "out" \in DOMAIN r /\ r.stop = TRUE
GoesOn(r) == r.stop = FALSE /\ r.out = <<>>
AnswersOnce(r) == Through(r) \/ GoesOn(r)

LEMMA AnswersAreThrough == ASSUME NEW x PROVE Through(Async!Sync!Answer(x))
BY DEF Through, Async!Sync!Answer, Async!Sync!Done

LEMMA OnGoesOn == ASSUME NEW t PROVE GoesOn(Async!Sync!On(t, <<>>))
BY DEF GoesOn, Async!Sync!On

LEMMA CollectsOnce ==
  ASSUME NEW e, NEW t, NEW answer PROVE AnswersOnce(Async!Sync!Collect(e, t, answer))
<1>1. CASE e = <<>>
  <2>1. Async!Sync!Collect(e, t, answer) = Async!Sync!Answer(answer)
    BY <1>1, Zenon DEF Async!Sync!Collect
  <2> QED BY <2>1, AnswersAreThrough, Zenon DEF AnswersOnce
<1>2. CASE e # <<>>
  <2>1. Async!Sync!Collect(e, t, answer) = Async!Sync!On(t, <<>>)
    BY <1>2, Zenon DEF Async!Sync!Collect
  <2> QED BY <2>1, OnGoesOn, Zenon DEF AnswersOnce
<1> QED BY <1>1, <1>2

\* Whatever a method that answers is given, it goes on, or is through with its answer.
LEMMA MethodsAnswerOnce ==
  ASSUME NEW p, NEW s, NEW e, p.op \in Answering, p.op \notin OfSequencesOnly
  PROVE  AnswersOnce(Async!Step(p, s, e))
<1>1. CASE p.op = "toArray"
  <2>1. Async!Step(p, s, e) = Async!toArray(p, s, e)
    BY <1>1, Zenon DEF Async!Step
  <2> QED BY <2>1, CollectsOnce, AnswersAreThrough, OnGoesOn, Zenon DEF AnswersOnce, Async!toArray, Async!Sync!toArray
<1>2. CASE p.op = "toSet"
  <2>1. Async!Step(p, s, e) = Async!toSet(p, s, e)
    BY <1>2, Zenon DEF Async!Step
  <2> QED BY <2>1, CollectsOnce, AnswersAreThrough, OnGoesOn, Zenon DEF AnswersOnce, Async!toSet, Async!Sync!toSet
<1>3. CASE p.op = "toLookup"
  <2>1. Async!Step(p, s, e) = Async!toLookup(p, s, e)
    BY <1>3, Zenon DEF Async!Step
  <2> QED BY <2>1, CollectsOnce, AnswersAreThrough, OnGoesOn, Zenon DEF AnswersOnce, Async!toLookup, Async!Sync!toLookup
<1>4. CASE p.op = "countBy"
  <2>1. Async!Step(p, s, e) = Async!countBy(p, s, e)
    BY <1>4, Zenon DEF Async!Step
  <2> QED BY <2>1, CollectsOnce, AnswersAreThrough, OnGoesOn, Zenon DEF AnswersOnce, Async!countBy, Async!Sync!countBy
<1>5. CASE p.op = "last"
  <2>1. Async!Step(p, s, e) = Async!last(p, s, e)
    BY <1>5, Zenon DEF Async!Step
  <2> QED BY <2>1, CollectsOnce, AnswersAreThrough, OnGoesOn, Zenon DEF AnswersOnce, Async!last, Async!Sync!last
<1>6. CASE p.op = "lastOrNull"
  <2>1. Async!Step(p, s, e) = Async!lastOrNull(p, s, e)
    BY <1>6, Zenon DEF Async!Step
  <2> QED BY <2>1, CollectsOnce, AnswersAreThrough, OnGoesOn, Zenon DEF AnswersOnce, Async!lastOrNull, Async!Sync!lastOrNull
<1>7. CASE p.op = "minBy"
  <2>1. Async!Step(p, s, e) = Async!minBy(p, s, e)
    BY <1>7, Zenon DEF Async!Step
  <2> QED BY <2>1, CollectsOnce, AnswersAreThrough, OnGoesOn, Zenon DEF AnswersOnce, Async!minBy, Async!Sync!minBy, Async!Sync!Better, Async!Sync!Up
<1>8. CASE p.op = "maxBy"
  <2>1. Async!Step(p, s, e) = Async!maxBy(p, s, e)
    BY <1>8, Zenon DEF Async!Step
  <2> QED BY <2>1, CollectsOnce, AnswersAreThrough, OnGoesOn, Zenon DEF AnswersOnce, Async!maxBy, Async!Sync!maxBy, Async!Sync!Better, Async!Sync!Down
<1>9. CASE p.op = "min"
  <2>1. Async!Step(p, s, e) = Async!min(p, s, e)
    BY <1>9, Zenon DEF Async!Step
  <2> QED BY <2>1, CollectsOnce, AnswersAreThrough, OnGoesOn, Zenon DEF AnswersOnce, Async!min, Async!Sync!min, Async!Sync!Extreme
<1>10. CASE p.op = "max"
  <2>1. Async!Step(p, s, e) = Async!max(p, s, e)
    BY <1>10, Zenon DEF Async!Step
  <2> QED BY <2>1, CollectsOnce, AnswersAreThrough, OnGoesOn, Zenon DEF AnswersOnce, Async!max, Async!Sync!max, Async!Sync!Extreme
<1>11. CASE p.op = "count"
  <2>1. Async!Step(p, s, e) = Async!count(p, s, e)
    BY <1>11, Zenon DEF Async!Step
  <2> QED BY <2>1, CollectsOnce, AnswersAreThrough, OnGoesOn, Zenon DEF AnswersOnce, Async!count, Async!Sync!count
<1>12. CASE p.op = "aggregate"
  <2>1. Async!Step(p, s, e) = Async!aggregate(p, s, e)
    BY <1>12, Zenon DEF Async!Step
  <2> QED BY <2>1, CollectsOnce, AnswersAreThrough, OnGoesOn, Zenon DEF AnswersOnce, Async!aggregate, Async!Sync!aggregate
<1>13. CASE p.op = "forEach"
  <2>1. Async!Step(p, s, e) = Async!forEach(p, s, e)
    BY <1>13, Zenon DEF Async!Step
  <2> QED BY <2>1, CollectsOnce, AnswersAreThrough, OnGoesOn, Zenon DEF AnswersOnce, Async!forEach, Async!Sync!forEach
<1>14. CASE p.op = "sum"
  <2>1. Async!Step(p, s, e) = Async!sum(p, s, e)
    BY <1>14, Zenon DEF Async!Step
  <2> QED BY <2>1, CollectsOnce, AnswersAreThrough, OnGoesOn, Zenon DEF AnswersOnce, Async!sum, Async!Sync!sum
<1>15. CASE p.op = "average"
  <2>1. Async!Step(p, s, e) = Async!average(p, s, e)
    BY <1>15, Zenon DEF Async!Step
  <2> QED BY <2>1, CollectsOnce, AnswersAreThrough, OnGoesOn, Zenon DEF AnswersOnce, Async!average, Async!Sync!average
<1>16. CASE p.op = "all"
  <2>1. Async!Step(p, s, e) = Async!all(p, s, e)
    BY <1>16, Zenon DEF Async!Step
  <2> QED BY <2>1, CollectsOnce, AnswersAreThrough, OnGoesOn, Zenon DEF AnswersOnce, Async!all, Async!Sync!all
<1>17. CASE p.op = "contains"
  <2>1. Async!Step(p, s, e) = Async!contains(p, s, e)
    BY <1>17, Zenon DEF Async!Step
  <2> QED BY <2>1, CollectsOnce, AnswersAreThrough, OnGoesOn, Zenon DEF AnswersOnce, Async!contains, Async!Sync!contains
<1>18. CASE p.op = "toMap"
  <2>1. Async!Step(p, s, e) = Async!toMap(p, s, e)
    BY <1>18, Zenon DEF Async!Step
  <2> QED BY <2>1, CollectsOnce, AnswersAreThrough, OnGoesOn, Zenon DEF AnswersOnce, Async!toMap, Async!Sync!toMap
<1>19. CASE p.op = "sequenceEqual"
  <2>1. Async!Step(p, s, e) = Async!sequenceEqual(p, s, e)
    BY <1>19, Zenon DEF Async!Step
  <2> QED BY <2>1, CollectsOnce, AnswersAreThrough, OnGoesOn, Zenon DEF AnswersOnce, Async!sequenceEqual, Async!Sync!sequenceEqual
<1>20. CASE p.op = "elementAtOrNull"
  <2>1. Async!Step(p, s, e) = Async!elementAtOrNull(p, s, e)
    BY <1>20, Zenon DEF Async!Step
  <2> QED BY <2>1, CollectsOnce, AnswersAreThrough, OnGoesOn, Zenon DEF AnswersOnce, Async!elementAtOrNull, Async!Sync!elementAtOrNull
<1>21. CASE p.op = "any"
  <2>1. Async!Step(p, s, e) = Async!any(p, s, e)
    BY <1>21, Zenon DEF Async!Step
  <2> QED BY <2>1, CollectsOnce, AnswersAreThrough, OnGoesOn, Zenon DEF AnswersOnce, Async!any, Async!Answer
<1>22. CASE p.op = "firstOrNull"
  <2>1. Async!Step(p, s, e) = Async!firstOrNull(p, s, e)
    BY <1>22, Zenon DEF Async!Step
  <2> QED BY <2>1, CollectsOnce, AnswersAreThrough, OnGoesOn, Zenon DEF AnswersOnce, Async!firstOrNull, Async!Answer
<1>23. CASE p.op = "first"
  <2>1. Async!Step(p, s, e) = Async!first(p, s, e)
    BY <1>23, Zenon DEF Async!Step
  <2> QED BY <2>1, CollectsOnce, AnswersAreThrough, OnGoesOn, Zenon DEF AnswersOnce, Async!first, Async!firstOrNull, Async!Answer
<1>24. CASE p.op = "elementAt"
  <2>1. Async!Step(p, s, e) = Async!elementAt(p, s, e)
    BY <1>24, Zenon DEF Async!Step
  <2> QED BY <2>1, CollectsOnce, AnswersAreThrough, OnGoesOn, Zenon DEF AnswersOnce, Async!elementAt, Async!elementAtOrNull, Async!Sync!elementAtOrNull, Async!Answer
<1>25. CASE p.op = "single"
  <2>1. Async!Step(p, s, e) = Async!single(p, s, e)
    BY <1>25, Zenon DEF Async!Step
  <2> QED BY <2>1, CollectsOnce, AnswersAreThrough, OnGoesOn, Zenon DEF AnswersOnce, Async!single, Async!only, Async!Answer, Async!Collect
<1>26. CASE p.op = "singleOrNull"
  <2>1. Async!Step(p, s, e) = Async!singleOrNull(p, s, e)
    BY <1>26, Zenon DEF Async!Step
  <2> QED BY <2>1, CollectsOnce, AnswersAreThrough, OnGoesOn, Zenon DEF AnswersOnce, Async!singleOrNull, Async!only, Async!Answer, Async!Collect
<1>27. CASE p.op = "standardDeviation"
  <2>1. Async!Step(p, s, e) = Async!standardDeviation(p, s, e)
    BY <1>27, Zenon DEF Async!Step
  <2> QED BY <2>1, CollectsOnce, AnswersAreThrough, OnGoesOn, Zenon DEF AnswersOnce, Async!standardDeviation, Async!Deviation, Async!Collect
<1>28. CASE p.op = "sampleStandardDeviation"
  <2>1. Async!Step(p, s, e) = Async!sampleStandardDeviation(p, s, e)
    BY <1>28, Zenon DEF Async!Step
  <2> QED BY <2>1, CollectsOnce, AnswersAreThrough, OnGoesOn, Zenon DEF AnswersOnce, Async!sampleStandardDeviation, Async!Deviation, Async!Collect
<1> QED
  BY <1>1, <1>2, <1>3, <1>4, <1>5, <1>6, <1>7, <1>8, <1>9, <1>10, <1>11, <1>12, <1>13, <1>14, <1>15, <1>16, <1>17, <1>18, <1>19, <1>20, <1>21, <1>22, <1>23, <1>24, <1>25, <1>26, <1>27, <1>28, Zenon DEF Answering, OfSequencesOnly

LEMMA MethodsOpen ==
  ASSUME NEW p, p.op \in Answering, p.op \notin OfSequencesOnly
  PROVE  AnswersOnce(Async!Opening(p))
<1>1. p.op \notin {"take", "takeLast", "topBy", "topByAwait", "prepend"}
  BY DEF Answering
<1>2. AnswersOnce(Async!Sync!Opening(p))
  BY <1>1, AnswersAreThrough, OnGoesOn, Zenon DEF AnswersOnce, Async!Sync!Opening
<1>3. ASSUME NEW t PROVE AnswersOnce(Async!On(t, <<>>))
  BY OnGoesOn, Zenon DEF AnswersOnce, Async!On
<1>4. CASE p.op \in {"standardDeviation", "sampleStandardDeviation"}
  BY <1>3, <1>4, Zenon DEF Async!Opening
<1>5. CASE p.op \notin {"standardDeviation", "sampleStandardDeviation"}
  <2>1. p.op # "topByAwait"
    BY <1>1
  <2>2. Async!Opening(p) = Async!Sync!Opening(p)
    BY <1>5, <2>1, Zenon DEF Async!Opening
  <2> QED BY <1>2, <2>2, Zenon
<1> QED BY <1>4, <1>5

-----------------------------------------------------------------------------

\* The last operator, and whether it is a method that answers.
method == Len(pipeline)
IsMethod == traversal.async /\ Answers(pipeline[method])

IsSequence(t) == \E S : t \in Seq(S)

\* What has been given the method since the signal was aborted.
Late == Len(given[method]) - before

\* A method goes on, and nothing of it was seen yet, or is through; it is only then
\* that another stage is asked.
MethodStands ==
  /\ AnswersOnce(stages[method])
  /\ GoesOn(stages[method]) => emitted = <<>> /\ consumer \notin ended
  /\ asking < method => GoesOn(stages[method])

\* What arrived late, one element, made it fail.
Failed ==
  /\ Late = 1 /\ Through(stages[method])
  /\ \/ stages[method].out = <<stopped>> /\ emitted = <<>> /\ consumer \notin ended
     \/ stages[method].out = <<>> /\ emitted = <<stopped>>

Heard ==
  /\ DOMAIN stages = 1 .. method /\ DOMAIN given = 1 .. consumer
  /\ asking \in 0 .. consumer
  /\ pipeline[method].op \notin OfSequencesOnly
  /\ IsSequence(source) /\ \A k \in 1 .. method : IsSequence(given[k])
  /\ MethodStands
  /\ aborted => before \in Nat /\ (Late = 0 \/ Failed)

HearInv ==
  /\ method \in 1 .. 2
  /\ aborted \in BOOLEAN
  /\ aborted => IsMethod
  /\ IsMethod => Heard

LEMMA StagesAre ==
  ASSUME NEW r
  PROVE  /\ Through(r) => r.stop /\ ~ GoesOn(r)
         /\ GoesOn(r) => ~ r.stop /\ r.out = <<>> /\ ~ Through(r)
<1>1. Through(r) => r.stop
  BY DEF Through
<1>2. GoesOn(r) => ~ r.stop /\ r.out = <<>>
  BY DEF GoesOn
<1> QED BY <1>1, <1>2

LEMMA ThroughStays ==
  ASSUME NEW r, Through(r), NEW rest, NEW q, q = [r EXCEPT !.out = rest]
  PROVE  Through(q) /\ q.out = rest
<1>1. "out" \in DOMAIN r /\ r.stop = TRUE
  BY DEF Through
<1>2. DOMAIN q = DOMAIN r
  OBVIOUS
<1>3. q.out = rest /\ q.stop = r.stop
  BY <1>1
<1> QED BY <1>1, <1>2, <1>3 DEF Through

LEMMA OneLonger ==
  ASSUME NEW t, IsSequence(t), NEW x
  PROVE  /\ IsSequence(t \o <<x>>) /\ Len(t \o <<x>>) = Len(t) + 1
         /\ t \o <<>> = t /\ Len(t) \in Nat
<1>1. PICK S : t \in Seq(S)
  BY DEF IsSequence
<1> DEFINE T == S \cup {x}
<1>2. t \in Seq(T) /\ <<x>> \in Seq(T) /\ <<>> \in Seq(T)
  BY <1>1
<1> HIDE DEF T
<1>3. t \o <<x>> \in Seq(T) /\ Len(t \o <<x>>) = Len(t) + 1 /\ t \o <<>> = t /\ Len(t) \in Nat
  BY <1>2
<1> QED BY <1>3 DEF IsSequence

\* The part from one position to the same is an element, or there is none.
LEMMA OneOrNone ==
  ASSUME NEW t, IsSequence(t), NEW m \in Nat \ {0}
  PROVE  Part(t, m, m) = <<>> \/ \E x : Part(t, m, m) = <<x>>
<1>1. PICK S : t \in Seq(S)
  BY DEF IsSequence
<1>2. CASE m > Len(t)
  <2>1. SubSeq(t, m, Len(t)) = <<>>
    BY <1>1, <1>2
  <2>2. Part(t, m, m) = SubSeq(t, m, Len(t))
    BY <1>1, <1>2 DEF Part
  <2> QED BY <2>1, <2>2
<1>3. CASE m <= Len(t)
  <2>1. Part(t, m, m) = SubSeq(t, m, m)
    BY <1>1, <1>3 DEF Part
  <2> DEFINE u == SubSeq(t, m, m)
  <2>2. u \in Seq(S) /\ Len(u) = 1
    <3>1. m \in 1 .. (Len(t) + 1) /\ m \in (m - 1) .. Len(t)
      BY <1>1, <1>3
    <3> QED BY <1>1, <3>1, SubSeqProperties
  <2> HIDE DEF u
  <2>3. u = <<u[1]>>
    BY <2>2
  <2> QED BY <2>1, <2>3 DEF u
<1> QED BY <1>1, <1>2, <1>3

\* What is longer by an element or none is a sequence still.
LEMMA GrowsByOne ==
  ASSUME NEW t, IsSequence(t), NEW e, e = <<>> \/ \E x : e = <<x>>
  PROVE  /\ IsSequence(t \o e) /\ Len(t) \in Nat
         /\ e = <<>> => t \o e = t
         /\ e # <<>> => Len(t \o e) = Len(t) + 1
<1>1. t \o <<>> = t /\ Len(t) \in Nat
  BY OneLonger
<1>2. ASSUME NEW x, e = <<x>> PROVE IsSequence(t \o e) /\ Len(t \o e) = Len(t) + 1 /\ e # <<>>
  BY <1>2, OneLonger
<1> QED BY <1>1, <1>2

\* What a method has yet to yield, or that it has nothing more.
LEMMA GivesTheConsumer ==
  ASSUME HearInv, IsMethod, Through(stages[method]), NEW e, NEW rest,
         Give(consumer, e, rest),
         \/ /\ stages[method].out # <<>> /\ e = <<Head(stages[method].out)>>
            /\ rest = Tail(stages[method].out)
         \/ stages[method].out = <<>> /\ e = <<>> /\ rest = <<>>
  PROVE  HearInv'
<1>0. Heard /\ consumer = method + 1 /\ method \in 1 .. 2
  BY DEF HearInv, Heard, consumer, method
<1>1. /\ traversal' = traversal /\ aborted' = aborted /\ before' = before
      /\ asking' = method + 1
      /\ given' = [given EXCEPT ![method + 1] = @ \o e]
      /\ ended' = IF e = <<>> THEN ended \cup {method + 1} ELSE ended
  BY <1>0 DEF Give
<1>2. method' = method /\ pipeline' = pipeline /\ consumer' = method + 1 /\ (IsMethod' <=> IsMethod)
  BY <1>0, <1>1 DEF method, IsMethod, pipeline, consumer
<1>3. DOMAIN stages' = 1 .. method /\ stages'[method] = [stages[method] EXCEPT !.out = rest]
  BY <1>0 DEF Give, Heard
<1>4. Through(stages'[method]) /\ stages'[method].out = rest
  <2> DEFINE r == stages[method]
             q == stages'[method]
  <2>1. Through(r) /\ q = [r EXCEPT !.out = rest]
    BY <1>3
  <2> HIDE DEF r, q
  <2>2. Through(q) /\ q.out = rest
    BY <2>1, ThroughStays
  <2> QED BY <2>2 DEF q
<1>5. ~ GoesOn(stages'[method])
  BY <1>4, StagesAre
<1>6. /\ DOMAIN given' = 1 .. (method + 1) /\ given'[method] = given[method]
      /\ given'[method + 1] = given[method + 1] \o e
  BY <1>0, <1>1 DEF Heard
<1>7. MethodStands'
  BY <1>0, <1>1, <1>2, <1>4, <1>5 DEF MethodStands, AnswersOnce
<1>8. ASSUME Failed PROVE Failed'
  <2>1. Late' = 1
    BY <1>1, <1>2, <1>6, <1>8 DEF Failed, Late
  <2>2. CASE stages[method].out = <<stopped>> /\ emitted = <<>>
    <3>1. e = <<stopped>> /\ rest = <<>>
      BY <2>2
    <3>2. given'[method + 1] = <<stopped>>
      BY <1>0, <1>6, <2>2, <3>1 DEF emitted
    <3> QED BY <1>2, <1>4, <2>1, <3>1, <3>2 DEF Failed, emitted
  <2>3. CASE stages[method].out = <<>> /\ emitted = <<stopped>>
    <3>1. e = <<>> /\ rest = <<>>
      BY <2>3
    <3>2. given'[method + 1] = <<stopped>>
      BY <1>0, <1>6, <2>3, <3>1 DEF emitted
    <3> QED BY <1>2, <1>4, <2>1, <3>1, <3>2 DEF Failed, emitted
  <2> QED BY <1>8, <2>2, <2>3 DEF Failed
<1>9. Heard'
  <2>2. source' = source /\ \A k \in 1 .. method : given'[k] = given[k]
    BY <1>0, <1>1 DEF source, Heard
  <2>1. aborted' => before' \in Nat /\ (Late' = 0 \/ Failed')
    BY <1>0, <1>1, <1>2, <1>6, <1>8 DEF Heard, Late
  <2> QED BY <1>0, <1>1, <1>2, <1>3, <1>6, <1>7, <2>1, <2>2 DEF Heard
<1> QED BY <1>1, <1>2, <1>9 DEF HearInv

\* The method looks at the signal before it looks at the element.
LEMMA GivesTheMethod ==
  ASSUME HearInv, IsMethod, GoesOn(stages[method]), NEW e, e = <<>> \/ \E x : e = <<x>>,
         NEW rest, Give(method, e, rest)
  PROVE  HearInv'
<1>0. Heard /\ consumer = method + 1 /\ method \in 1 .. 2
  BY DEF HearInv, Heard, consumer, method
<1>1. /\ traversal' = traversal /\ aborted' = aborted /\ before' = before
      /\ asking' = method
      /\ given' = [given EXCEPT ![method] = @ \o e]
      /\ consumer \notin ended => consumer \notin ended'
  BY <1>0 DEF Give
<1>2. method' = method /\ pipeline' = pipeline /\ consumer' = method + 1 /\ (IsMethod' <=> IsMethod)
  BY <1>0, <1>1 DEF method, IsMethod, pipeline, consumer
<1>3. DOMAIN stages' = 1 .. method /\ stages'[method] = Stepped(method, e)
  BY <1>0 DEF Give, Heard
<1>4. /\ DOMAIN given' = 1 .. (method + 1) /\ given'[method] = given[method] \o e
      /\ given'[method + 1] = given[method + 1]
  BY <1>0, <1>1 DEF Heard
<1>5. emitted = <<>> /\ emitted' = <<>> /\ consumer \notin ended'
  BY <1>0, <1>1, <1>2, <1>4 DEF Heard, MethodStands, emitted
<1>6. AnswersOnce(Stepped(method, e)) /\ (aborted /\ e # <<>> => Stepped(method, e) = Async!Answer(stopped))
  <2> DEFINE p == pipeline[method]
             s == stages[method].state
  <2>1. Stepped(method, e) = Async!StepUnless(p, s, e, TRUE, aborted)
    BY Zenon DEF Stepped, IsMethod, Answers
  <2>2. p.op \in Answering /\ p.op \notin OfSequencesOnly
    BY <1>0 DEF IsMethod, Answers, Heard
  <2>3. AnswersOnce(Async!Step(p, s, e))
    BY <2>2, MethodsAnswerOnce
  <2>4. AnswersOnce(Async!Answer(stopped))
    BY AnswersAreThrough, Zenon DEF AnswersOnce, Async!Answer
  <2>5. Async!StepUnless(p, s, e, TRUE, aborted) =
          IF aborted /\ e # <<>> THEN Async!Answer(stopped) ELSE Async!Step(p, s, e)
    BY Zenon DEF Async!StepUnless, Async!checkAborted
  <2> HIDE DEF p, s
  <2> QED BY <2>1, <2>3, <2>4, <2>5, Zenon
<1>7. MethodStands'
  BY <1>0, <1>1, <1>2, <1>3, <1>5, <1>6 DEF MethodStands
<1>8. IsSequence(given'[method]) /\ (e = <<>> => given'[method] = given[method])
      /\ (e # <<>> => Len(given'[method]) = Len(given[method]) + 1) /\ Len(given[method]) \in Nat
  <2>1. IsSequence(given[method])
    BY <1>0 DEF Heard
  <2> QED BY <1>4, <2>1, GrowsByOne
<1>9. ASSUME aborted PROVE before' \in Nat /\ (Late' = 0 \/ Failed')
  <2>1. before \in Nat /\ Late = 0
    <3>1. ~ Through(stages[method])
      BY StagesAre
    <3> QED BY <1>0, <1>9, <3>1 DEF Heard, Failed
  <2>2. CASE e = <<>>
    BY <1>1, <1>2, <1>8, <2>1, <2>2 DEF Late
  <2>3. CASE e # <<>>
    <3>1. Late' = 1
      BY <1>1, <1>2, <1>8, <2>1, <2>3 DEF Late
    <3>2. Through(stages'[method]) /\ stages'[method].out = <<stopped>>
      <4>1. stages'[method] = Async!Sync!Answer(stopped)
        BY <1>3, <1>6, <1>9, <2>3, Zenon DEF Async!Answer
      <4>2. Async!Sync!Answer(stopped).out = <<stopped>>
        BY DEF Async!Sync!Answer, Async!Sync!Done
      <4> QED BY <4>1, <4>2, AnswersAreThrough
    <3> QED BY <1>0, <1>1, <1>2, <1>5, <2>1, <3>1, <3>2 DEF Failed
  <2> QED BY <2>2, <2>3
<1>10. Heard'
  <2>1. source' = source /\ \A k \in 1 .. method : k # method => given'[k] = given[k]
    BY <1>0, <1>1 DEF source, Heard
  <2>2. \A k \in 1 .. method : IsSequence(given'[k])
    BY <1>0, <1>8, <2>1 DEF Heard
  <2> QED BY <1>0, <1>1, <1>2, <1>3, <1>4, <1>7, <1>9, <2>1, <2>2 DEF Heard
<1> QED BY <1>1, <1>2, <1>10 DEF HearInv

\* What stages before the method give each other is not its business.
LEMMA GivesBefore ==
  ASSUME HearInv, IsMethod, GoesOn(stages[method]), NEW k \in 1 .. (method - 1),
         NEW e, e = <<>> \/ \E x : e = <<x>>, NEW rest, Give(k, e, rest)
  PROVE  HearInv'
<1>0. Heard /\ consumer = method + 1 /\ method \in 1 .. 2
  BY DEF HearInv, Heard, consumer, method
<1>1. /\ traversal' = traversal /\ aborted' = aborted /\ before' = before
      /\ asking' = k
      /\ given' = [given EXCEPT ![k] = @ \o e]
      /\ consumer \notin ended => consumer \notin ended'
  BY <1>0 DEF Give
<1>2. method' = method /\ pipeline' = pipeline /\ consumer' = method + 1 /\ (IsMethod' <=> IsMethod)
  BY <1>0, <1>1 DEF method, IsMethod, pipeline, consumer
<1>3. DOMAIN stages' = 1 .. method /\ stages'[method] = stages[method]
  BY <1>0 DEF Give, Heard
<1>4. /\ DOMAIN given' = 1 .. (method + 1) /\ given'[method] = given[method]
      /\ given'[method + 1] = given[method + 1]
  BY <1>0, <1>1 DEF Heard
<1>5. MethodStands' /\ (aborted => before' \in Nat /\ (Late' = 0 \/ Failed'))
  BY <1>0, <1>1, <1>2, <1>3, <1>4 DEF Heard, MethodStands, emitted, Late, Failed
<1>6. Heard'
  <2>1. source' = source /\ \A j \in 1 .. method : j # k => given'[j] = given[j]
    BY <1>0, <1>1 DEF source, Heard
  <2>2. given'[k] = given[k] \o e /\ IsSequence(given[k])
    BY <1>0, <1>1 DEF Heard
  <2>3. IsSequence(given'[k])
    BY <2>2, GrowsByOne
  <2>4. \A j \in 1 .. method : IsSequence(given'[j])
    BY <1>0, <2>1, <2>3 DEF Heard
  <2> QED BY <1>0, <1>1, <1>2, <1>3, <1>4, <1>5, <2>1, <2>4 DEF Heard
<1> QED BY <1>1, <1>2, <1>6 DEF HearInv

LEMMA HearStep ==
  ASSUME HearInv, [Next]_(vars) PROVE HearInv'
<1>0. method \in 1 .. 2 /\ consumer = method + 1 /\ consumer - 1 = method
  BY DEF HearInv, consumer, method
<1>1. ASSUME UNCHANGED vars PROVE HearInv'
  <2>1. /\ traversal' = traversal /\ stages' = stages /\ asking' = asking /\ given' = given
        /\ ended' = ended /\ aborted' = aborted /\ before' = before
    BY <1>1 DEF vars
  <2> QED
    BY <2>1 DEF HearInv, method, IsMethod, Heard, Late, Failed, MethodStands, pipeline,
                consumer, emitted, source
<1>2. ASSUME ~ IsMethod, Next PROVE HearInv'
  <2>1. traversal' = traversal
    BY <1>2 DEF Next, Ask, Yield, Return, Pull, Read, Abort, Give
  <2>2. ~ Abort
    BY <1>0, <1>2 DEF Abort, IsMethod
  <2>3. aborted' = aborted
    BY <1>2, <2>2 DEF Next, Ask, Yield, Return, Pull, Read, Give
  <2>4. method' = method /\ (IsMethod' <=> IsMethod)
    BY <2>1 DEF method, IsMethod, pipeline
  <2> QED BY <1>2, <2>3, <2>4 DEF HearInv
<1>3. ASSUME IsMethod, Next PROVE HearInv'
  <2>0. Heard /\ asking \in 0 .. (method + 1) /\ MethodStands
    BY <1>0, <1>3 DEF HearInv, Heard
  <2>1. CASE Ask
    <3>1. /\ traversal' = traversal /\ stages' = stages /\ asking' = method /\ given' = given
          /\ ended' = ended /\ aborted' = aborted /\ before' = before
      BY <1>0, <2>1 DEF Ask
    <3>2. method' = method /\ (IsMethod' <=> IsMethod) /\ pipeline' = pipeline
          /\ consumer' = consumer /\ source' = source
      BY <3>1 DEF method, IsMethod, pipeline, consumer, source
    <3>3. MethodStands'
      BY <1>0, <2>0, <3>1, <3>2 DEF MethodStands, emitted
    <3>4. (Late' = Late) /\ (Failed' <=> Failed)
      BY <3>1, <3>2 DEF Late, Failed, emitted
    <3> QED BY <1>0, <2>0, <3>1, <3>2, <3>3, <3>4 DEF HearInv, Heard
  <2>2. ASSUME asking \in 1 .. method, NEW e, e = <<>> \/ \E x : e = <<x>>, NEW rest,
               Give(asking + 1, e, rest),
               \/ /\ stages[asking].out # <<>> /\ e = <<Head(stages[asking].out)>>
                  /\ rest = Tail(stages[asking].out)
               \/ stages[asking].out = <<>> /\ stages[asking].stop /\ e = <<>> /\ rest = <<>>
        PROVE  HearInv'
    <3>1. CASE asking = method
      <4>1. Through(stages[method])
        BY <2>0, <2>2, <3>1, StagesAre DEF MethodStands, AnswersOnce
      <4>2. Give(consumer, e, rest)
        BY <1>0, <2>2, <3>1
      <4>3. \/ /\ stages[method].out # <<>> /\ e = <<Head(stages[method].out)>>
               /\ rest = Tail(stages[method].out)
            \/ stages[method].out = <<>> /\ e = <<>> /\ rest = <<>>
        BY <2>2, <3>1
      <4> QED BY <1>3, <4>1, <4>2, <4>3, GivesTheConsumer
    <3>2. CASE asking < method
      <4>1. GoesOn(stages[method])
        BY <2>0, <3>2 DEF MethodStands
      <4>2. CASE asking + 1 = method
        <5>1. Give(method, e, rest)
          BY <2>2, <4>2
        <5> QED BY <1>3, <2>2, <4>1, <5>1, GivesTheMethod
      <4>3. CASE asking + 1 < method
        <5>1. asking + 1 \in 1 .. (method - 1)
          BY <1>0, <2>2, <4>3
        <5> QED BY <1>3, <2>2, <4>1, <5>1, GivesBefore
      <4> QED BY <1>0, <2>2, <3>2, <4>2, <4>3
    <3> QED BY <1>0, <2>2, <3>1, <3>2
  <2>3. CASE Yield
    <3>1. asking \in 1 .. method
      BY <1>0, <2>3 DEF Yield, asked
    <3> QED BY <2>2, <2>3, <3>1 DEF Yield
  <2>4. CASE Return
    <3>1. asking \in 1 .. method
      BY <1>0, <2>4 DEF Return, asked
    <3> QED BY <2>2, <2>4, <3>1 DEF Return
  <2>5. CASE Pull
    <3>1. /\ traversal' = traversal /\ stages' = stages /\ asking' = asking - 1 /\ given' = given
          /\ ended' = ended /\ aborted' = aborted /\ before' = before
          /\ asking \in 1 .. method /\ ~ stages[asking].stop
      BY <1>0, <2>5 DEF Pull, asked
    <3>2. method' = method /\ (IsMethod' <=> IsMethod) /\ pipeline' = pipeline
          /\ consumer' = consumer /\ source' = source
      BY <3>1 DEF method, IsMethod, pipeline, consumer, source
    <3>3. GoesOn(stages[method])
      <4>1. CASE asking = method
        BY <2>0, <3>1, <4>1, StagesAre DEF MethodStands, AnswersOnce
      <4>2. CASE asking < method
        BY <2>0, <4>2 DEF MethodStands
      <4> QED BY <1>0, <3>1, <4>1, <4>2
    <3>4. MethodStands'
      BY <1>0, <2>0, <3>1, <3>2, <3>3 DEF MethodStands, emitted
    <3>5. (Late' = Late) /\ (Failed' <=> Failed)
      BY <3>1, <3>2 DEF Late, Failed, emitted
    <3> QED BY <1>0, <2>0, <3>1, <3>2, <3>4, <3>5 DEF HearInv, Heard
  <2>6. CASE Read
    <3> DEFINE m == Len(given[1]) + 1
               e == Part(source, m, m)
    <3>1. asking = 0 /\ Give(1, e, <<>>)
      BY <2>6 DEF Read
    <3>2. e = <<>> \/ \E x : e = <<x>>
      <4>1. IsSequence(source) /\ IsSequence(given[1])
        BY <1>0, <2>0 DEF Heard
      <4>2. m \in Nat \ {0}
        BY <4>1, OneLonger
      <4> HIDE DEF m
      <4> QED BY <4>1, <4>2, OneOrNone
    <3>3. GoesOn(stages[method])
      BY <1>0, <2>0, <3>1 DEF MethodStands
    <3> HIDE DEF e
    <3>4. CASE method = 1
      <4>1. Give(method, e, <<>>)
        BY <3>1, <3>4
      <4> QED BY <1>3, <3>2, <3>3, <4>1, GivesTheMethod
    <3>5. CASE method = 2
      <4>1. 1 \in 1 .. (method - 1)
        BY <3>5
      <4> QED BY <1>3, <3>1, <3>2, <3>3, <4>1, GivesBefore
    <3> QED BY <1>0, <3>4, <3>5
  <2>7. CASE Abort
    <3>1. /\ traversal' = traversal /\ stages' = stages /\ asking' = asking /\ given' = given
          /\ ended' = ended /\ aborted' = TRUE /\ before' = Len(given[method])
      BY <1>0, <2>7 DEF Abort
    <3>2. method' = method /\ (IsMethod' <=> IsMethod) /\ pipeline' = pipeline
          /\ consumer' = consumer /\ source' = source
      BY <3>1 DEF method, IsMethod, pipeline, consumer, source
    <3>3. MethodStands'
      BY <1>0, <2>0, <3>1, <3>2 DEF MethodStands, emitted
    <3>4. Late' = 0 /\ before' \in Nat
      <4>1. IsSequence(given[method])
        BY <1>0, <2>0 DEF Heard
      <4>2. Len(given[method]) \in Nat
        BY <4>1, OneLonger
      <4> QED BY <3>1, <3>2, <4>2 DEF Late
    <3> QED BY <1>0, <1>3, <2>0, <3>1, <3>2, <3>3, <3>4 DEF HearInv, Heard
  <2> QED BY <1>3, <2>1, <2>3, <2>4, <2>5, <2>6, <2>7 DEF Next
<1> QED BY <1>1, <1>2, <1>3

\* Declaring a count leaves the operators as they are, and so does leaving out one
\* that would only sort.
LEMMA OperatorsStay ==
  ASSUME NEW ops, Len(ops) \in 1 .. 2, NEW known,
         \A i \in 1 .. Len(ops) :
           ops[i] = Parameters(ops[i].op, ops[i].n, ops[i].other, ops[i].known)
  PROVE  LET pipe == unordered(Declared(ops, known)) IN
         Len(pipe) \in 1 .. 2 /\ pipe[Len(pipe)].op = ops[Len(ops)].op
<1> DEFINE declared == Declared(ops, known)
           pipe == unordered(declared)
<1>1. ASSUME NEW p, p = Parameters(p.op, p.n, p.other, p.known), NEW k
      PROVE  [p EXCEPT !.known = k].op = p.op
  <2>1. "op" \in DOMAIN p
    BY <1>1 DEF Parameters
  <2> QED BY <2>1
<1>2. CASE Len(ops) = 1
  <2> DEFINE one == [ops[1] EXCEPT !.known = known]
  <2>1. one.op = ops[1].op
    BY <1>1, <1>2
  <2>2. declared = <<one>>
    BY <1>2 DEF Declared
  <2> HIDE DEF one, declared
  <2>3. pipe = <<one>>
    BY <2>2 DEF unordered
  <2> HIDE DEF pipe
  <2>4. Len(pipe) = 1 /\ pipe[Len(pipe)].op = ops[Len(ops)].op
    BY <1>2, <2>1, <2>3
  <2> QED BY <2>4 DEF pipe, declared
<1>3. CASE Len(ops) = 2
  <2> DEFINE one == [ops[1] EXCEPT !.known = known]
             two == [ops[2] EXCEPT !.known = KnownCount(one)]
  <2>1. two.op = ops[2].op
    BY <1>1, <1>3
  <2>2. declared = <<one, two>>
    BY <1>3 DEF Declared
  <2> HIDE DEF one, two, declared
  <2>3. pipe = <<one, two>> \/ pipe = <<two>>
    <3>1. Tail(<<one, two>>) = <<two>>
      OBVIOUS
    <3> QED BY <2>2, <3>1 DEF unordered
  <2> HIDE DEF pipe
  <2>4. Len(pipe) \in 1 .. 2 /\ pipe[Len(pipe)].op = ops[Len(ops)].op
    <3>1. CASE pipe = <<one, two>>
      BY <1>3, <2>1, <3>1
    <3>2. CASE pipe = <<two>>
      BY <1>3, <2>1, <3>2
    <3> QED BY <2>3, <3>1, <3>2
  <2> QED BY <2>4 DEF pipe, declared
<1> QED BY <1>2, <1>3

LEMMA HearStart ==
  ASSUME TraversalAssumption, Init PROVE HearInv
<1>1. PICK q \in Pipelines : \E t \in SourcesOf(q) : \E known :
        /\ traversal = [async |-> q.async, source |-> t, wanted |-> Declared(q.ops, known),
                        pipeline |-> unordered(Declared(q.ops, known))]
  BY DEF Init
<1>2. PICK t \in SourcesOf(q) : \E known :
        /\ traversal = [async |-> q.async, source |-> t, wanted |-> Declared(q.ops, known),
                        pipeline |-> unordered(Declared(q.ops, known))]
  BY <1>1
<1>3. PICK known :
        /\ traversal = [async |-> q.async, source |-> t, wanted |-> Declared(q.ops, known),
                        pipeline |-> unordered(Declared(q.ops, known))]
  BY <1>2
<1>4. /\ Len(q.ops) \in 1 .. 2
      /\ \A i \in 1 .. Len(q.ops) :
           q.ops[i] = Parameters(q.ops[i].op, q.ops[i].n, q.ops[i].other, q.ops[i].known)
      /\ q.async => q.ops[Len(q.ops)].op \notin OfSequencesOnly
      /\ t \in Seq(ToSet(t))
  <2>1. Len(q.ops) \in 1 .. 2 /\ t \in Seq(ToSet(t))
    BY DEF TraversalAssumption
  <2>2. ASSUME NEW i \in 1 .. Len(q.ops)
        PROVE  /\ q.ops[i] = Parameters(q.ops[i].op, q.ops[i].n, q.ops[i].other, q.ops[i].known)
               /\ q.async => q.ops[i].op \notin OfSequencesOnly
    BY Zenon DEF TraversalAssumption
  <2>3. ASSUME NEW n \in 1 .. 2 PROVE n \in 1 .. n
    OBVIOUS
  <2> QED BY <2>1, <2>2, <2>3
<1>5. /\ traversal.async = q.async /\ source = t
      /\ pipeline = unordered(Declared(q.ops, known))
  BY <1>3, Zenon DEF source, pipeline
<1>6. method \in 1 .. 2 /\ pipeline[method].op = q.ops[Len(q.ops)].op
  BY <1>4, <1>5, OperatorsStay DEF method
<1>7. /\ stages = [k \in 1 .. method |->
           IF traversal.async THEN Async!Opening(pipeline[k]) ELSE Opening(pipeline[k])]
      /\ asking = method + 1 /\ given = [k \in 1 .. (method + 1) |-> <<>>] /\ ended = {}
      /\ aborted = FALSE /\ before = 0 /\ consumer = method + 1
  BY DEF Init, method, consumer
<1>8. ASSUME IsMethod PROVE Heard
  <2>1. pipeline[method].op \in Answering /\ pipeline[method].op \notin OfSequencesOnly
    BY <1>4, <1>5, <1>6, <1>8 DEF IsMethod, Answers
  <2>2. stages[method] = Async!Opening(pipeline[method])
    BY <1>6, <1>7, <1>8 DEF IsMethod
  <2>3. AnswersOnce(stages[method])
    BY <2>1, <2>2, MethodsOpen
  <2>4. MethodStands
    BY <1>6, <1>7, <2>3 DEF MethodStands, emitted
  <2>5. IsSequence(source) /\ IsSequence(<<>>)
    <3>1. <<>> \in Seq({})
      OBVIOUS
    <3> QED BY <1>4, <1>5, <3>1 DEF IsSequence
  <2> QED BY <1>6, <1>7, <2>1, <2>4, <2>5 DEF Heard
<1> QED BY <1>6, <1>7, <1>8 DEF HearInv

\* Of what arrives after the signal was aborted, a method looks at one element, and
\* then fails.
LEMMA HearInvSuffices == HearInv => AbortIsHeard
<1> SUFFICES ASSUME HearInv PROVE AbortIsHeard
  OBVIOUS
<1>1. method \in 1 .. 2
  BY Zenon DEF HearInv
<1>2. consumer = method + 1
  BY DEF method, consumer
<1>3. consumer - 1 = method
  BY <1>1, <1>2
<1>4. ASSUME aborted PROVE Late = 0 \/ Failed
  BY <1>4 DEF HearInv, Heard
<1>5. ASSUME aborted
      PROVE  Late <= 1 /\ (consumer \in ended /\ Late = 1 => emitted = <<stopped>>)
  BY <1>4, <1>5 DEF Failed
<1> QED BY <1>3, <1>5 DEF AbortIsHeard, Late, wasStopped

\* Whatever the pipeline, the source and the callbacks, of what arrives after its
\* signal was aborted a method of an asynchronous sequence looks at one element, and
\* then fails (packages/collections/src/collections/async: checkAborted).
THEOREM AbortIsHeardHolds ==
  TraversalAssumption => (MCSpec => []AbortIsHeard)
<1> SUFFICES ASSUME TraversalAssumption PROVE MCSpec => []AbortIsHeard
  OBVIOUS
<1>1. MCInit => HearInv
  <2>1. NoTraversal => HearInv
    <3> SUFFICES ASSUME NoTraversal PROVE HearInv
      OBVIOUS
    <3>1. traversal.async = FALSE
      BY Zenon DEF NoTraversal
    <3>2. PICK x : pipeline = <<x>>
      BY Zenon DEF NoTraversal, pipeline
    <3>3. method = 1
      BY <3>2 DEF method
    <3>4. aborted = FALSE /\ before = 0
      BY Zenon DEF NoTraversal
    <3>5. method \in 1 .. 2
      BY <3>3
    <3> QED BY <3>1, <3>4, <3>5, Zenon DEF HearInv, IsMethod
  <2> QED BY <2>1, HearStart DEF MCInit
<1>2. HearInv /\ [MCNext]_<<kind, vars, memoVars>> => HearInv'
  BY HearStep DEF MCNext
<1>3. HearInv => AbortIsHeard
  BY HearInvSuffices
<1> QED BY <1>1, <1>2, <1>3, PTL DEF MCSpec
=============================================================================

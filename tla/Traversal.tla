------------------------------ MODULE Traversal ------------------------------
(***************************************************************************)
(* A sequence being read (packages/collections): a pipeline of operators,  *)
(* each a generator suspended where it last yielded.  A consumer asks the  *)
(* last one; whoever is asked yields what it has ready, or asks the one    *)
(* before it, and the first asks the source.                               *)
(***************************************************************************)
EXTENDS SequenceMeanings

CONSTANTS
  stopped,        \* what a method whose signal was aborted fails with
  Pipelines,      \* the pipelines looked at: their operators, and whether they are
                  \* asynchronous and whether the source declares its count
  SourcesOf(_),   \* the sources a pipeline is looked at over
  Continuations(_)  \* ways in which what an operator reads may go on

VARIABLES
  traversal,  \* the pipeline and its source
  stages,     \* what every operator did last: its state, what it has yet to
              \* yield, and whether it is through
  asking,     \* who is to answer: an operator, 0 for the source, or the consumer
  given,      \* what every operator, and the consumer, was given
  ended,      \* who was told that there is no more
  aborted,    \* whether the signal was aborted
  before      \* how many elements the last operator was given before that

vars == <<traversal, stages, asking, given, ended, aborted, before>>

Async == INSTANCE AsyncSequences

\* Methods that an asynchronous sequence does not have.
OfSequencesOnly == {"index", "partition", "median", "percentile"}

wanted == traversal.wanted
pipeline == traversal.pipeline
source == traversal.source
consumer == Len(pipeline) + 1

\* Whether a stage is a method that answers.
Answers(p) == p.op \in Answering

\* Every operator knows of its source what the one before it declares.
Declared(ops, k) ==
  LET one == [ops[1] EXCEPT !.known = k] IN
  IF Len(ops) = 1 THEN <<one>> ELSE <<one, [ops[2] EXCEPT !.known = KnownCount(one)]>>

\* How many elements stage k holds on to: no more than it was asked for.
HoldsAtMost(k) ==
  LET p == pipeline[k]
      s == stages[k].state IN
  stages[k].stop \/
    (/\ p.op \in {"takeLast", "chunk", "windowed"} => Len(s) <= p.n
     /\ p.op = "skipLast" /\ p.n > 0 => Len(s) <= p.n
     /\ p.op = "pairwise" => Len(s) <= 1
     /\ p.op = "topBy" => Len(s.heap) <= p.n)

TypeOK ==
  /\ \A k \in DOMAIN pipeline : HoldsAtMost(k)
  /\ DOMAIN stages = DOMAIN pipeline
  /\ asking \in 0 .. consumer
  /\ DOMAIN given = 1 .. consumer
  /\ Len(given[1]) <= Len(source)
  /\ ended \subseteq 1 .. consumer
  /\ aborted \in BOOLEAN
  /\ before \in 0 .. Len(given[consumer - 1])

\* A pipeline is one or two operators, with their parameters, that a sequence of its
\* kind has, and sources are sequences.
TraversalAssumption ==
  \A q \in Pipelines :
    /\ Len(q.ops) \in 1 .. 2
    /\ \A i \in 1 .. Len(q.ops) :
         LET p == q.ops[i] IN
         /\ p = Parameters(p.op, p.n, p.other, p.known)
         /\ q.async => p.op \notin OfSequencesOnly
    /\ \A t \in SourcesOf(q) : t \in Seq(ToSet(t))

Init ==
  /\ \E q \in Pipelines : \E t \in SourcesOf(q) :
       LET ops == Declared(q.ops, IF q.declared THEN Len(t) ELSE unknown) IN
       traversal = [async |-> q.async, source |-> t, wanted |-> ops, pipeline |-> unordered(ops)]
  /\ stages = [k \in 1 .. Len(pipeline) |->
       IF traversal.async THEN Async!Opening(pipeline[k]) ELSE Opening(pipeline[k])]
  /\ asking = consumer
  /\ given = [k \in 1 .. consumer |-> <<>>]
  /\ ended = {}
  /\ aborted = FALSE
  /\ before = 0

\* What stage k does with what it is given.
Stepped(k, e) ==
  LET p == pipeline[k]
      s == stages[k].state IN
  IF traversal.async THEN Async!StepUnless(p, s, e, Answers(p), aborted) ELSE Step(p, s, e)

\* Stage k, or the consumer, is given e; the stage before it has `rest` left.
Give(k, e, rest) ==
  /\ given' = [given EXCEPT ![k] = @ \o e]
  /\ ended' = IF e = <<>> THEN ended \cup {k} ELSE ended
  /\ asking' = k
  /\ stages' = [j \in DOMAIN stages |->
       IF j = k THEN Stepped(k, e)
       ELSE IF j = k - 1 THEN [stages[j] EXCEPT !.out = rest] ELSE stages[j]]
  /\ UNCHANGED <<traversal, aborted, before>>

\* The consumer wants another.
Ask ==
  /\ asking = consumer
  /\ consumer \notin ended
  /\ asking' = consumer - 1
  /\ UNCHANGED <<traversal, stages, given, ended, aborted, before>>

asked == asking \in 1 .. (consumer - 1)

\* What it has ready, a generator yields.
Yield ==
  /\ asked
  /\ stages[asking].out # <<>>
  /\ Give(asking + 1, <<Head(stages[asking].out)>>, Tail(stages[asking].out))

\* A generator that is through says so.
Return ==
  /\ asked
  /\ stages[asking].out = <<>>
  /\ stages[asking].stop
  /\ Give(asking + 1, <<>>, <<>>)

\* Otherwise it asks the one before it.
Pull ==
  /\ asked
  /\ stages[asking].out = <<>>
  /\ ~stages[asking].stop
  /\ asking' = asking - 1
  /\ UNCHANGED <<traversal, stages, given, ended, aborted, before>>

\* The source answers with its next element, or that there is none.
Read ==
  /\ asking = 0
  /\ Give(1, Part(source, Len(given[1]) + 1, Len(given[1]) + 1), <<>>)

\* The signal of a method that answers is aborted, at any time.
Abort ==
  /\ traversal.async
  /\ Answers(pipeline[consumer - 1])
  /\ ~aborted /\ consumer \notin ended
  /\ aborted' = TRUE
  /\ before' = Len(given[consumer - 1])
  /\ UNCHANGED <<traversal, stages, asking, given, ended>>

Next == Ask \/ Yield \/ Return \/ Pull \/ Read \/ Abort

Spec == Init /\ [][Next]_vars

-----------------------------------------------------------------------------
(* Properties.                                                             *)

\* What an operator means for what it is given.  Of no elements, the two kinds of
\* sequences take the deviation of a sample differently.
MeaningFor(p, t) ==
  IF traversal.async /\ p.op = "sampleStandardDeviation" /\ t = <<>> THEN <<tooFew>>
  ELSE Meaning(p, t)
MeaningOf(t) ==
  LET u == MeaningFor(wanted[1], t) IN IF Len(wanted) = 1 THEN u ELSE MeaningFor(wanted[2], u)

\* Methods that take an element that is null for none.
NullIsNone(p) == p.op \in {"single", "elementAt"} \/ (traversal.async /\ p.op = "first")
AnswersNull == NullIsNone(wanted[1]) /\ MeaningOf(source) = <<null>>

emitted == given[consumer]
wasStopped == emitted = <<stopped>>

\* The count an operator declares for its result is the one it has.
CountIsRight(p) ==
  /\ ~Answers(p) /\ KnownCount(p) # unknown
  /\ p.op = "cast" => \A i \in D(source) : Holds(source[i])
  => KnownCount(p) = Len(Meaning(p, source))

\* Whatever is read, and however the operators are composed, what the consumer
\* is given is what they mean for the source as a whole: always the beginning
\* of it, and all of it when there is no more.  The counts they declare are
\* right, and so the answers taken from a count instead of the elements; and no
\* stage holds more of its source than it has to (TypeOK).
YieldsWhatItMeans ==
  /\ TypeOK
  /\ ~AnswersNull /\ ~wasStopped =>
       /\ IsPrefix(emitted, MeaningOf(source))
       /\ consumer \in ended => emitted = MeaningOf(source)
  /\ consumer \in ended => CountIsRight(wanted[1])

\* However what stage k reads goes on, what it has to yield next is the same.
Settled(k) ==
  LET n == Len(given[k + 1]) + 1
      next(u) == Part(MeaningFor(pipeline[k], given[k] \o u), n, n) IN
  \A u \in Continuations(k) : next(u) = next(<<>>)

\* The four operators that read on although nothing more can come of it.  A zip asks
\* its left side before its right (sequence.collection.ts:1360), so one element of the
\* left is pulled past the pairing when the right runs out, which its comment denies
\* (:1363-1364, "the longer sequence is never pulled past the pairing").  An
\* intersection reads on to the end when everything it looks for was found (:685,
\* :1590), and a join with nothing (:855) does not notice.
ReadsOn(k) ==
  LET p == pipeline[k] IN
  \/ p.op = "zip" /\ Len(given[k]) = Len(p.other)
  \/ p.op = "intersect" /\ ToSet(p.other) \subseteq ToSet(given[k])
  \/ p.op = "intersectBy" /\ Keys(p.other) \subseteq Keys(given[k])
  \/ p.op = "join" /\ p.other = <<>>

\* An operator asks for an element only while what it yields next depends on it, but
\* for the four above, where they are said to.  docs/testing.md:70 promises it of all:
\* "Pulls stop at the element that settled the answer".
ReadsOnlyWhatItMust ==
  [][asking' < asking /\ asked => ~Settled(asking) \/ ReadsOn(asking)]_vars

\* Of what arrives after the signal was aborted, one element is looked at, and
\* then the method fails.  The signal is looked at only when an element has arrived
\* (async-sequence.collection.ts:506-508): one is still asked for after an abort, and
\* a method whose source then ends answers as if nothing had happened.  The comment
\* at :154 ("Checked before each element is pulled") and docs/async-sequences.md:179-183
\* ("No further element is pulled", "The promise you are awaiting rejects with the
\* signal's reason") promise more than this.
AbortIsHeard ==
  aborted =>
    LET late == Len(given[consumer - 1]) - before IN
    late <= 1 /\ (consumer \in ended /\ late = 1 => wasStopped)
=============================================================================

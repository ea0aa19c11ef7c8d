------------------------------ MODULE Memoized ------------------------------
(***************************************************************************)
(* A memoized sequence (memoize of packages/collections/src/collections/   *)
(* sequence): traversals that take turns share what was read and the       *)
(* iterator it is read from.  The source is an array, or a chain over one, *)
(* that the program may change meanwhile and a callback may fail over.     *)
(***************************************************************************)
EXTENDS Integers, SequencesExt

CONSTANTS
  Items,      \* the elements
  MaxItems,   \* how many the array has at most
  Failing,    \* the elements over which a callback fails
  Traversers  \* those who traverse the sequence

VARIABLES
  array,      \* the elements of the source
  cache,      \* what was read of it
  iterator,   \* "unopened", "open", or "spent" by an end or a failure
  exhausted,  \* whether an end was seen
  yielded,    \* what every traversal was given
  told        \* how it stands: "reading", "ended" or "failed"

MemoizedAssumption == MaxItems \in Nat

vars == <<array, cache, iterator, exhausted, yielded, told>>

TypeOK ==
  /\ array \in BoundedSeq(Items, MaxItems)
  /\ cache \in BoundedSeq(Items, MaxItems)
  /\ iterator \in {"unopened", "open", "spent"}
  /\ exhausted \in BOOLEAN
  /\ yielded \in [Traversers -> BoundedSeq(Items, MaxItems)]
  /\ told \in [Traversers -> {"reading", "ended", "failed"}]

Init ==
  /\ array \in BoundedSeq(Items, MaxItems)
  /\ cache = <<>>
  /\ iterator = "unopened"
  /\ exhausted = FALSE
  /\ yielded = [t \in Traversers |-> <<>>]
  /\ told = [t \in Traversers |-> "reading"]

Give(t, item) == yielded' = [yielded EXCEPT ![t] = Append(@, item)] /\ UNCHANGED told
Tell(t, how) == told' = [told EXCEPT ![t] = how] /\ UNCHANGED yielded

\* Mutant: whoever may read, reads.
CachedForNobody(t) == exhausted /\ Len(yielded[t]) < Len(cache)

\* What it has not been given yet was read already.
Cached(t) == Len(yielded[t]) < Len(cache)

\* The iterator answers: an end, a failure, or an element for everybody.
Advance(t) ==
  IF iterator = "spent" \/ Len(cache) >= Len(array)
  THEN /\ exhausted' = TRUE
       /\ iterator' = "spent"
       /\ Tell(t, "ended")
       /\ UNCHANGED cache
  ELSE LET item == array[Len(cache) + 1] IN
       /\ IF item \in Failing
          THEN iterator' = "spent" /\ Tell(t, "failed") /\ UNCHANGED cache
          ELSE iterator' = "open" /\ Give(t, item) /\ cache' = Append(cache, item)
       /\ UNCHANGED exhausted

\* A traversal asks for its next element.
Resume(t) ==
  /\ told[t] = "reading"
  /\ IF Cached(t)
     THEN Give(t, cache[Len(yielded[t]) + 1]) /\ UNCHANGED <<cache, iterator, exhausted>>
     ELSE IF exhausted THEN Tell(t, "ended") /\ UNCHANGED <<cache, iterator, exhausted>>
     ELSE Advance(t)
  /\ UNCHANGED array

\* The program pushes to the array, or pops.
Push(item) ==
  /\ Len(array) < MaxItems
  /\ array' = Append(array, item)
  /\ UNCHANGED <<cache, iterator, exhausted, yielded, told>>
Pop ==
  /\ array # <<>>
  /\ array' = Front(array)
  /\ UNCHANGED <<cache, iterator, exhausted, yielded, told>>

Next ==
  \/ \E t \in Traversers : Resume(t)
  \/ \E item \in Items : Push(item)
  \/ Pop

Spec == Init /\ [][Next]_vars

-----------------------------------------------------------------------------
\* "A deferred sequence yielding the same elements, repeatably": traversals that
\* take turns, over an array that changes, are given the same elements, and
\* those that came to the end were given as many.
RepeatsTheSame ==
  \A t \in Traversers :
    /\ IsPrefix(yielded[t], cache)
    /\ told[t] = "ended" => yielded[t] = cache /\ exhausted
=============================================================================

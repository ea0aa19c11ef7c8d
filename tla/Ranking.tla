------------------------------- MODULE Ranking -------------------------------
(***************************************************************************)
(* The bounded heap behind topBy and topByAwait (packages/collections/src/ *)
(* functions/ranking): the worst of what is kept is on top, and what comes *)
(* in has to beat it.  Positions count from 1, so that the children of i   *)
(* are 2i and 2i + 1.                                                      *)
(***************************************************************************)
EXTENDS Integers, SequencesExt

\* A tie is lost by the one that arrived later.
worse(left, right) ==
  left.key < right.key \/ (left.key = right.key /\ left.arrival > right.arrival)

Swapped(heap, i, j) == [heap EXCEPT ![i] = heap[j], ![j] = heap[i]]

\* What was put at the end rises while it is worse than what is above it.
siftUp(heap, start) ==
  LET rise[h \in Seq(ToSet(heap)), child \in Nat] ==
        LET parent == child \div 2 IN
        IF child > 1 /\ worse(h[child], h[parent])
        THEN rise[Swapped(h, child, parent), parent] ELSE h
  IN rise[heap, start]

\* Mutant: only the left child is compared.
siftDownLeft(heap, start) ==
  LET sink[h \in Seq(ToSet(heap)), parent \in Nat] ==
        IF 2 * parent <= Len(h) /\ worse(h[2 * parent], h[parent])
        THEN sink[Swapped(h, parent, 2 * parent), 2 * parent] ELSE h
  IN sink[heap, start]

\* What was put on top sinks below the worse of its children.
siftDown(heap, start) ==
  LET sink[h \in Seq(ToSet(heap)), parent \in Nat] ==
        LET left == 2 * parent
            right == left + 1
            worst == IF right <= Len(h) /\ worse(h[right], h[parent])
                        /\ worse(h[right], h[left]) THEN right
                     ELSE IF left <= Len(h) /\ worse(h[left], h[parent]) THEN left
                     ELSE parent
        IN IF worst = parent THEN h ELSE sink[Swapped(h, parent, worst), worst]
  IN sink[heap, start]

\* offer: kept while there is room, and in place of the worst it beats.
offer(heap, count, entry) ==
  IF Len(heap) < count THEN siftUp(Append(heap, entry), Len(heap) + 1)
  ELSE IF heap = <<>> THEN heap
  ELSE IF entry.key < heap[1].key THEN heap
  ELSE IF ~(entry.key > heap[1].key) /\ entry.arrival > heap[1].arrival THEN heap
  ELSE siftDown([heap EXCEPT ![1] = entry], 1)

\* drain: the best first.
drain(heap) ==
  LET sorted == SortSeq(heap, LAMBDA left, right : worse(right, left)) IN
  [i \in 1 .. Len(heap) |-> sorted[i].element]
=============================================================================

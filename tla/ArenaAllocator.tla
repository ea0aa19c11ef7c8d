--------------------------- MODULE ArenaAllocator ---------------------------
(***************************************************************************)
(* An allocator that takes memory in chunks and releases all of it at once *)
(* (packages/memory/src/arenaAllocator).  The chunks stay with the arena:  *)
(* after a reset they are filled again from the first.                     *)
(***************************************************************************)
EXTENDS Bump, Sequences, FiniteSets

CONSTANTS
  Allocations,  \* the allocations that may be made
  ChunkSize,    \* the size of a chunk, unless a request is larger
  Sizes,        \* the sizes asked for
  Alignments,   \* the alignments asked for: powers of two
  MaxResets     \* how often the arena is reset

\* What the constants are.
ArenaAssumption ==
  /\ ChunkSize \in Nat
  /\ Sizes \subseteq Nat
  /\ Alignments \subseteq Nat \ {0}

VARIABLES
  chunks,       \* the sizes of the chunks there are
  current,      \* the chunk that is being filled, 0 before the first
  offset,       \* where the next allocation in it may start
  generation,   \* how often the arena was reset
  leases        \* what each allocation was given, and `made` once it was

vars == <<chunks, current, offset, generation, leases>>

NoLease == [generation |-> 0, chunk |-> 0, start |-> 0, size |-> 0, made |-> FALSE]

Init ==
  /\ chunks = <<>>
  /\ current = 0
  /\ offset = 0
  /\ generation = 0
  /\ leases = [a \in Allocations |-> NoLease]

isLive(a) == leases[a].made /\ leases[a].generation = generation

\* The chunk after the current one that serves a request: a chunk too small is
\* skipped, and one past the last is made as large as it has to be.
NextChunk(size) ==
  CHOOSE n \in (current + 1) .. (Len(chunks) + 1) :
    /\ n <= Len(chunks) => chunks[n] >= size
    /\ \A m \in (current + 1) .. (n - 1) : chunks[m] < size

Lease(a, chunk, start, size) ==
  leases' = [leases EXCEPT ![a] = [generation |-> generation, chunk |-> chunk,
                           start |-> start, size |-> size, made |-> TRUE]]

\* allocate: from the current chunk while it has room, else from a later one.
Allocate(a, size, alignment) ==
  /\ ~leases[a].made
  /\ IF current # 0 /\ Holds(chunks[current], offset, size, alignment)
     THEN LET start == Aligned(offset, alignment) IN
          /\ Lease(a, current, start, size)
          /\ offset' = start + size
          /\ UNCHANGED <<chunks, current>>
     ELSE LET n == NextChunk(size) IN
          /\ Lease(a, n, 0, size)
          /\ current' = n
          /\ offset' = size
          /\ chunks' = IF n <= Len(chunks) THEN chunks
                       ELSE Append(chunks, IF size > ChunkSize THEN size ELSE ChunkSize)
  /\ UNCHANGED generation

\* reset, which is also what disposing of the arena does.
Reset ==
  /\ generation < MaxResets
  /\ generation' = generation + 1
  /\ current' = 0
  /\ offset' = 0
  /\ UNCHANGED <<chunks, leases>>

Next ==
  \/ \E a \in Allocations, size \in Sizes, alignment \in Alignments :
       Allocate(a, size, alignment)
  \/ Reset

Spec == Init /\ [][Next]_vars

-----------------------------------------------------------------------------
LiveOnes == {a \in Allocations : isLive(a)}

DeadOnes == {a \in Allocations : leases[a].made /\ ~isLive(a)}

BytesOf(a) ==
  {<<leases[a].chunk, i>> :
     i \in leases[a].start .. (leases[a].start + leases[a].size - 1)}

Held == [a \in Allocations |-> IF leases[a].made THEN BytesOf(a) ELSE {}]

\* The arena is an allocator: the bytes it gives out are in chunks it has, one
\* holder's at a time, and what a reset released stays dead when they are reused.
Contract == INSTANCE Allocator WITH
  Bytes <- Nat \X Nat,
  live <- LiveOnes,
  released <- DeadOnes,
  bytes <- Held

ImplementsAllocator == Contract!Spec

\* What is live lies in chunks the arena has, below where it stands.
ChunksHoldWhatIsLive ==
  \A a \in Allocations : isLive(a) =>
    LET end == leases[a].start + leases[a].size IN
    /\ end <= chunks[leases[a].chunk]
    /\ leases[a].chunk <= current
    /\ leases[a].chunk = current => end <= offset
=============================================================================

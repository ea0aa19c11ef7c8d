------------------------ MODULE FixedBufferAllocator ------------------------
(***************************************************************************)
(* An allocator over one buffer of the caller's, released all at once      *)
(* (packages/memory/src/fixedBufferAllocator).  A request that does not    *)
(* fit is refused before anything changes.                                 *)
(***************************************************************************)
EXTENDS Bump

CONSTANTS
  Allocations,  \* the allocations that may be made
  Capacity,     \* size of the buffer
  Sizes,        \* the sizes asked for
  Alignments,   \* the alignments asked for: powers of two
  MaxResets     \* how often the allocator is reset

\* What the constants are.
FixedAssumption ==
  /\ Capacity \in Nat
  /\ Sizes \subseteq Nat
  /\ Alignments \subseteq Nat \ {0}

VARIABLES
  offset,       \* where the next allocation may start
  generation,   \* how often the allocator was reset
  leases        \* what each allocation was given, and `made` once it was

vars == <<offset, generation, leases>>

NoLease == [generation |-> 0, start |-> 0, size |-> 0, made |-> FALSE]

Init ==
  /\ offset = 0
  /\ generation = 0
  /\ leases = [a \in Allocations |-> NoLease]

isLive(a) == leases[a].made /\ leases[a].generation = generation

\* allocate
Allocate(a, size, alignment) ==
  /\ ~leases[a].made
  /\ Holds(Capacity, offset, size, alignment)
  /\ LET start == Aligned(offset, alignment) IN
     /\ leases' = [leases EXCEPT ![a] =
          [generation |-> generation, start |-> start, size |-> size, made |-> TRUE]]
     /\ offset' = start + size
  /\ UNCHANGED generation

\* reset, which is also what disposing of the allocator does.
Reset ==
  /\ generation < MaxResets
  /\ generation' = generation + 1
  /\ offset' = 0
  /\ UNCHANGED leases

Next ==
  \/ \E a \in Allocations, size \in Sizes, alignment \in Alignments :
       Allocate(a, size, alignment)
  \/ Reset

Spec == Init /\ [][Next]_vars

-----------------------------------------------------------------------------
LiveOnes == {a \in Allocations : isLive(a)}

DeadOnes == {a \in Allocations : leases[a].made /\ ~isLive(a)}

BytesOf(a) == leases[a].start .. (leases[a].start + leases[a].size - 1)

Held == [a \in Allocations |-> IF leases[a].made THEN BytesOf(a) ELSE {}]

\* The buffer is an allocator: no byte is given out beyond it or twice.
Contract == INSTANCE Allocator WITH
  Bytes <- 0 .. (Capacity - 1),
  live <- LiveOnes,
  released <- DeadOnes,
  bytes <- Held

ImplementsAllocator == Contract!Spec
=============================================================================

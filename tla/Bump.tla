-------------------------------- MODULE Bump --------------------------------
(***************************************************************************)
(* Taking memory from the front of a region (packages/memory/src/bump), as *)
(* the stack, the arena, the fixed buffer and the managed allocator do.    *)
(***************************************************************************)
EXTENDS Integers

\* The first multiple of an alignment from an offset on.
Aligned(from, alignment) ==
  ((from + alignment - 1) \div alignment) * alignment

\* bump has room for a request in a region of that capacity.
Holds(capacity, from, size, alignment) == Aligned(from, alignment) + size <= capacity
=============================================================================

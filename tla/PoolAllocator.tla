---------------------------- MODULE PoolAllocator ----------------------------
(***************************************************************************)
(* An allocator of blocks of one size, returned in any order               *)
(* (packages/memory/src/poolAllocator).  A call that is refused throws     *)
(* before it changes anything, so a refusal is a guard that does not hold. *)
(***************************************************************************)
EXTENDS Integers, Sequences

CONSTANTS
  Allocations,  \* the allocations that may be made
  BlockSize, BlockCount,
  Sizes,        \* the sizes asked for
  Alignments    \* the alignments asked for: powers of two

ASSUME PoolAssumption ==
  /\ BlockSize \in Nat
  /\ BlockCount \in Nat
  /\ Sizes \subseteq Nat
  /\ Alignments \subseteq Nat \ {0}

Blocks == 0 .. (BlockCount - 1)

NoLease == [block |-> 0, generation |-> 0, size |-> 0, made |-> FALSE]

VARIABLES
  free,         \* the free blocks, the next one to hand out last
  generations,  \* how often each block came back
  leases        \* what each allocation was given, and `made` once it was

vars == <<free, generations, leases>>

Leases == [block : Blocks \cup {0}, generation : Nat, size : 0 .. BlockSize,
           made : BOOLEAN]

TypeOK ==
  /\ free \in Seq(Blocks)
  /\ generations \in [Blocks -> Nat]
  /\ leases \in [Allocations -> Leases]

Init ==
  /\ free = [i \in 1 .. BlockCount |-> BlockCount - i]
  /\ generations = [b \in Blocks |-> 0]
  /\ leases = [a \in Allocations |-> NoLease]

made(a) == leases[a].made

isLive(a) == made(a) /\ generations[leases[a].block] = leases[a].generation

\* A request a block can hold.
Fits(size, alignment) == size <= BlockSize /\ BlockSize % alignment = 0

\* allocate: the last free block, with its generation of now.
Allocate(a, size, alignment) ==
  /\ ~made(a)
  /\ Fits(size, alignment)
  /\ free # <<>>
  /\ LET block == free[Len(free)] IN
     leases' = [leases EXCEPT ![a] = [block |-> block, size |-> size,
                       generation |-> generations[block], made |-> TRUE]]
  /\ free' = SubSeq(free, 1, Len(free) - 1)
  /\ UNCHANGED generations

\* Mutant: a block comes back with the generation it had.
GiveBackSameGeneration(a) ==
  /\ generations' = generations
  /\ free' = Append(free, leases[a].block)
  /\ UNCHANGED leases

\* giveBack
GiveBack(a) ==
  /\ generations' =
       [generations EXCEPT ![leases[a].block] = leases[a].generation + 1]
  /\ free' = Append(free, leases[a].block)
  /\ UNCHANGED leases

\* Mutant: an allocation is disposed of without asking whether it is live.
DisposeUnchecked(a) == made(a) /\ GiveBack(a)

\* allocation[Symbol.dispose]: nothing for one that is not live.
Dispose(a) == isLive(a) /\ GiveBack(a)

\* deallocate: refused for an allocation the pool did not make, or took back.
Deallocate(a) ==
  /\ made(a)
  /\ generations[leases[a].block] = leases[a].generation
  /\ GiveBack(a)

Next ==
  \E a \in Allocations :
    \/ \E size \in Sizes, alignment \in Alignments : Allocate(a, size, alignment)
    \/ Dispose(a)
    \/ Deallocate(a)

Spec == Init /\ [][Next]_vars

-----------------------------------------------------------------------------
(* Properties.                                                             *)

LiveOnes == {a \in Allocations : isLive(a)}

DeadOnes == {a \in Allocations : leases[a].made /\ ~isLive(a)}

FreeBlocks == {free[i] : i \in 1 .. Len(free)}

\* Every block is either free, once, or held by one live allocation: none is
\* lost and none is handed out twice, in whatever order they come back, and
\* however often an allocation is given back again.
EveryBlockIsSomewhere ==
  /\ \A i, j \in 1 .. Len(free) : free[i] = free[j] => i = j
  /\ \A a, b \in LiveOnes : leases[a].block = leases[b].block => a = b
  /\ \A a \in LiveOnes : leases[a].block \notin FreeBlocks
  /\ \A b \in Blocks : b \in FreeBlocks \/ \E a \in LiveOnes : leases[a].block = b

\* The bytes of a lease: the first of its block.
BytesOf(lease) ==
  {i \in 0 .. (BlockSize * BlockCount - 1) :
     /\ lease.block * BlockSize <= i
     /\ i < lease.block * BlockSize + lease.size}

Held ==
  [a \in Allocations |-> IF leases[a].made THEN BytesOf(leases[a]) ELSE {}]

\* The pool is an allocator: a live allocation's bytes are its own, and one
\* that was given back stays dead when its block is handed on.
Contract == INSTANCE Allocator WITH
  Bytes <- 0 .. (BlockSize * BlockCount - 1),
  live <- LiveOnes,
  released <- DeadOnes,
  bytes <- Held

ImplementsAllocator == Contract!Spec
=============================================================================

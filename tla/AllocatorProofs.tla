-------------------------- MODULE AllocatorProofs --------------------------
(***************************************************************************)
(* For any number of blocks, bytes, frames, allocations and sizes, and     *)
(* however often they are given back: the pool neither loses a block nor   *)
(* hands one out twice; what is live in the stack, the arena and a managed *)
(* region is never given back while it is, and all else is; and all five   *)
(* implement the contract of every allocator.                              *)
(***************************************************************************)
EXTENDS MCAllocators, FiniteSetTheorems, SequenceTheorems, WellFoundedInduction, TLAPS

-----------------------------------------------------------------------------
(* The contract, of whoever keeps it: any requests and bytes, those alive, *)
(* those whose time is over, and what was reserved for each.               *)

CONSTANTS Requests, AllBytes
VARIABLES alive, over, reserved

Promise == INSTANCE Allocator WITH
  Allocations <- Requests, Bytes <- AllBytes, live <- alive, released <- over, bytes <- reserved

LEMMA AllocateSeparate ==
  ASSUME Promise!TypeOK, Promise!Separate, NEW a \in Requests,
         reserved'[a] \subseteq AllBytes, Promise!Allocate(a, reserved'[a])
  PROVE  Promise!TypeOK' /\ Promise!Separate'
<1> USE DEF Promise!Allocate
<1>1. /\ alive' = alive \cup {a}
      /\ a \notin alive \cup over
      /\ \A b \in alive : reserved'[b] = reserved[b] /\ reserved[b] \cap reserved'[a] = {}
  BY DEF Promise!TypeOK
<1>2. Promise!TypeOK'
  BY DEF Promise!TypeOK
<1>3. alive' \cap over' = {}
  BY <1>1 DEF Promise!Separate
<1>4. ASSUME NEW b \in alive', NEW c \in alive', b # c
      PROVE  reserved'[b] \cap reserved'[c] = {}
  <2>1. CASE b \in alive /\ c \in alive
    BY <1>1, <1>4, <2>1 DEF Promise!Separate
  <2>2. CASE b = a \/ c = a
    BY <1>1, <1>4, <2>2
  <2> QED BY <1>1, <2>1, <2>2
<1> QED BY <1>2, <1>3, <1>4 DEF Promise!Separate

\* Whoever keeps the contract never has one byte in two live allocations, nor
\* one that is both live and released: what isLive promises a view of it
\* (packages/memory/src/allocator).
THEOREM ContractSeparates == Promise!Spec => []Promise!Separate
<1>1. Promise!Init => Promise!TypeOK /\ Promise!Separate
  BY DEF Promise!Init, Promise!TypeOK, Promise!Separate
<1>2. Promise!TypeOK /\ Promise!Separate /\ [Promise!Next]_(Promise!vars)
        => (Promise!TypeOK /\ Promise!Separate)'
  <2> SUFFICES ASSUME Promise!TypeOK, Promise!Separate, [Promise!Next]_(Promise!vars)
      PROVE  Promise!TypeOK' /\ Promise!Separate'
    OBVIOUS
  <2>1. ASSUME NEW a \in Requests,
               reserved'[a] \subseteq AllBytes, Promise!Allocate(a, reserved'[a])
        PROVE  Promise!TypeOK' /\ Promise!Separate'
    BY <2>1, AllocateSeparate
  <2>2. ASSUME NEW gone \in SUBSET alive, Promise!Release(gone)
        PROVE  Promise!TypeOK' /\ Promise!Separate'
    BY <2>2 DEF Promise!Release, Promise!TypeOK, Promise!Separate
  <2>3. CASE UNCHANGED Promise!vars
    BY <2>3 DEF Promise!vars, Promise!TypeOK, Promise!Separate
  <2> QED BY <2>1, <2>2, <2>3 DEF Promise!Next
<1> QED BY <1>1, <1>2, PTL DEF Promise!Spec

-----------------------------------------------------------------------------
(* The pool.                                                               *)

\* What the two facts rest on: an allocation holds a block of the pool's, and
\* no generation it could be compared with lies before its own.
NoLeaseFromTheFuture ==
  \A a \in Allocations : made(a) =>
    /\ leases[a].block \in Blocks
    /\ leases[a].generation <= generations[leases[a].block]

IInv == TypeOK /\ NoLeaseFromTheFuture /\ EveryBlockIsSomewhere

-----------------------------------------------------------------------------

LEMMA LeaseTyped ==
  ASSUME NEW b \in Blocks, NEW g \in Nat, NEW s \in 0 .. BlockSize
  PROVE  [block |-> b, size |-> s, generation |-> g, made |-> TRUE] \in Leases
BY DEF Leases

LEMMA InitIInv == Init => IInv
<1> SUFFICES ASSUME Init PROVE IInv
  OBVIOUS
<1> USE PoolAssumption
<1>1. free \in [1 .. BlockCount -> Blocks]
  BY DEF Init, Blocks
<1>2. free \in Seq(Blocks) /\ Len(free) = BlockCount
  <2>1. free \in Seq(Blocks)
    BY <1>1
  <2> QED
    BY <1>1, <2>1
<1>3. NoLease \in Leases
  BY DEF NoLease, Leases
<1>4. TypeOK
  BY <1>2, <1>3 DEF Init, TypeOK
<1>5. \A a \in Allocations : ~made(a)
  BY DEF Init, made, NoLease
<1>6. LiveOnes = {}
  BY <1>5 DEF LiveOnes, isLive
<1>7. \A i, j \in 1 .. Len(free) : free[i] = free[j] => i = j
  BY <1>2 DEF Init
<1>8. \A b \in Blocks : b \in FreeBlocks
  <2> TAKE b \in Blocks
  <2>1. BlockCount - b \in 1 .. Len(free) /\ free[BlockCount - b] = b
    BY <1>2 DEF Blocks, Init
  <2> QED
    BY <2>1 DEF FreeBlocks
<1> QED
  BY <1>4, <1>5, <1>6, <1>7, <1>8 DEF IInv, NoLeaseFromTheFuture, EveryBlockIsSomewhere

\* A request moves the last free block over to the allocation that made it.
LEMMA AllocateKeeps ==
  ASSUME IInv, NEW a \in Allocations, NEW size \in Sizes,
         NEW alignment \in Alignments, Allocate(a, size, alignment)
  PROVE  /\ IInv'
         /\ LiveOnes' = LiveOnes \cup {a}
         /\ \A b \in Allocations \ {a} : leases'[b] = leases[b]
         /\ made(a)' /\ leases'[a].size = size
         /\ \A b \in LiveOnes : leases[b].block # leases'[a].block
<1> USE PoolAssumption
<1> DEFINE n == Len(free)
           block == free[n]
<1>1. /\ n \in Nat \ {0}
      /\ block \in Blocks
      /\ block \in FreeBlocks
  BY DEF Allocate, IInv, TypeOK, FreeBlocks
<1>2. /\ ~made(a)
      /\ leases' = [leases EXCEPT ![a] = [block |-> block, size |-> size,
                          generation |-> generations[block], made |-> TRUE]]
      /\ free' = SubSeq(free, 1, n - 1)
      /\ generations' = generations
      /\ size \in 0 .. BlockSize
  BY DEF Allocate, Fits
<1>3. /\ free' \in Seq(Blocks)
      /\ Len(free') = n - 1
      /\ \A i \in 1 .. (n - 1) : free'[i] = free[i]
  <2>1. n - 1 \in Int /\ \A i \in 1 .. (n - 1) : free[i] \in Blocks
    BY <1>1 DEF IInv, TypeOK
  <2> HIDE DEF n
  <2>2. /\ SubSeq(free, 1, n - 1) \in Seq(Blocks)
        /\ Len(SubSeq(free, 1, n - 1)) = IF 1 <= n - 1 THEN n - 1 - 1 + 1 ELSE 0
        /\ \A i \in 1 .. n - 1 - 1 + 1 : SubSeq(free, 1, n - 1)[i] = free[1 + i - 1]
    BY <2>1, SubSeqProperties
  <2> QED
    BY <1>1, <1>2, <2>2
<1>4. leases'[a] = [block |-> block, size |-> size,
                    generation |-> generations[block], made |-> TRUE]
  BY <1>2 DEF IInv, TypeOK
<1>5. \A b \in Allocations \ {a} : leases'[b] = leases[b]
  BY <1>2 DEF IInv, TypeOK
<1>6. generations[block] \in Nat
  BY <1>1 DEF IInv, TypeOK
<1>7. TypeOK'
  <2>1. leases'[a] \in Leases
    BY <1>1, <1>2, <1>4, <1>6, LeaseTyped
  <2>2. leases' \in [Allocations -> Leases]
    BY <1>2, <1>4, <2>1 DEF IInv, TypeOK
  <2> QED
    BY <1>2, <1>3, <2>2 DEF IInv, TypeOK
<1>8. NoLeaseFromTheFuture'
  <2> SUFFICES ASSUME NEW b \in Allocations, made(b)'
               PROVE  /\ leases'[b].block \in Blocks
                      /\ leases'[b].generation <= generations'[leases'[b].block]
    BY DEF NoLeaseFromTheFuture
  <2>1. CASE b = a
    BY <1>1, <1>2, <1>4, <1>6, <2>1
  <2>2. CASE b # a
    BY <1>2, <1>5, <2>2 DEF IInv, NoLeaseFromTheFuture, made
  <2> QED
    BY <2>1, <2>2
<1>9. LiveOnes' = LiveOnes \cup {a}
  <2>1. made(a)' /\ isLive(a)'
    BY <1>2, <1>4 DEF made, isLive
  <2>2. \A b \in Allocations \ {a} : isLive(b)' <=> isLive(b)
    BY <1>2, <1>5 DEF isLive, made
  <2> QED
    BY <2>1, <2>2 DEF LiveOnes
<1>10. FreeBlocks' = FreeBlocks \ {block}
  <2>1. \A i \in 1 .. (n - 1) : free[i] # block
    BY <1>1 DEF IInv, EveryBlockIsSomewhere
  <2>2. FreeBlocks' = {free[i] : i \in 1 .. (n - 1)}
    BY <1>1, <1>3 DEF FreeBlocks
  <2>3. FreeBlocks = {free[i] : i \in 1 .. (n - 1)} \cup {block}
    <3>1. 1 .. n = (1 .. (n - 1)) \cup {n}
      BY <1>1
    <3> QED
      BY <3>1 DEF FreeBlocks
  <2> QED
    BY <2>1, <2>2, <2>3
<1>11. \A b \in LiveOnes : leases[b].block # block /\ b # a
  BY <1>1, <1>2 DEF IInv, EveryBlockIsSomewhere, LiveOnes, isLive
<1>12. EveryBlockIsSomewhere'
  <2>1. \A i, j \in 1 .. Len(free') : free'[i] = free'[j] => i = j
    BY <1>1, <1>3, SMTT(30) DEF IInv, EveryBlockIsSomewhere
  <2>2. \A b \in LiveOnes : leases'[b] = leases[b]
    BY <1>5, <1>11 DEF LiveOnes
  <2>3. \A b, c \in LiveOnes' : leases'[b].block = leases'[c].block => b = c
    BY <1>4, <1>9, <1>11, <2>2 DEF IInv, EveryBlockIsSomewhere
  <2>4. \A b \in LiveOnes' : leases'[b].block \notin FreeBlocks'
    BY <1>4, <1>9, <1>10, <2>2 DEF IInv, EveryBlockIsSomewhere
  <2>5. \A b \in Blocks : b \in FreeBlocks' \/ \E c \in LiveOnes' : leases'[c].block = b
    BY <1>4, <1>9, <1>10, <2>2 DEF IInv, EveryBlockIsSomewhere
  <2> QED
    BY <2>1, <2>3, <2>4, <2>5 DEF EveryBlockIsSomewhere
<1> QED
  BY <1>4, <1>5, <1>7, <1>8, <1>9, <1>11, <1>12 DEF IInv, made

\* Giving back what is live moves its block to the list, and nothing else.
LEMMA GiveBackKeeps ==
  ASSUME IInv, NEW a \in Allocations, isLive(a), GiveBack(a)
  PROVE  IInv' /\ LiveOnes' = LiveOnes \ {a} /\ leases' = leases
<1> USE PoolAssumption
<1> DEFINE block == leases[a].block
<1>1. /\ block \in Blocks
      /\ generations[block] \in Nat
      /\ generations[block] = leases[a].generation
  BY DEF IInv, TypeOK, NoLeaseFromTheFuture, isLive
<1>2. /\ generations' = [generations EXCEPT ![block] = generations[block] + 1]
      /\ free' = Append(free, block)
      /\ leases' = leases
  BY <1>1 DEF GiveBack
<1> DEFINE n == Len(free)
<1>3. /\ n \in Nat
      /\ free' \in Seq(Blocks)
      /\ Len(free') = n + 1
      /\ free'[n + 1] = block
      /\ \A i \in 1 .. n : free'[i] = free[i]
  BY <1>1, <1>2 DEF IInv, TypeOK
<1>4. /\ generations'[block] = generations[block] + 1
      /\ \A b \in Blocks \ {block} : generations'[b] = generations[b]
  BY <1>1, <1>2 DEF IInv, TypeOK
<1>5. TypeOK'
  BY <1>1, <1>2, <1>3 DEF IInv, TypeOK
<1>6. NoLeaseFromTheFuture'
  <2> SUFFICES ASSUME NEW b \in Allocations, made(b)
               PROVE  /\ leases[b].block \in Blocks
                      /\ leases[b].generation <= generations'[leases[b].block]
    BY <1>2 DEF NoLeaseFromTheFuture, made
  <2>1. /\ leases[b].block \in Blocks
        /\ leases[b].generation \in Nat
        /\ leases[b].generation <= generations[leases[b].block]
    BY DEF IInv, TypeOK, NoLeaseFromTheFuture, Leases
  <2>2. CASE leases[b].block = block
    BY <1>1, <1>4, <2>1, <2>2
  <2>3. CASE leases[b].block # block
    BY <1>4, <2>1, <2>3
  <2> QED
    BY <2>2, <2>3
<1>7. LiveOnes' = LiveOnes \ {a}
  <2> SUFFICES ASSUME NEW b \in Allocations
               PROVE  isLive(b)' <=> isLive(b) /\ b # a
    BY DEF LiveOnes
  <2>1. CASE ~made(b)
    BY <1>2, <2>1 DEF isLive, made
  <2>2. CASE made(b)
    <3>1. /\ leases[b].block \in Blocks
          /\ leases[b].generation \in Nat
          /\ leases[b].generation <= generations[leases[b].block]
      BY <2>2 DEF IInv, TypeOK, NoLeaseFromTheFuture, Leases
    <3>2. isLive(b)' <=> generations'[leases[b].block] = leases[b].generation
      BY <1>2, <2>2 DEF isLive, made
    <3>3. CASE leases[b].block = block
      <4>1. ~isLive(b)'
        BY <1>1, <1>4, <3>1, <3>2, <3>3
      <4>2. isLive(b) => b = a
        BY <3>3 DEF IInv, EveryBlockIsSomewhere, LiveOnes
      <4> QED
        BY <4>1, <4>2
    <3>4. CASE leases[b].block # block
      BY <1>4, <2>2, <3>1, <3>2, <3>4 DEF isLive
    <3> QED
      BY <3>3, <3>4
  <2> QED
    BY <2>1, <2>2
<1>8. FreeBlocks' = FreeBlocks \cup {block}
  <2>1. 1 .. (n + 1) = (1 .. n) \cup {n + 1}
    BY <1>3
  <2> QED
    BY <1>3, <2>1 DEF FreeBlocks
<1>9. a \in LiveOnes /\ block \notin FreeBlocks
  BY DEF LiveOnes, IInv, EveryBlockIsSomewhere
<1>10. EveryBlockIsSomewhere'
  <2>1. \A i \in 1 .. n : free[i] # block
    BY <1>9 DEF FreeBlocks
  <2>2. \A i, j \in 1 .. (n + 1) : free'[i] = free'[j] => i = j
    <3> TAKE i, j \in 1 .. (n + 1)
    <3>1. CASE i \in 1 .. n /\ j \in 1 .. n
      BY <1>3, <3>1 DEF IInv, EveryBlockIsSomewhere
    <3>2. CASE i = n + 1 \/ j = n + 1
      BY <1>3, <2>1, <3>2
    <3> QED
      BY <1>3, <3>1, <3>2
  <2>3. \A b, c \in LiveOnes' : leases'[b].block = leases'[c].block => b = c
    BY <1>2, <1>7 DEF IInv, EveryBlockIsSomewhere
  <2>4. \A b \in LiveOnes' : leases'[b].block \notin FreeBlocks'
    BY <1>2, <1>7, <1>8, <1>9 DEF IInv, EveryBlockIsSomewhere
  <2>5. \A b \in Blocks : b \in FreeBlocks' \/ \E c \in LiveOnes' : leases'[c].block = b
    BY <1>2, <1>7, <1>8 DEF IInv, EveryBlockIsSomewhere
  <2> QED
    BY <1>3, <2>2, <2>3, <2>4, <2>5 DEF EveryBlockIsSomewhere
<1> QED
  BY <1>2, <1>5, <1>6, <1>7, <1>10 DEF IInv

LEMMA NextIInv == IInv /\ [Next]_vars => IInv'
<1> SUFFICES ASSUME IInv, [Next]_vars PROVE IInv'
  OBVIOUS
<1>1. ASSUME NEW a \in Allocations, NEW size \in Sizes,
             NEW alignment \in Alignments, Allocate(a, size, alignment)
      PROVE  IInv'
  BY <1>1, AllocateKeeps
<1>2. ASSUME NEW a \in Allocations, Dispose(a)
      PROVE  IInv'
  BY <1>2, GiveBackKeeps DEF Dispose
<1>3. ASSUME NEW a \in Allocations, Deallocate(a)
      PROVE  IInv'
  BY <1>3, GiveBackKeeps DEF Deallocate, isLive
<1>4. CASE UNCHANGED vars
  BY <1>4 DEF vars, IInv, TypeOK, NoLeaseFromTheFuture, EveryBlockIsSomewhere,
              LiveOnes, FreeBlocks, isLive, made
<1> QED
  BY <1>1, <1>2, <1>3, <1>4 DEF Next

\* The pool's variables keep their types: in particular no lease is larger
\* than a block.
THEOREM TypeCorrect == Spec => []TypeOK
<1>1. IInv => TypeOK
  BY DEF IInv
<1> QED
  BY <1>1, InitIInv, NextIInv, PTL DEF Spec

\* No block is lost and none is handed out twice, for any number of blocks and
\* allocations given back in any order, any number of times.
THEOREM EveryBlockIsSomewhereHolds == Spec => []EveryBlockIsSomewhere
<1>1. IInv => EveryBlockIsSomewhere
  BY DEF IInv
<1> QED
  BY <1>1, InitIInv, NextIInv, PTL DEF Spec

-----------------------------------------------------------------------------

\* Of two blocks, one ends before the other starts.
LEMMA BlocksApart ==
  ASSUME NEW b \in Nat, NEW c \in Nat, b < c
  PROVE  b * BlockSize + BlockSize <= c * BlockSize
<1> DEFINE k == c - b - 1
<1>1. k \in Nat /\ c = b + 1 + k
  OBVIOUS
<1>2. k * BlockSize >= 0
  BY <1>1, PoolAssumption
<1>3. c * BlockSize = b * BlockSize + BlockSize + k * BlockSize
  BY <1>1, PoolAssumption
<1> QED
  BY <1>2, <1>3, PoolAssumption

\* So leases of different blocks share no byte.
LEMMA OtherBlocksOtherBytes ==
  ASSUME NEW l \in Leases, NEW m \in Leases, l.block # m.block
  PROVE  BytesOf(l) \cap BytesOf(m) = {}
<1> USE PoolAssumption
<1> DEFINE p == l.block
           q == m.block
<1>1. /\ p \in Nat /\ q \in Nat
      /\ l.size \in 0 .. BlockSize
      /\ m.size \in 0 .. BlockSize
  BY DEF Leases, Blocks
<1>2. p * BlockSize \in Int /\ q * BlockSize \in Int
  BY <1>1
<1> SUFFICES ASSUME NEW i \in Int,
                    p * BlockSize <= i, i < p * BlockSize + l.size,
                    q * BlockSize <= i, i < q * BlockSize + m.size
             PROVE  FALSE
  BY DEF BytesOf
<1>3. CASE p < q
  <2>1. p * BlockSize + BlockSize <= q * BlockSize
    BY <1>1, <1>3, BlocksApart
  <2> QED
    BY <1>1, <1>2, <2>1
<1>4. CASE q < p
  <2>1. q * BlockSize + BlockSize <= p * BlockSize
    BY <1>1, <1>4, BlocksApart
  <2> QED
    BY <1>1, <1>2, <2>1
<1> QED
  BY <1>1, <1>3, <1>4

LEMMA InitImplements == Init => Contract!Init
BY DEF Init, Contract!Init, LiveOnes, DeadOnes, Held, isLive, made, NoLease

LEMMA AllocateImplements ==
  ASSUME IInv, NEW a \in Allocations, NEW size \in Sizes,
         NEW alignment \in Alignments, Allocate(a, size, alignment)
  PROVE  Contract!Next
<1>1. /\ TypeOK'
      /\ LiveOnes' = LiveOnes \cup {a}
      /\ \A b \in Allocations \ {a} : leases'[b] = leases[b]
      /\ made(a)'
      /\ \A b \in LiveOnes : leases[b].block # leases'[a].block
  BY AllocateKeeps DEF IInv
<1>2. ~made(a)
  BY DEF Allocate
<1>3. a \notin LiveOnes \cup DeadOnes
  BY <1>2 DEF LiveOnes, DeadOnes, isLive, made
<1>4. \A b \in Allocations \ {a} : made(b)' <=> made(b)
  BY <1>1 DEF made
<1>5. Held'[a] = BytesOf(leases'[a])
  BY <1>1 DEF Held, made
<1>6. Held' = [Held EXCEPT ![a] = Held'[a]]
  BY <1>1, <1>4 DEF Held, made
<1>7. Held'[a] \subseteq 0 .. (BlockSize * BlockCount - 1)
  BY <1>5 DEF BytesOf
<1>8. DeadOnes' = DeadOnes
  <2>1. \A b \in Allocations \ {a} : isLive(b)' <=> isLive(b)
    BY <1>1, <1>2 DEF LiveOnes, isLive, made
  <2> QED
    BY <1>1, <1>2, <1>4, <2>1 DEF DeadOnes, LiveOnes, isLive, made
<1>9. \A b \in LiveOnes : Held[b] \cap Held'[a] = {}
  <2> SUFFICES ASSUME NEW b \in LiveOnes PROVE Held[b] \cap Held'[a] = {}
    OBVIOUS
  <2>1. b \in Allocations /\ Held[b] = BytesOf(leases[b])
    BY DEF LiveOnes, isLive, made, Held
  <2>2. leases[b].block # leases'[a].block
    BY <1>1
  <2>3. leases[b] \in Leases /\ leases'[a] \in Leases
    BY <1>1, <2>1 DEF IInv, TypeOK
  <2> QED
    BY <1>5, <2>1, <2>2, <2>3, OtherBlocksOtherBytes
<1> QED
  BY <1>1, <1>3, <1>6, <1>7, <1>8, <1>9 DEF Contract!Next, Contract!Allocate

LEMMA GiveBackImplements ==
  ASSUME IInv, NEW a \in Allocations, isLive(a), GiveBack(a)
  PROVE  Contract!Next
<1>1. LiveOnes' = LiveOnes \ {a} /\ leases' = leases
  BY GiveBackKeeps
<1>2. {a} \in SUBSET LiveOnes
  BY DEF LiveOnes
<1>3. Held' = Held
  BY <1>1 DEF Held, made
<1>4. DeadOnes' = DeadOnes \cup {a}
  BY <1>1, <1>2 DEF DeadOnes, LiveOnes, made, isLive
<1> QED
  BY <1>1, <1>2, <1>3, <1>4 DEF Contract!Next, Contract!Release

\* The pool implements the contract of every allocator: a live allocation's
\* bytes are its own, and what was given back is never live again.
THEOREM PoolImplementsAllocator == Spec => ImplementsAllocator
<1>1. IInv /\ [Next]_vars => [Contract!Next]_Contract!vars
  <2> SUFFICES ASSUME IInv, [Next]_vars PROVE [Contract!Next]_Contract!vars
    OBVIOUS
  <2>1. ASSUME NEW a \in Allocations, NEW size \in Sizes,
               NEW alignment \in Alignments, Allocate(a, size, alignment)
        PROVE  Contract!Next
    BY <2>1, AllocateImplements
  <2>2. ASSUME NEW a \in Allocations, Dispose(a)
        PROVE  Contract!Next
    BY <2>2, GiveBackImplements DEF Dispose
  <2>3. ASSUME NEW a \in Allocations, Deallocate(a)
        PROVE  Contract!Next
    BY <2>3, GiveBackImplements DEF Deallocate, isLive
  <2>4. CASE UNCHANGED vars
    BY <2>4 DEF vars, Contract!vars, LiveOnes, DeadOnes, Held, isLive, made
  <2> QED
    BY <2>1, <2>2, <2>3, <2>4 DEF Next
<1> QED
  BY <1>1, InitIInv, InitImplements, NextIInv, PTL
     DEF Spec, ImplementsAllocator, Contract!Spec

-----------------------------------------------------------------------------
(* The others take memory from the front of a region.                      *)

\* Rounding up goes up.
LEMMA RoundedUp ==
  ASSUME NEW from \in Nat, NEW alignment \in Nat \ {0}
  PROVE  /\ ((from + alignment - 1) \div alignment) * alignment \in Nat
         /\ from <= ((from + alignment - 1) \div alignment) * alignment
<1> DEFINE sum == from + alignment - 1
           quotient == sum \div alignment
<1>1. sum \in Nat /\ quotient \in Nat
  OBVIOUS
<1>2. sum = alignment * quotient + (sum % alignment) /\ sum % alignment \in 0 .. (alignment - 1)
  BY <1>1
<1>3. quotient * alignment = alignment * quotient /\ alignment * quotient \in Nat
  BY <1>1
<1> HIDE DEF quotient
<1>4. from <= quotient * alignment /\ quotient * alignment \in Nat
  BY <1>2, <1>3
<1> QED BY <1>4 DEF quotient

\* And further from further on.
LEMMA RoundedFurther ==
  ASSUME NEW from \in Nat, NEW upto \in Nat, from <= upto, NEW alignment \in Nat \ {0}
  PROVE  ((from + alignment - 1) \div alignment) * alignment
           <= ((upto + alignment - 1) \div alignment) * alignment
<1> DEFINE x == from + alignment - 1
           y == upto + alignment - 1
           p == x \div alignment
           q == y \div alignment
<1>1. x \in Nat /\ y \in Nat /\ x <= y /\ p \in Nat /\ q \in Nat
  OBVIOUS
<1>2. /\ x = alignment * p + (x % alignment) /\ x % alignment \in 0 .. (alignment - 1)
      /\ y = alignment * q + (y % alignment) /\ y % alignment \in 0 .. (alignment - 1)
  BY <1>1
<1>3. /\ p * alignment = alignment * p /\ alignment * p \in Nat
      /\ q * alignment = alignment * q /\ alignment * q \in Nat
  BY <1>1
<1> HIDE DEF x, y, p, q
<1>4. CASE p <= q
  <2> DEFINE d == q - p
  <2>1. d \in Nat /\ q = p + d
    BY <1>1, <1>4
  <2> HIDE DEF d
  <2>2. alignment * q = alignment * p + alignment * d /\ alignment * d \in Nat
    BY <1>1, <2>1
  <2>3. p * alignment <= q * alignment
    BY <1>3, <2>2
  <2> QED BY <2>3 DEF p, q, x, y
<1>5. CASE ~(p <= q)
  <2> DEFINE d == p - q - 1
  <2>1. d \in Nat /\ p = q + 1 + d
    BY <1>1, <1>5
  <2> HIDE DEF d
  <2>2. alignment * p = alignment * q + alignment + alignment * d /\ alignment * d \in Nat
    BY <1>1, <2>1
  <2>3. FALSE
    BY <1>1, <1>2, <1>3, <2>2
  <2> QED BY <2>3
<1> QED BY <1>4, <1>5

-----------------------------------------------------------------------------
(* The fixed buffer.                                                       *)

FixedLeases == [generation : Nat, start : Nat, size : Nat, made : BOOLEAN]

\* What is of this generation lies below the offset, and nothing is of a later.
FixedInv ==
  /\ fixedOffset \in 0 .. Capacity
  /\ fixedGeneration \in Nat
  /\ fixedLeases \in [Allocations -> FixedLeases]
  /\ \A a \in Allocations : fixedLeases[a].made =>
       /\ fixedLeases[a].generation <= fixedGeneration
       /\ fixedLeases[a].generation = fixedGeneration =>
            fixedLeases[a].start + fixedLeases[a].size <= fixedOffset

LEMMA FixedStarts == Fixed!Init => FixedInv /\ Fixed!Contract!Init
<1> SUFFICES ASSUME Fixed!Init PROVE FixedInv /\ Fixed!Contract!Init
  OBVIOUS
<1>1. /\ fixedOffset = 0 /\ fixedGeneration = 0
      /\ fixedLeases = [a \in Allocations |->
           [generation |-> 0, start |-> 0, size |-> 0, made |-> FALSE]]
  BY DEF Fixed!Init, Fixed!NoLease
<1>2. Capacity \in Nat
  BY AllocatorsAssumption DEF Fixed!FixedAssumption
<1>3. FixedInv
  BY <1>1, <1>2 DEF FixedInv, FixedLeases
<1>4. Fixed!LiveOnes = {} /\ Fixed!DeadOnes = {}
      /\ Fixed!Held = [a \in Allocations |-> {}]
  BY <1>1 DEF Fixed!LiveOnes, Fixed!DeadOnes, Fixed!Held, Fixed!isLive, Fixed!BytesOf
<1> QED BY <1>3, <1>4 DEF Fixed!Contract!Init

LEMMA FixedAllocates ==
  ASSUME FixedInv, NEW a \in Allocations, NEW size \in Sizes,
         NEW alignment \in RegionAlignments, Fixed!Allocate(a, size, alignment)
  PROVE  FixedInv' /\ Fixed!Contract!Next
<1> DEFINE start == ((fixedOffset + alignment - 1) \div alignment) * alignment
           l == fixedLeases
           lease == [generation |-> fixedGeneration, start |-> start, size |-> size,
                     made |-> TRUE]
<1>1. /\ ~l[a].made /\ start + size <= Capacity
      /\ l' = [l EXCEPT ![a] = lease]
      /\ fixedOffset' = start + size /\ fixedGeneration' = fixedGeneration
  BY DEF Fixed!Allocate, Fixed!Holds, Fixed!Aligned
<1>2. start \in Nat /\ fixedOffset <= start /\ size \in Nat /\ Capacity \in Nat
      /\ fixedOffset \in Nat /\ fixedGeneration \in Nat
  <2>1. alignment \in Nat \ {0} /\ size \in Nat /\ Capacity \in Nat
        /\ fixedOffset \in Nat /\ fixedGeneration \in Nat
    BY AllocatorsAssumption DEF Fixed!FixedAssumption, FixedInv
  <2> QED BY <2>1, RoundedUp
<1> HIDE DEF start
<1>3. l \in [Allocations -> FixedLeases] /\ lease \in FixedLeases
  BY <1>2 DEF FixedInv, FixedLeases
<1>4. l'[a] = lease /\ \A b \in Allocations \ {a} : l'[b] = l[b]
  BY <1>1, <1>3
<1>5. \A b \in Allocations : l[b].made /\ l[b].generation = fixedGeneration =>
        l[b].start \in Nat /\ l[b].size \in Nat /\ l[b].start + l[b].size <= start
  <2> SUFFICES ASSUME NEW b \in Allocations, l[b].made, l[b].generation = fixedGeneration
               PROVE  l[b].start \in Nat /\ l[b].size \in Nat
                      /\ l[b].start + l[b].size <= start
    OBVIOUS
  <2>1. l[b] \in FixedLeases
    BY <1>3
  <2>2. l[b].start + l[b].size <= fixedOffset
    BY DEF FixedInv
  <2> QED BY <1>2, <2>1, <2>2 DEF FixedLeases
<1>6. FixedInv'
  <2>1. l' \in [Allocations -> FixedLeases]
    BY <1>1, <1>3
  <2>2. fixedOffset' \in 0 .. Capacity
    BY <1>1, <1>2
  <2>3. ASSUME NEW b \in Allocations, l'[b].made
        PROVE  /\ l'[b].generation <= fixedGeneration
               /\ l'[b].generation = fixedGeneration =>
                    l'[b].start + l'[b].size <= start + size
    <3>1. CASE b = a
      BY <1>2, <1>4, <3>1
    <3>2. CASE b # a
      BY <1>2, <1>4, <1>5, <2>3, <3>2 DEF FixedInv
    <3> QED BY <3>1, <3>2
  <2> QED BY <1>1, <1>2, <2>1, <2>2, <2>3 DEF FixedInv
<1>7. Fixed!LiveOnes' = Fixed!LiveOnes \cup {a} /\ Fixed!DeadOnes' = Fixed!DeadOnes
  BY <1>1, <1>4 DEF Fixed!LiveOnes, Fixed!DeadOnes, Fixed!isLive
<1>8. a \notin Fixed!LiveOnes \cup Fixed!DeadOnes
  BY <1>1 DEF Fixed!LiveOnes, Fixed!DeadOnes, Fixed!isLive
<1> DEFINE H == Fixed!Held
<1>9. /\ H'[a] = start .. (start + size - 1)
      /\ H' = [H EXCEPT ![a] = H'[a]]
  <2>1. H'[a] = start .. (start + size - 1)
    BY <1>4 DEF Fixed!Held, Fixed!BytesOf
  <2>2. \A b \in Allocations \ {a} : H'[b] = H[b]
    BY <1>4 DEF Fixed!Held, Fixed!BytesOf
  <2>3. /\ H' = [b \in Allocations |-> H'[b]]
        /\ H = [b \in Allocations |-> H[b]]
    BY DEF Fixed!Held, Fixed!BytesOf
  <2> HIDE DEF H
  <2> QED BY <2>1, <2>2, <2>3
<1>10. \A b \in Fixed!LiveOnes : H[b] \cap H'[a] = {}
  <2> SUFFICES ASSUME NEW b \in Fixed!LiveOnes PROVE H[b] \cap H'[a] = {}
    OBVIOUS
  <2>1. b \in Allocations /\ l[b].made /\ l[b].generation = fixedGeneration
    BY DEF Fixed!LiveOnes, Fixed!isLive
  <2>2. H[b] = l[b].start .. (l[b].start + l[b].size - 1)
    BY <2>1 DEF Fixed!Held, Fixed!BytesOf
  <2> HIDE DEF H
  <2> QED BY <1>2, <1>5, <1>9, <2>1, <2>2
<1>11. H'[a] \subseteq 0 .. (Capacity - 1)
  BY <1>1, <1>2, <1>9
<1> QED
  BY <1>6, <1>7, <1>8, <1>9, <1>10, <1>11 DEF Fixed!Contract!Next, Fixed!Contract!Allocate

LEMMA FixedResets ==
  ASSUME FixedInv, Fixed!Reset PROVE FixedInv' /\ Fixed!Contract!Next
<1>1. fixedGeneration' = fixedGeneration + 1 /\ fixedOffset' = 0
      /\ fixedLeases' = fixedLeases
  BY DEF Fixed!Reset
<1>2. \A a \in Allocations : fixedLeases[a].made =>
        /\ fixedLeases[a].generation <= fixedGeneration + 1
        /\ fixedLeases[a].generation # fixedGeneration + 1
  <2> SUFFICES ASSUME NEW a \in Allocations, fixedLeases[a].made
               PROVE  /\ fixedLeases[a].generation <= fixedGeneration + 1
                      /\ fixedLeases[a].generation # fixedGeneration + 1
    OBVIOUS
  <2>1. fixedLeases[a] \in FixedLeases /\ fixedGeneration \in Nat
        /\ fixedLeases[a].generation <= fixedGeneration
    BY DEF FixedInv
  <2> QED BY <2>1 DEF FixedLeases
<1>3. FixedInv'
  <2>1. Capacity \in Nat
    BY AllocatorsAssumption DEF Fixed!FixedAssumption
  <2> QED BY <1>1, <1>2, <2>1 DEF FixedInv
<1>4. Fixed!LiveOnes' = {} /\ Fixed!DeadOnes' = Fixed!DeadOnes \cup Fixed!LiveOnes
  BY <1>1, <1>2 DEF Fixed!LiveOnes, Fixed!DeadOnes, Fixed!isLive
<1>5. Fixed!Held' = Fixed!Held
  BY <1>1 DEF Fixed!Held, Fixed!BytesOf
<1>6. Fixed!Contract!Release(Fixed!LiveOnes)
  BY <1>4, <1>5 DEF Fixed!Contract!Release
<1> QED BY <1>3, <1>6 DEF Fixed!Contract!Next

\* Disposing of a fixed buffer releases everything it gave out, and no byte is
\* given out twice before (fixedBufferAllocator/index.ts).
THEOREM FixedBufferImplementsAllocator == Fixed!Spec => Fixed!ImplementsAllocator
<1>1. FixedInv /\ [Fixed!Next]_(Fixed!vars) =>
        FixedInv' /\ [Fixed!Contract!Next]_(Fixed!Contract!vars)
  <2> SUFFICES ASSUME FixedInv, [Fixed!Next]_(Fixed!vars)
               PROVE  FixedInv' /\ (Fixed!Contract!Next \/ UNCHANGED Fixed!Contract!vars)
    OBVIOUS
  <2>1. CASE Fixed!Next
    BY <2>1, FixedAllocates, FixedResets DEF Fixed!Next
  <2>2. CASE UNCHANGED Fixed!vars
    <3>1. UNCHANGED <<fixedOffset, fixedGeneration, fixedLeases>>
      BY <2>2 DEF Fixed!vars
    <3> QED
      BY <3>1 DEF FixedInv, Fixed!Contract!vars, Fixed!LiveOnes, Fixed!DeadOnes,
                  Fixed!Held, Fixed!isLive, Fixed!BytesOf
  <2> QED BY <2>1, <2>2
<1> QED
  BY <1>1, FixedStarts, PTL DEF Fixed!Spec, Fixed!Contract!Spec, Fixed!ImplementsAllocator

\* A set of numbers has a least one, and a greatest if it is bounded.
LEMMA LeastOf ==
  ASSUME NEW S \in SUBSET Nat, S # {} PROVE \E m \in S : \A k \in S : m <= k
<1> DEFINE Below(m) == {k \in S : k <= m}
           Belows == {Below(m) : m \in S}
<1>1. Belows \subseteq FiniteSubsetsOf(S) /\ Belows # {}
  <2>1. ASSUME NEW m \in S PROVE IsFiniteSet(Below(m))
    <3>1. Below(m) \in SUBSET Nat /\ \A k \in Below(m) : k <= m
      OBVIOUS
    <3> QED BY <3>1, FS_BoundedSetOfNaturals
  <2> QED BY <2>1 DEF FiniteSubsetsOf
<1>2. PICK X \in Belows : \A Y \in Belows : <<Y, X>> \notin StrictSubsetOrdering(S)
  BY <1>1, FS_StrictSubsetOrderingWellFounded, WFMin
<1>3. PICK m \in S : X = Below(m)
  BY <1>2
<1>4. ASSUME NEW k \in S, k < m PROVE FALSE
  <2>1. Below(k) \in Belows /\ Below(k) \in SUBSET S /\ X \in SUBSET S
    BY <1>3
  <2>2. k \in Nat /\ m \in Nat /\ S \subseteq Nat
    OBVIOUS
  <2>3. Below(k) \subseteq Below(m) /\ m \in Below(m) /\ m \notin Below(k)
    <3>1. \A j \in S : j <= k => j <= m
      BY <2>2, <1>4
    <3>2. m <= m /\ ~(m <= k)
      BY <2>2, <1>4
    <3> QED BY <3>1, <3>2
  <2> QED BY <1>2, <1>3, <2>1, <2>3 DEF StrictSubsetOrdering
<1> QED BY <1>4

-----------------------------------------------------------------------------
(* The arena.                                                              *)

ArenaLeases ==
  [generation : Nat, chunk : Nat, start : Nat, size : Nat, made : BOOLEAN]

\* What is of this generation lies in the chunks up to the current one, and in
\* that one below the offset; nothing is of a later generation.
ArenaInv ==
  /\ chunks \in Seq(Nat)
  /\ current \in 0 .. Len(chunks)
  /\ arenaOffset \in Nat
  /\ arenaGeneration \in Nat
  /\ arenaLeases \in [Allocations -> ArenaLeases]
  /\ \A a \in Allocations : arenaLeases[a].made =>
       /\ arenaLeases[a].generation <= arenaGeneration
       /\ arenaLeases[a].generation = arenaGeneration =>
            LET end == arenaLeases[a].start + arenaLeases[a].size IN
            /\ arenaLeases[a].chunk \in 1 .. current
            /\ end <= chunks[arenaLeases[a].chunk]
            /\ arenaLeases[a].chunk = current => end <= arenaOffset

LEMMA ArenaStarts == Arena!Init => ArenaInv /\ Arena!Contract!Init
<1> SUFFICES ASSUME Arena!Init PROVE ArenaInv /\ Arena!Contract!Init
  OBVIOUS
<1>1. /\ chunks = <<>> /\ current = 0 /\ arenaOffset = 0 /\ arenaGeneration = 0
      /\ arenaLeases = [a \in Allocations |->
           [generation |-> 0, chunk |-> 0, start |-> 0, size |-> 0, made |-> FALSE]]
  BY DEF Arena!Init, Arena!NoLease
<1>2. ArenaInv
  BY <1>1 DEF ArenaInv, ArenaLeases
<1>3. Arena!LiveOnes = {} /\ Arena!DeadOnes = {}
      /\ Arena!Held = [a \in Allocations |-> {}]
  BY <1>1 DEF Arena!LiveOnes, Arena!DeadOnes, Arena!Held, Arena!isLive, Arena!BytesOf
<1> QED BY <1>2, <1>3 DEF Arena!Contract!Init

\* There is a chunk after the current one that serves a request: the first that
\* is large enough, or one more.
LEMMA ChunkServes ==
  ASSUME ArenaInv, NEW size \in Nat
  PROVE  /\ Arena!NextChunk(size) \in (current + 1) .. (Len(chunks) + 1)
         /\ Arena!NextChunk(size) <= Len(chunks) => chunks[Arena!NextChunk(size)] >= size
<1> DEFINE n == Len(chunks)
           Serves(k) == k <= n => chunks[k] >= size
           S == {k \in (current + 1) .. (n + 1) : Serves(k)}
<1>1. chunks \in Seq(Nat) /\ current \in 0 .. n /\ n \in Nat
  BY DEF ArenaInv
<1> HIDE DEF n
<1>2. S \in SUBSET Nat /\ n + 1 \in S
  BY <1>1
<1>3. PICK m \in S : \A k \in S : m <= k
  <2> HIDE DEF S
  <2> QED BY <1>2, LeastOf
<1>4. \A k \in (current + 1) .. (m - 1) : chunks[k] < size
  <2> SUFFICES ASSUME NEW k \in (current + 1) .. (m - 1) PROVE chunks[k] < size
    OBVIOUS
  <2>1. m \in (current + 1) .. (n + 1)
    BY <1>3
  <2>2. k \in 1 .. n /\ k \in (current + 1) .. (n + 1) /\ ~(m <= k)
    BY <1>1, <2>1
  <2>3. chunks[k] \in Nat
    BY <1>1, <2>2 DEF n
  <2>4. ~Serves(k)
    BY <1>3, <2>2
  <2> QED BY <2>3, <2>4
<1>5. /\ m \in (current + 1) .. (n + 1)
      /\ m <= n => chunks[m] >= size
  BY <1>3
<1> QED BY <1>4, <1>5 DEF Arena!NextChunk, n

\* Wherever it is taken from, what is given out is the part of one chunk from the
\* offset on.
LEMMA ArenaGives ==
  ASSUME ArenaInv, NEW a \in Allocations, NEW size \in Sizes,
         NEW alignment \in RegionAlignments, Arena!Allocate(a, size, alignment)
  PROVE  /\ ~arenaLeases[a].made
         /\ size \in Nat
         /\ arenaGeneration' = arenaGeneration
         /\ \E start \in Nat :
              /\ arenaLeases' = [arenaLeases EXCEPT ![a] =
                   [generation |-> arenaGeneration, chunk |-> current',
                    start |-> start, size |-> size, made |-> TRUE]]
              /\ arenaOffset' = start + size
              /\ chunks' \in Seq(Nat) /\ Len(chunks) <= Len(chunks')
              /\ \A k \in 1 .. Len(chunks) : chunks'[k] = chunks[k]
              /\ current' \in 1 .. Len(chunks') /\ start + size <= chunks'[current']
              /\ \/ current < current'
                 \/ current' = current /\ arenaOffset <= start
<1> DEFINE start == ((arenaOffset + alignment - 1) \div alignment) * alignment
           n == Arena!NextChunk(size)
<1>1. /\ ~arenaLeases[a].made /\ arenaGeneration' = arenaGeneration
      /\ \/ /\ current # 0 /\ start + size <= chunks[current]
            /\ arenaLeases' = [arenaLeases EXCEPT ![a] =
                 [generation |-> arenaGeneration, chunk |-> current,
                  start |-> start, size |-> size, made |-> TRUE]]
            /\ arenaOffset' = start + size
            /\ chunks' = chunks /\ current' = current
         \/ /\ arenaLeases' = [arenaLeases EXCEPT ![a] =
                 [generation |-> arenaGeneration, chunk |-> n,
                  start |-> 0, size |-> size, made |-> TRUE]]
            /\ current' = n
            /\ arenaOffset' = size
            /\ chunks' = IF n <= Len(chunks) THEN chunks
                         ELSE Append(chunks, IF size > ChunkSize THEN size ELSE ChunkSize)
  BY DEF Arena!Allocate, Arena!Lease, Arena!Holds, Arena!Aligned
<1>2. /\ size \in Nat /\ alignment \in Nat \ {0} /\ ChunkSize \in Nat
      /\ arenaOffset \in Nat /\ chunks \in Seq(Nat) /\ Len(chunks) \in Nat
      /\ current \in 0 .. Len(chunks)
  BY AllocatorsAssumption DEF Arena!ArenaAssumption, ArenaInv
<1>3. start \in Nat /\ arenaOffset <= start
  BY <1>2, RoundedUp
<1>4. n \in (current + 1) .. (Len(chunks) + 1)
      /\ (n <= Len(chunks) => chunks[n] >= size)
  BY <1>2, ChunkServes
<1> HIDE DEF start, n
<1>5. CASE current # 0 /\ current' = current /\ chunks' = chunks
           /\ arenaOffset' = start + size /\ start + size <= chunks[current]
           /\ arenaLeases' = [arenaLeases EXCEPT ![a] =
                 [generation |-> arenaGeneration, chunk |-> current,
                  start |-> start, size |-> size, made |-> TRUE]]
  <2>1. /\ chunks' \in Seq(Nat) /\ Len(chunks) <= Len(chunks')
        /\ \A k \in 1 .. Len(chunks) : chunks'[k] = chunks[k]
        /\ current' \in 1 .. Len(chunks') /\ start + size <= chunks'[current']
    BY <1>2, <1>5
  <2> QED BY <1>1, <1>2, <1>3, <1>5, <2>1
<1>6. CASE /\ arenaLeases' = [arenaLeases EXCEPT ![a] =
                 [generation |-> arenaGeneration, chunk |-> n,
                  start |-> 0, size |-> size, made |-> TRUE]]
           /\ current' = n
           /\ arenaOffset' = size
           /\ chunks' = IF n <= Len(chunks) THEN chunks
                        ELSE Append(chunks, IF size > ChunkSize THEN size ELSE ChunkSize)
  <2> DEFINE large == IF size > ChunkSize THEN size ELSE ChunkSize
  <2>1. large \in Nat /\ size <= large
    BY <1>2
  <2> HIDE DEF large
  <2>2. /\ chunks' \in Seq(Nat) /\ Len(chunks) <= Len(chunks')
        /\ \A k \in 1 .. Len(chunks) : chunks'[k] = chunks[k]
        /\ n \in 1 .. Len(chunks') /\ size <= chunks'[n]
    <3>1. CASE n <= Len(chunks)
      BY <1>2, <1>4, <1>6, <3>1
    <3>2. CASE ~(n <= Len(chunks))
      <4>1. n = Len(chunks) + 1
        BY <1>2, <1>4, <3>2
      <4>2. chunks' = Append(chunks, large)
        BY <1>6, <3>2 DEF large
      <4>3. /\ chunks' \in Seq(Nat) /\ Len(chunks') = Len(chunks) + 1
            /\ chunks'[Len(chunks) + 1] = large
            /\ \A k \in 1 .. Len(chunks) : chunks'[k] = chunks[k]
        BY <1>2, <2>1, <4>2
      <4> QED BY <1>2, <2>1, <4>1, <4>3
    <3> QED BY <3>1, <3>2
  <2>3. current < current'
    BY <1>2, <1>4, <1>6
  <2>4. /\ 0 \in Nat /\ 0 + size = size
        /\ arenaLeases' = [arenaLeases EXCEPT ![a] =
             [generation |-> arenaGeneration, chunk |-> current',
              start |-> 0, size |-> size, made |-> TRUE]]
    BY <1>2, <1>6
  <2>5. \E from \in Nat :
          /\ arenaLeases' = [arenaLeases EXCEPT ![a] =
               [generation |-> arenaGeneration, chunk |-> current',
                start |-> from, size |-> size, made |-> TRUE]]
          /\ arenaOffset' = from + size
          /\ from + size <= chunks'[current']
    <3> WITNESS 0 \in Nat
    <3> QED BY <1>6, <2>2, <2>4
  <2> QED BY <1>1, <1>2, <1>6, <2>2, <2>3, <2>5
<1> QED BY <1>1, <1>5, <1>6

LEMMA ArenaAllocates ==
  ASSUME ArenaInv, NEW a \in Allocations, NEW size \in Sizes,
         NEW alignment \in RegionAlignments, Arena!Allocate(a, size, alignment)
  PROVE  ArenaInv' /\ Arena!Contract!Next
<1> DEFINE l == arenaLeases
           g == arenaGeneration
           H == Arena!Held
<1>1. PICK start \in Nat :
         /\ l' = [l EXCEPT ![a] = [generation |-> g, chunk |-> current',
                  start |-> start, size |-> size, made |-> TRUE]]
         /\ arenaOffset' = start + size
         /\ chunks' \in Seq(Nat) /\ Len(chunks) <= Len(chunks')
         /\ \A k \in 1 .. Len(chunks) : chunks'[k] = chunks[k]
         /\ current' \in 1 .. Len(chunks') /\ start + size <= chunks'[current']
         /\ \/ current < current'
            \/ current' = current /\ arenaOffset <= start
  BY ArenaGives
<1>2. ~l[a].made /\ size \in Nat /\ arenaGeneration' = g
  BY ArenaGives
<1>3. /\ g \in Nat /\ arenaOffset \in Nat /\ current \in Nat /\ current <= Len(chunks)
      /\ Len(chunks) \in Nat /\ Len(chunks') \in Nat /\ current' \in Nat
      /\ l \in [Allocations -> ArenaLeases]
  <2>1. Len(chunks) \in Nat /\ Len(chunks') \in Nat
    BY <1>1 DEF ArenaInv
  <2> QED BY <1>1, <2>1 DEF ArenaInv
<1>4. /\ l'[a] = [generation |-> g, chunk |-> current', start |-> start,
                  size |-> size, made |-> TRUE]
      /\ \A b \in Allocations \ {a} : l'[b] = l[b]
  BY <1>1, <1>3
<1>5. ASSUME NEW b \in Allocations, l[b].made, l[b].generation = g
      PROVE  /\ l[b].start \in Nat /\ l[b].size \in Nat /\ l[b].chunk \in 1 .. current
             /\ l[b].start + l[b].size <= chunks[l[b].chunk]
             /\ l[b].start + l[b].size <= chunks'[l[b].chunk]
             /\ l[b].chunk <= current'
             /\ l[b].chunk = current' => l[b].start + l[b].size <= start
  <2>1. l[b] \in ArenaLeases
    BY <1>3
  <2>2. /\ l[b].chunk \in 1 .. current
        /\ l[b].start + l[b].size <= chunks[l[b].chunk]
        /\ l[b].chunk = current => l[b].start + l[b].size <= arenaOffset
    BY <1>5 DEF ArenaInv
  <2>3. l[b].start \in Nat /\ l[b].size \in Nat /\ l[b].chunk \in Nat
    BY <2>1 DEF ArenaLeases
  <2> DEFINE c == l[b].chunk
  <2>4. chunks'[c] = chunks[c]
    <3>1. c \in 1 .. Len(chunks)
      BY <1>3, <2>2, <2>3
    <3> QED BY <1>1, <3>1
  <2>5. c <= current' /\ (c = current' => current = current')
    <3>1. c <= current /\ current <= current'
      BY <1>1, <1>3, <2>2, <2>3
    <3> HIDE DEF c
    <3> QED BY <1>1, <1>3, <3>1, <2>3 DEF c
  <2>6. l[b].chunk = current' => l[b].start + l[b].size <= start
    BY <1>1, <1>3, <2>2, <2>3, <2>5
  <2> QED BY <2>2, <2>3, <2>4, <2>5, <2>6
<1>6. ArenaInv'
  <2>1. l' \in [Allocations -> ArenaLeases]
    <3>1. [generation |-> g, chunk |-> current', start |-> start, size |-> size,
           made |-> TRUE] \in ArenaLeases
      BY <1>2, <1>3 DEF ArenaLeases
    <3> QED BY <1>1, <1>3, <3>1
  <2>2. ASSUME NEW b \in Allocations, l'[b].made
        PROVE  /\ l'[b].generation <= g
               /\ l'[b].generation = g =>
                    /\ l'[b].chunk \in 1 .. current'
                    /\ l'[b].start + l'[b].size <= chunks'[l'[b].chunk]
                    /\ l'[b].chunk = current' => l'[b].start + l'[b].size <= arenaOffset'
    <3>1. CASE b = a
      BY <1>1, <1>2, <1>3, <1>4, <3>1
    <3>2. CASE b # a
      <4>1. l'[b] = l[b] /\ l[b].made
        BY <1>4, <2>2, <3>2
      <4>2. l[b].generation <= g
        BY <4>1 DEF ArenaInv
      <4>3. ASSUME l[b].generation = g
            PROVE  /\ l[b].chunk \in 1 .. current'
                   /\ l[b].start + l[b].size <= chunks'[l[b].chunk]
                   /\ l[b].chunk = current' => l[b].start + l[b].size <= arenaOffset'
        BY <1>1, <1>2, <1>3, <1>5, <4>1, <4>3
      <4> QED BY <4>1, <4>2, <4>3
    <3> QED BY <3>1, <3>2
  <2>3. arenaOffset' \in Nat /\ current' \in 0 .. Len(chunks')
    BY <1>1, <1>2, <1>3
  <2> QED BY <1>1, <1>2, <1>3, <2>1, <2>2, <2>3 DEF ArenaInv
<1>7. Arena!LiveOnes' = Arena!LiveOnes \cup {a} /\ Arena!DeadOnes' = Arena!DeadOnes
  BY <1>2, <1>4 DEF Arena!LiveOnes, Arena!DeadOnes, Arena!isLive
<1>8. a \notin Arena!LiveOnes \cup Arena!DeadOnes
  BY <1>2 DEF Arena!LiveOnes, Arena!DeadOnes, Arena!isLive
<1>9. /\ H'[a] = {<<current', i>> : i \in start .. (start + size - 1)}
      /\ H' = [H EXCEPT ![a] = H'[a]]
  <2>1. H'[a] = {<<current', i>> : i \in start .. (start + size - 1)}
    BY <1>4 DEF Arena!Held, Arena!BytesOf
  <2>2. \A b \in Allocations \ {a} : H'[b] = H[b]
    BY <1>4 DEF Arena!Held, Arena!BytesOf
  <2>3. /\ H' = [b \in Allocations |-> H'[b]]
        /\ H = [b \in Allocations |-> H[b]]
    BY DEF Arena!Held, Arena!BytesOf
  <2> HIDE DEF H
  <2> QED BY <2>1, <2>2, <2>3
<1>10. \A b \in Arena!LiveOnes : H[b] \cap H'[a] = {}
  <2> SUFFICES ASSUME NEW b \in Arena!LiveOnes PROVE H[b] \cap H'[a] = {}
    OBVIOUS
  <2>1. b \in Allocations /\ l[b].made /\ l[b].generation = g
    BY DEF Arena!LiveOnes, Arena!isLive
  <2>2. H[b] = {<<l[b].chunk, i>> : i \in l[b].start .. (l[b].start + l[b].size - 1)}
    BY <2>1 DEF Arena!Held, Arena!BytesOf
  <2>3. ASSUME l[b].chunk = current',
               NEW i \in l[b].start .. (l[b].start + l[b].size - 1)
        PROVE  i \notin start .. (start + size - 1)
    BY <1>2, <1>5, <2>1, <2>3
  <2> HIDE DEF H
  <2> QED BY <1>9, <2>2, <2>3
<1>11. H'[a] \subseteq Nat \X Nat
  <2>1. start .. (start + size - 1) \subseteq Nat
    BY <1>1, <1>2
  <2> HIDE DEF H
  <2> QED BY <1>3, <1>9, <2>1
<1> QED
  BY <1>6, <1>7, <1>8, <1>9, <1>10, <1>11 DEF Arena!Contract!Next, Arena!Contract!Allocate

LEMMA ArenaResets ==
  ASSUME ArenaInv, Arena!Reset PROVE ArenaInv' /\ Arena!Contract!Next
<1>1. /\ arenaGeneration' = arenaGeneration + 1 /\ arenaOffset' = 0 /\ current' = 0
      /\ arenaLeases' = arenaLeases /\ chunks' = chunks
  BY DEF Arena!Reset
<1>2. \A a \in Allocations : arenaLeases[a].made =>
        /\ arenaLeases[a].generation <= arenaGeneration + 1
        /\ arenaLeases[a].generation # arenaGeneration + 1
  <2> SUFFICES ASSUME NEW a \in Allocations, arenaLeases[a].made
               PROVE  /\ arenaLeases[a].generation <= arenaGeneration + 1
                      /\ arenaLeases[a].generation # arenaGeneration + 1
    OBVIOUS
  <2>1. arenaLeases[a] \in ArenaLeases /\ arenaGeneration \in Nat
        /\ arenaLeases[a].generation <= arenaGeneration
    BY DEF ArenaInv
  <2> QED BY <2>1 DEF ArenaLeases
<1>3. ArenaInv'
  <2>1. Len(chunks) \in Nat
    BY DEF ArenaInv
  <2> QED BY <1>1, <1>2, <2>1 DEF ArenaInv
<1>4. Arena!LiveOnes' = {} /\ Arena!DeadOnes' = Arena!DeadOnes \cup Arena!LiveOnes
  BY <1>1, <1>2 DEF Arena!LiveOnes, Arena!DeadOnes, Arena!isLive
<1>5. Arena!Held' = Arena!Held
  BY <1>1 DEF Arena!Held, Arena!BytesOf
<1>6. Arena!Contract!Release(Arena!LiveOnes)
  BY <1>4, <1>5 DEF Arena!Contract!Release
<1> QED BY <1>3, <1>6 DEF Arena!Contract!Next

LEMMA ArenaStep ==
  ArenaInv /\ [Arena!Next]_(Arena!vars) =>
    ArenaInv' /\ [Arena!Contract!Next]_(Arena!Contract!vars)
<1> SUFFICES ASSUME ArenaInv, [Arena!Next]_(Arena!vars)
             PROVE  ArenaInv' /\ (Arena!Contract!Next \/ UNCHANGED Arena!Contract!vars)
  OBVIOUS
<1>1. CASE Arena!Next
  BY <1>1, ArenaAllocates, ArenaResets DEF Arena!Next
<1>2. CASE UNCHANGED Arena!vars
  <2>1. UNCHANGED <<chunks, current, arenaOffset, arenaGeneration, arenaLeases>>
    BY <1>2 DEF Arena!vars
  <2> QED
    BY <2>1 DEF ArenaInv, Arena!Contract!vars, Arena!LiveOnes, Arena!DeadOnes,
                Arena!Held, Arena!isLive, Arena!BytesOf
<1> QED BY <1>1, <1>2

\* The arena gives no byte of a chunk to two holders, and what a reset released
\* stays dead when the chunks are filled again (arenaAllocator/index.ts).
THEOREM ArenaImplementsAllocator ==
  Arena!Spec => Arena!ImplementsAllocator /\ []Arena!ChunksHoldWhatIsLive
<1>1. ArenaInv => Arena!ChunksHoldWhatIsLive
  BY DEF ArenaInv, Arena!ChunksHoldWhatIsLive, Arena!isLive
<1> QED
  BY <1>1, ArenaStarts, ArenaStep, PTL
     DEF Arena!Spec, Arena!Contract!Spec, Arena!ImplementsAllocator

-----------------------------------------------------------------------------
(* The managed allocator.                                                  *)

\* The frames kept are entered ones, each once; every open one is among them, and
\* the innermost is open.
FramesStand ==
  /\ \A i, j \in 1 .. Len(regionFrames) : i < j => regionFrames[i] # regionFrames[j]
  /\ \A f \in regionLive : \E i \in 1 .. Len(regionFrames) : regionFrames[i] = f
  /\ \A i \in 1 .. Len(regionFrames) : regionFrames[i] \in regionEntered
  /\ regionFrames # <<>> => regionFrames[Len(regionFrames)] \in regionLive

\* A frame found the region no further than it is, and no further than a frame
\* above it did; the lowest found it empty.  What was wanted is at least what is
\* taken, now and where any frame found it.
MarksRise ==
  /\ regionOffset <= wanted
  /\ \A i \in 1 .. Len(regionFrames) :
       LET f == regionFrames[i] IN
       /\ regionMark[f] <= regionOffset
       /\ wantedMark[f] <= wanted
       /\ regionMark[f] <= wantedMark[f]
       /\ i = 1 => regionMark[f] = 0 /\ wantedMark[f] = 0
       /\ \A j \in 1 .. Len(regionFrames) : i < j =>
            /\ regionMark[f] <= regionMark[regionFrames[j]]
            /\ wantedMark[f] <= wantedMark[regionFrames[j]]
  /\ regionFrames = <<>> => regionOffset = 0 /\ wanted = 0 /\ peak = 0

\* What an open frame holds in the region lies below the offset, and below where
\* each frame above found it.
LeasesStand ==
  \A a \in Allocations : regionLeases[a].made =>
    LET l == regionLeases[a] IN
    /\ l.frame \in regionEntered \cup {always}
    /\ l.region # 0 => l.frame # always
    /\ l.region # 0 /\ l.frame \in regionLive =>
         /\ l.region = region
         /\ l.start + l.size <= regionOffset
         /\ \A i, j \in 1 .. Len(regionFrames) :
              i < j /\ regionFrames[i] = l.frame =>
                l.start + l.size <= regionMark[regionFrames[j]]

ManagedInv == Managed!TypeOK /\ FramesStand /\ MarksRise /\ LeasesStand

LEMMA ManagedTyped ==
  ASSUME ManagedInv
  PROVE  /\ region \in Nat /\ regionOffset \in Nat /\ regionOffset <= region
         /\ regionFrames \in Seq(Frames) /\ Len(regionFrames) \in Nat
         /\ regionMark \in [Frames -> Nat] /\ wantedMark \in [Frames -> Nat]
         /\ wanted \in Nat /\ peak \in Nat /\ wanted <= peak
         /\ regionLeases \in [Allocations -> Managed!Leases]
         /\ \A i \in 1 .. Len(regionFrames) : regionFrames[i] \in Frames
         /\ \A a \in Allocations :
              /\ regionLeases[a].start \in Nat /\ regionLeases[a].size \in Nat
              /\ regionLeases[a].region \in Nat
              /\ regionLeases[a].frame \in Frames \cup {always}
<1>1. /\ region \in Nat /\ regionOffset \in 0 .. region
      /\ regionFrames \in Seq(Frames)
      /\ regionMark \in [Frames -> Nat] /\ wantedMark \in [Frames -> Nat]
      /\ wanted \in 0 .. peak /\ peak \in Nat
      /\ regionLeases \in [Allocations -> Managed!Leases]
  BY DEF ManagedInv, Managed!TypeOK
<1>2. \A a \in Allocations : regionLeases[a] \in Managed!Leases
  BY <1>1
<1>3. \A a \in Allocations :
              /\ regionLeases[a].start \in Nat /\ regionLeases[a].size \in Nat
              /\ regionLeases[a].region \in Nat
              /\ regionLeases[a].frame \in Frames \cup {always}
  BY <1>2 DEF Managed!Leases
<1>4. Len(regionFrames) \in Nat /\ \A i \in 1 .. Len(regionFrames) : regionFrames[i] \in Frames
  BY <1>1
<1> QED BY <1>1, <1>3, <1>4

LEMMA ManagedConstants ==
  /\ RegionSizes \subseteq Nat /\ RegionAlignments \subseteq Nat \ {0}
  /\ always \notin Frames /\ Allocations \cap Nat = {}
  BY AllocatorsAssumption DEF Managed!ManagedAssumption

LEMMA ManagedStarts == Managed!Init => ManagedInv /\ Managed!Contract!Init
<1> SUFFICES ASSUME Managed!Init PROVE ManagedInv /\ Managed!Contract!Init
  OBVIOUS
<1>1. /\ region = 0 /\ regionOffset = 0 /\ regionFrames = <<>>
      /\ regionMark = [f \in Frames |-> 0] /\ wantedMark = [f \in Frames |-> 0]
      /\ regionLive = {} /\ regionEntered = {} /\ wanted = 0 /\ peak = 0
      /\ regionLeases = [a \in Allocations |->
           [frame |-> always, region |-> 0, start |-> 0, size |-> 0, made |-> FALSE]]
  BY DEF Managed!Init, Managed!NoLease, Managed!own
<1>2. Managed!TypeOK
  <2>1. [frame |-> always, region |-> 0, start |-> 0, size |-> 0, made |-> FALSE]
          \in Managed!Leases
    BY DEF Managed!Leases
  <2>2. regionLeases \in [Allocations -> Managed!Leases]
    BY <1>1, <2>1
  <2>3. /\ region \in Nat /\ regionOffset \in 0 .. region /\ regionFrames \in Seq(Frames)
        /\ wanted \in 0 .. peak /\ peak \in Nat
        /\ regionLive \subseteq Frames /\ regionEntered \subseteq Frames
    BY <1>1
  <2>4. regionMark \in [Frames -> Nat] /\ wantedMark \in [Frames -> Nat]
    BY <1>1
  <2> QED BY <2>2, <2>3, <2>4 DEF Managed!TypeOK
<1>3. FramesStand /\ MarksRise /\ LeasesStand
  BY <1>1 DEF FramesStand, MarksRise, LeasesStand
<1>4. Managed!LiveOnes = {} /\ Managed!DeadOnes = {}
      /\ Managed!Held = [a \in Allocations |-> {}]
  BY <1>1 DEF Managed!LiveOnes, Managed!DeadOnes, Managed!Held, Managed!isLive,
              Managed!made, Managed!BytesOf, Managed!EndOf, Managed!own
<1> QED BY <1>2, <1>3, <1>4 DEF ManagedInv, Managed!Contract!Init

LEMMA ManagedHolds ==
  ASSUME ManagedInv, NEW b \in Allocations, regionLeases[b].made
  PROVE  Managed!Held[b] =
           {<<IF regionLeases[b].region = 0 THEN b ELSE regionLeases[b].region, i>> :
              i \in regionLeases[b].start
                      .. (regionLeases[b].start + regionLeases[b].size - 1)}
<1>1. regionLeases[b].start \in Nat /\ regionLeases[b].size \in Nat
  BY ManagedTyped
<1> QED
  BY <1>1
     DEF Managed!Held, Managed!BytesOf, Managed!EndOf, Managed!made, Managed!own

\* An allocation in a buffer of its own, or in the region from the offset on.
LEMMA ManagedGives ==
  ASSUME ManagedInv, NEW a \in Allocations, NEW size \in Nat, NEW start \in Nat,
         NEW where \in Nat, NEW f \in regionLive \cup {always},
         ~regionLeases[a].made,
         regionLeases' = [regionLeases EXCEPT ![a] = [frame |-> f, region |-> where,
                            start |-> start, size |-> size, made |-> TRUE]],
         UNCHANGED <<region, regionFrames, regionMark, wantedMark, regionLive,
                     regionEntered>>,
         wanted' \in Nat, peak' \in Nat, wanted <= wanted', wanted' <= peak',
         regionFrames = <<>> => wanted' = 0 /\ peak' = 0,
         \/ where = 0 /\ regionOffset' = regionOffset
         \/ /\ where = region /\ region # 0 /\ regionFrames # <<>>
            /\ f = regionFrames[Len(regionFrames)]
            /\ regionOffset <= start /\ regionOffset' = start + size
            /\ start + size <= region /\ start + size <= wanted'
  PROVE  ManagedInv' /\ Managed!Contract!Next
<1> DEFINE l == regionLeases
           lease == [frame |-> f, region |-> where, start |-> start, size |-> size,
                     made |-> TRUE]
           n == Len(regionFrames)
           H == Managed!Held
<1>1. l'[a] = lease /\ \A b \in Allocations \ {a} : l'[b] = l[b]
  BY ManagedTyped
<1>2. regionOffset <= regionOffset' /\ regionOffset' \in Nat /\ regionOffset' <= region
      /\ regionOffset' <= wanted'
  <2>1. /\ regionOffset \in Nat /\ region \in Nat /\ regionOffset <= region
        /\ regionOffset <= wanted /\ wanted \in Nat
    BY ManagedTyped DEF ManagedInv, MarksRise
  <2>2. CASE where = 0 /\ regionOffset' = regionOffset
    BY <2>1, <2>2
  <2>3. CASE regionOffset <= start /\ regionOffset' = start + size
             /\ start + size <= region /\ start + size <= wanted'
    BY <2>1, <2>3
  <2> QED BY <2>2, <2>3
<1>3. Managed!TypeOK'
  <2>1. f \in Frames \cup {always}
    BY DEF ManagedInv, Managed!TypeOK
  <2>2. lease \in Managed!Leases
    BY <2>1 DEF Managed!Leases
  <2>3. l' \in [Allocations -> Managed!Leases]
    BY <2>2, ManagedTyped
  <2> QED BY <1>2, <2>3 DEF ManagedInv, Managed!TypeOK
<1>4. FramesStand'
  BY DEF ManagedInv, FramesStand
<1>5. MarksRise'
  <2>1. \A i \in 1 .. n :
          LET g == regionFrames[i] IN
          /\ regionMark[g] <= regionOffset' /\ wantedMark[g] <= wanted'
    <3> SUFFICES ASSUME NEW i \in 1 .. n
                 PROVE  /\ regionMark[regionFrames[i]] <= regionOffset'
                        /\ wantedMark[regionFrames[i]] <= wanted'
      OBVIOUS
    <3>1. /\ regionMark[regionFrames[i]] <= regionOffset /\ wantedMark[regionFrames[i]] <= wanted
          /\ regionMark[regionFrames[i]] \in Nat /\ wantedMark[regionFrames[i]] \in Nat
      BY ManagedTyped DEF ManagedInv, MarksRise
    <3>2. regionOffset \in Nat /\ wanted \in Nat
      BY ManagedTyped
    <3> QED BY <1>2, <3>1, <3>2
  <2>2. regionFrames = <<>> => regionOffset' = 0
    BY DEF ManagedInv, MarksRise
  <2> QED BY <1>2, <2>1, <2>2 DEF ManagedInv, MarksRise
<1>6. \A i \in 1 .. n, j \in 1 .. n : i < j => regionFrames[i] # regionFrames[n]
  <2> SUFFICES ASSUME NEW i \in 1 .. n, NEW j \in 1 .. n, i < j
               PROVE  regionFrames[i] # regionFrames[n]
    OBVIOUS
  <2>1. n \in Nat
    BY ManagedTyped
  <2> HIDE DEF n
  <2>2. n \in 1 .. n /\ i < n
    BY <2>1
  <2> QED BY <2>2 DEF ManagedInv, FramesStand, n
<1>7. LeasesStand'
  <2> SUFFICES ASSUME NEW b \in Allocations, l'[b].made
               PROVE  /\ l'[b].frame \in regionEntered \cup {always}
                      /\ l'[b].region # 0 => l'[b].frame # always
                      /\ l'[b].region # 0 /\ l'[b].frame \in regionLive =>
                           /\ l'[b].region = region
                           /\ l'[b].start + l'[b].size <= regionOffset'
                           /\ \A i, j \in 1 .. n :
                                i < j /\ regionFrames[i] = l'[b].frame =>
                                  l'[b].start + l'[b].size <= regionMark[regionFrames[j]]
    BY DEF LeasesStand
  <2>1. CASE b = a
    <3>1. f \in regionEntered \cup {always}
      BY DEF ManagedInv, FramesStand
    <3>2. where # 0 => f # always
      BY ManagedTyped, ManagedConstants
    <3> QED BY <1>1, <1>2, <1>6, <2>1, <3>1, <3>2
  <2>2. CASE b # a
    <3>1. l'[b] = l[b] /\ l[b].made
      BY <1>1, <2>2
    <3>2. l[b].start \in Nat /\ l[b].size \in Nat /\ regionOffset \in Nat
      BY ManagedTyped
    <3>3. /\ l[b].frame \in regionEntered \cup {always}
          /\ l[b].region # 0 => l[b].frame # always
          /\ l[b].region # 0 /\ l[b].frame \in regionLive =>
               /\ l[b].region = region
               /\ l[b].start + l[b].size <= regionOffset
               /\ \A i, j \in 1 .. n :
                    i < j /\ regionFrames[i] = l[b].frame =>
                      l[b].start + l[b].size <= regionMark[regionFrames[j]]
      BY <3>1 DEF ManagedInv, LeasesStand
    <3>4. l[b].start + l[b].size <= regionOffset => l[b].start + l[b].size <= regionOffset'
      BY <1>2, <3>2
    <3> HIDE DEF n
    <3> QED BY <3>1, <3>3, <3>4
  <2> QED BY <2>1, <2>2
<1>8. Managed!LiveOnes' = Managed!LiveOnes \cup {a} /\ Managed!DeadOnes' = Managed!DeadOnes
      /\ a \notin Managed!LiveOnes \cup Managed!DeadOnes
  BY <1>1 DEF Managed!LiveOnes, Managed!DeadOnes, Managed!isLive, Managed!made
<1>9. /\ H'[a] = {<<IF where = 0 THEN a ELSE where, i>> : i \in start .. (start + size - 1)}
      /\ H' = [H EXCEPT ![a] = H'[a]]
  <2>1. H'[a] = {<<IF where = 0 THEN a ELSE where, i>> : i \in start .. (start + size - 1)}
    BY <1>1 DEF Managed!Held, Managed!BytesOf, Managed!EndOf, Managed!made, Managed!own
  <2>2. \A b \in Allocations \ {a} : H'[b] = H[b]
    BY <1>1 DEF Managed!Held, Managed!BytesOf, Managed!EndOf, Managed!made
  <2>3. /\ H' = [b \in Allocations |-> H'[b]]
        /\ H = [b \in Allocations |-> H[b]]
    BY DEF Managed!Held, Managed!BytesOf, Managed!EndOf, Managed!made
  <2> HIDE DEF H
  <2> QED BY <2>1, <2>2, <2>3
<1>10. \A b \in Managed!LiveOnes : H[b] \cap H'[a] = {}
  <2> SUFFICES ASSUME NEW b \in Managed!LiveOnes PROVE H[b] \cap H'[a] = {}
    OBVIOUS
  <2>1. b \in Allocations /\ l[b].made /\ l[b].frame \in regionLive \cup {always} /\ a # b
    BY DEF Managed!LiveOnes, Managed!isLive, Managed!made
  <2>2. H[b] = {<<IF l[b].region = 0 THEN b ELSE l[b].region, i>> :
                  i \in l[b].start .. (l[b].start + l[b].size - 1)}
    BY <2>1, ManagedHolds
  <2>3. /\ l[b].start \in Nat /\ l[b].size \in Nat /\ l[b].region \in Nat
        /\ regionOffset \in Nat
    BY <2>1, ManagedTyped
  <2>4. a \notin Nat /\ b \notin Nat
    BY <2>1, ManagedConstants
  <2>5. CASE l[b].region # 0 /\ where # 0
    <3>1. l[b].start + l[b].size <= regionOffset /\ regionOffset <= start
      BY <2>1, <2>5 DEF ManagedInv, LeasesStand
    <3>2. \A i \in l[b].start .. (l[b].start + l[b].size - 1) :
            i \notin start .. (start + size - 1)
      BY <2>3, <3>1
    <3> HIDE DEF H
    <3> QED BY <1>9, <2>2, <3>2
  <2>6. CASE l[b].region = 0 \/ where = 0
    <3>1. (IF l[b].region = 0 THEN b ELSE l[b].region) # (IF where = 0 THEN a ELSE where)
      BY <2>1, <2>3, <2>4, <2>6
    <3> HIDE DEF H
    <3> QED BY <1>9, <2>2, <3>1
  <2> QED BY <2>5, <2>6
<1>11. H'[a] \subseteq (Allocations \cup Nat) \X Nat
  <2>1. start .. (start + size - 1) \subseteq Nat
    OBVIOUS
  <2>2. (IF where = 0 THEN a ELSE where) \in Allocations \cup Nat
    OBVIOUS
  <2> HIDE DEF H
  <2> QED BY <1>9, <2>1, <2>2
<1> QED
  BY <1>3, <1>4, <1>5, <1>7, <1>8, <1>9, <1>10, <1>11
     DEF ManagedInv, Managed!Contract!Next, Managed!Contract!Allocate

\* allocate takes nothing from the region.
LEMMA ManagedAllocates ==
  ASSUME ManagedInv, NEW a \in Allocations, NEW size \in RegionSizes,
         Managed!Allocate(a, size)
  PROVE  ManagedInv' /\ Managed!Contract!Next
<1>1. /\ ~regionLeases[a].made
      /\ regionLeases' = [regionLeases EXCEPT ![a] = [frame |-> always, region |-> 0,
                            start |-> 0, size |-> size, made |-> TRUE]]
      /\ UNCHANGED <<region, regionFrames, regionMark, wantedMark, regionLive,
                     regionEntered>>
      /\ UNCHANGED <<regionOffset, wanted, peak>>
  BY DEF Managed!Allocate, Managed!made, Managed!Lease, Managed!own, Managed!frameVars
<1>2. /\ size \in Nat /\ 0 \in Nat /\ always \in regionLive \cup {always}
      /\ wanted' \in Nat /\ peak' \in Nat /\ wanted <= wanted' /\ wanted' <= peak'
  BY <1>1, ManagedTyped, ManagedConstants
<1>3. regionFrames = <<>> => wanted' = 0 /\ peak' = 0
  BY <1>1 DEF ManagedInv, MarksRise
<1> QED BY <1>1, <1>2, <1>3, ManagedGives

\* allocateIn takes from the region what fits, and wants at least as much.
LEMMA ManagedAllocatesIn ==
  ASSUME ManagedInv, NEW a \in Allocations, NEW size \in RegionSizes, NEW f \in Frames,
         NEW alignment \in RegionAlignments, Managed!AllocateIn(f, a, size, alignment)
  PROVE  ManagedInv' /\ Managed!Contract!Next
<1> DEFINE start == ((regionOffset + alignment - 1) \div alignment) * alignment
           upto == ((wanted + alignment - 1) \div alignment) * alignment
           top == regionFrames # <<>> /\ regionFrames[Len(regionFrames)] = f
           takes == top /\ region # 0 /\ start + size <= region
<1>1. /\ ~regionLeases[a].made /\ f \in regionLive
      /\ IF top THEN wanted' = upto + size /\ peak' = IF wanted' > peak THEN wanted' ELSE peak
                ELSE UNCHANGED <<wanted, peak>>
      /\ UNCHANGED <<region, regionFrames, regionMark, wantedMark, regionLive,
                     regionEntered>>
  BY DEF Managed!AllocateIn, Managed!made, Managed!Wants, Managed!Takes, Managed!Innermost,
         Managed!Holds, Managed!Aligned, Managed!Lease, Managed!own, Managed!frameVars
<1>11. takes => /\ regionOffset' = start + size
                /\ regionLeases' = [regionLeases EXCEPT ![a] = [frame |-> f,
                     region |-> region, start |-> start, size |-> size, made |-> TRUE]]
  BY DEF Managed!AllocateIn, Managed!made, Managed!Wants, Managed!Takes, Managed!Innermost,
         Managed!Holds, Managed!Aligned, Managed!Lease, Managed!own, Managed!frameVars
<1>12. ~takes => /\ regionOffset' = regionOffset
                 /\ regionLeases' = [regionLeases EXCEPT ![a] = [frame |-> f,
                      region |-> 0, start |-> 0, size |-> size, made |-> TRUE]]
  BY DEF Managed!AllocateIn, Managed!made, Managed!Wants, Managed!Takes, Managed!Innermost,
         Managed!Holds, Managed!Aligned, Managed!Lease, Managed!own, Managed!frameVars
<1>2. /\ size \in Nat /\ alignment \in Nat \ {0} /\ regionOffset \in Nat /\ region \in Nat
      /\ wanted \in Nat /\ peak \in Nat /\ wanted <= peak /\ regionOffset <= wanted
  BY ManagedTyped, ManagedConstants DEF ManagedInv, MarksRise
<1>3. /\ start \in Nat /\ regionOffset <= start /\ start <= upto
      /\ upto \in Nat /\ wanted <= upto
  BY <1>2, RoundedUp, RoundedFurther
<1> HIDE DEF start, upto
<1>4. /\ wanted' \in Nat /\ peak' \in Nat /\ wanted <= wanted' /\ wanted' <= peak'
      /\ top => wanted' = upto + size
  BY <1>1, <1>2, <1>3
<1>5. regionFrames # <<>> /\ f \in regionLive \cup {always}
  BY <1>1, ManagedTyped DEF ManagedInv, FramesStand
<1>6. CASE takes
  <2>1. /\ region \in Nat /\ start + size <= region /\ start + size <= wanted'
        /\ regionOffset' = start + size /\ region # 0
        /\ f = regionFrames[Len(regionFrames)]
    BY <1>2, <1>3, <1>4, <1>6, <1>11
  <2>2. regionLeases' = [regionLeases EXCEPT ![a] = [frame |-> f, region |-> region,
                            start |-> start, size |-> size, made |-> TRUE]]
    BY <1>6, <1>11
  <2> QED BY <1>1, <1>2, <1>3, <1>4, <1>5, <2>1, <2>2, ManagedGives
<1>7. CASE ~takes
  <2>1. regionOffset' = regionOffset /\ 0 \in Nat
    BY <1>7, <1>12
  <2>2. regionLeases' = [regionLeases EXCEPT ![a] = [frame |-> f, region |-> 0,
                            start |-> 0, size |-> size, made |-> TRUE]]
    BY <1>7, <1>12
  <2> QED BY <1>1, <1>2, <1>4, <1>5, <2>1, <2>2, ManagedGives
<1> QED BY <1>6, <1>7

\* A frame entered holds nothing, and finds the region where it stands.
LEMMA ManagedEnters ==
  ASSUME ManagedInv, NEW f \in Frames, Managed!Enter(f)
  PROVE  ManagedInv' /\ UNCHANGED Managed!Contract!vars
<1> DEFINE n == Len(regionFrames)
           l == regionLeases
<1>1. /\ f \notin regionEntered /\ regionEntered' = regionEntered \cup {f}
      /\ regionLive' = regionLive \cup {f}
      /\ regionMark' = [regionMark EXCEPT ![f] = regionOffset]
      /\ wantedMark' = [wantedMark EXCEPT ![f] = wanted]
      /\ regionFrames' = Append(regionFrames, f)
      /\ UNCHANGED <<region, regionOffset, wanted, peak, regionLeases>>
  BY DEF Managed!Enter
<1>2. regionFrames \in Seq(Frames) /\ n \in Nat
  BY ManagedTyped
<1>3. /\ regionFrames' \in Seq(Frames) /\ Len(regionFrames') = n + 1
      /\ regionFrames'[n + 1] = f
      /\ \A i \in 1 .. n : regionFrames'[i] = regionFrames[i]
  BY <1>1, <1>2
<1>4. \A i \in 1 .. n : regionFrames[i] \in Frames \ {f}
  BY <1>1, ManagedTyped DEF ManagedInv, FramesStand
<1>5. /\ regionMark' \in [Frames -> Nat] /\ wantedMark' \in [Frames -> Nat]
      /\ regionMark'[f] = regionOffset /\ wantedMark'[f] = wanted
      /\ \A g \in Frames \ {f} : regionMark'[g] = regionMark[g] /\ wantedMark'[g] = wantedMark[g]
  BY <1>1, ManagedTyped
<1>6. Managed!TypeOK'
  BY <1>1, <1>3, <1>5 DEF ManagedInv, Managed!TypeOK
<1>7. FramesStand'
  <2>1. \A i, j \in 1 .. (n + 1) : i < j => regionFrames'[i] # regionFrames'[j]
    <3> SUFFICES ASSUME NEW i \in 1 .. (n + 1), NEW j \in 1 .. (n + 1), i < j
                 PROVE  regionFrames'[i] # regionFrames'[j]
      OBVIOUS
    <3> HIDE DEF n
    <3>1. i \in 1 .. n /\ (j \in 1 .. n \/ j = n + 1)
      BY <1>2
    <3> QED BY <1>3, <1>4, <3>1 DEF ManagedInv, FramesStand, n
  <2>2. \A g \in regionLive' : \E i \in 1 .. (n + 1) : regionFrames'[i] = g
    <3> SUFFICES ASSUME NEW g \in regionLive' PROVE \E i \in 1 .. (n + 1) : regionFrames'[i] = g
      OBVIOUS
    <3>1. CASE g = f
      <4>1. n + 1 \in 1 .. (n + 1)
        BY <1>2
      <4> QED BY <1>3, <3>1, <4>1
    <3>2. CASE g # f
      <4>1. PICK i \in 1 .. n : regionFrames[i] = g
        BY <1>1, <3>2 DEF ManagedInv, FramesStand
      <4>2. i \in 1 .. (n + 1)
        BY <1>2
      <4> QED BY <1>3, <4>1, <4>2
    <3> QED BY <3>1, <3>2
  <2>3. \A i \in 1 .. (n + 1) : regionFrames'[i] \in regionEntered'
    <3> SUFFICES ASSUME NEW i \in 1 .. (n + 1) PROVE regionFrames'[i] \in regionEntered'
      OBVIOUS
    <3>1. i \in 1 .. n \/ i = n + 1
      BY <1>2
    <3> QED BY <1>1, <1>3, <3>1 DEF ManagedInv, FramesStand
  <2> QED BY <1>1, <1>3, <2>1, <2>2, <2>3 DEF FramesStand
<1>8. MarksRise'
  <2> SUFFICES ASSUME NEW i \in 1 .. (n + 1)
               PROVE  LET g == regionFrames'[i] IN
                      /\ regionMark'[g] <= regionOffset
                      /\ wantedMark'[g] <= wanted
                      /\ regionMark'[g] <= wantedMark'[g]
                      /\ i = 1 => regionMark'[g] = 0 /\ wantedMark'[g] = 0
                      /\ \A j \in 1 .. (n + 1) : i < j =>
                           /\ regionMark'[g] <= regionMark'[regionFrames'[j]]
                           /\ wantedMark'[g] <= wantedMark'[regionFrames'[j]]
    <3>1. regionOffset' <= wanted' /\ regionFrames' # <<>>
      BY <1>1, <1>2, <1>3 DEF ManagedInv, MarksRise
    <3> QED BY <1>1, <1>3, <3>1 DEF MarksRise
  <2>1. /\ regionOffset \in Nat /\ wanted \in Nat /\ regionOffset <= wanted
    BY ManagedTyped DEF ManagedInv, MarksRise
  <2>2. CASE i = n + 1
    <3>1. n = 0 => regionFrames = <<>>
      BY <1>2
    <3>2. n = 0 => regionOffset = 0 /\ wanted = 0
      BY <3>1 DEF ManagedInv, MarksRise
    <3>3. i = 1 => n = 0
      BY <1>2, <2>2
    <3>4. \A j \in 1 .. (n + 1) : ~(i < j)
      BY <1>2, <2>2
    <3> QED BY <1>3, <1>5, <2>1, <2>2, <3>2, <3>3, <3>4
  <2>3. CASE i \in 1 .. n
    <3> DEFINE g == regionFrames[i]
    <3>1. regionFrames'[i] = g /\ regionMark'[g] = regionMark[g] /\ wantedMark'[g] = wantedMark[g]
      BY <1>3, <1>4, <1>5, <2>3
    <3>2. /\ regionMark[g] <= regionOffset /\ wantedMark[g] <= wanted
          /\ regionMark[g] <= wantedMark[g]
          /\ i = 1 => regionMark[g] = 0 /\ wantedMark[g] = 0
      BY <2>3 DEF ManagedInv, MarksRise
    <3>3. ASSUME NEW j \in 1 .. (n + 1), i < j
          PROVE  /\ regionMark[g] <= regionMark'[regionFrames'[j]]
                 /\ wantedMark[g] <= wantedMark'[regionFrames'[j]]
      <4>1. CASE j = n + 1
        BY <1>3, <1>5, <3>2, <4>1
      <4>2. CASE j \in 1 .. n
        <5>1. regionFrames'[j] = regionFrames[j]
              /\ regionMark'[regionFrames[j]] = regionMark[regionFrames[j]]
              /\ wantedMark'[regionFrames[j]] = wantedMark[regionFrames[j]]
          BY <1>3, <1>4, <1>5, <4>2
        <5>2. /\ regionMark[g] <= regionMark[regionFrames[j]]
              /\ wantedMark[g] <= wantedMark[regionFrames[j]]
          BY <2>3, <3>3, <4>2 DEF ManagedInv, MarksRise
        <5> QED BY <5>1, <5>2
      <4>3. j = n + 1 \/ j \in 1 .. n
        BY <1>2
      <4> QED BY <4>1, <4>2, <4>3
    <3> QED BY <3>1, <3>2, <3>3
  <2>4. i = n + 1 \/ i \in 1 .. n
    BY <1>2
  <2> QED BY <2>2, <2>3, <2>4
<1>9. \A a \in Allocations : l[a].made => l[a].frame # f
  BY <1>1, ManagedConstants DEF ManagedInv, LeasesStand
<1>10. LeasesStand'
  <2> SUFFICES ASSUME NEW b \in Allocations, l[b].made
               PROVE  /\ l[b].frame \in regionEntered' \cup {always}
                      /\ l[b].region # 0 => l[b].frame # always
                      /\ l[b].region # 0 /\ l[b].frame \in regionLive' =>
                           /\ l[b].region = region
                           /\ l[b].start + l[b].size <= regionOffset
                           /\ \A i, j \in 1 .. (n + 1) :
                                i < j /\ regionFrames'[i] = l[b].frame =>
                                  l[b].start + l[b].size <= regionMark'[regionFrames'[j]]
    BY <1>1, <1>3 DEF LeasesStand
  <2>1. /\ l[b].frame \in regionEntered \cup {always}
        /\ l[b].region # 0 => l[b].frame # always
        /\ l[b].region # 0 /\ l[b].frame \in regionLive =>
             /\ l[b].region = region
             /\ l[b].start + l[b].size <= regionOffset
             /\ \A i, j \in 1 .. n :
                  i < j /\ regionFrames[i] = l[b].frame =>
                    l[b].start + l[b].size <= regionMark[regionFrames[j]]
    BY DEF ManagedInv, LeasesStand
  <2>2. l[b].frame \in regionLive' => l[b].frame \in regionLive
    BY <1>1, <1>9
  <2>3. ASSUME NEW i \in 1 .. (n + 1), NEW j \in 1 .. (n + 1), i < j,
               regionFrames'[i] = l[b].frame, l[b].region # 0, l[b].frame \in regionLive
        PROVE  l[b].start + l[b].size <= regionMark'[regionFrames'[j]]
    <3> HIDE DEF n
    <3>1. i \in 1 .. n /\ (j = n + 1 \/ j \in 1 .. n)
      BY <1>2, <2>3
    <3>2. CASE j = n + 1
      BY <1>3, <1>5, <2>1, <2>3, <3>2
    <3>3. CASE j \in 1 .. n
      <4>1. /\ regionFrames'[i] = regionFrames[i] /\ regionFrames'[j] = regionFrames[j]
            /\ regionMark'[regionFrames[j]] = regionMark[regionFrames[j]]
        BY <1>3, <1>4, <1>5, <3>1, <3>3
      <4> QED BY <2>1, <2>3, <3>1, <3>3, <4>1
    <3> QED BY <3>1, <3>2, <3>3
  <2> QED BY <1>1, <2>1, <2>2, <2>3
<1>11. Managed!LiveOnes' = Managed!LiveOnes /\ Managed!DeadOnes' = Managed!DeadOnes
  BY <1>1, <1>9 DEF Managed!LiveOnes, Managed!DeadOnes, Managed!isLive, Managed!made
<1>12. Managed!Held' = Managed!Held
  BY <1>1 DEF Managed!Held, Managed!BytesOf, Managed!EndOf, Managed!made
<1> QED
  BY <1>6, <1>7, <1>8, <1>10, <1>11, <1>12 DEF ManagedInv, Managed!Contract!vars

LEMMA GreatestOf ==
  ASSUME NEW S \in SUBSET Nat, S # {}, NEW n \in Nat, \A k \in S : k <= n
  PROVE  \E m \in S : \A k \in S : k <= m
<1> DEFINE T == {n - k : k \in S}
<1>1. T \in SUBSET Nat /\ T # {}
  <2>1. \A k \in S : k \in Nat /\ k <= n
    OBVIOUS
  <2>2. \A k \in S : n - k \in Nat
    BY <2>1
  <2> QED BY <2>2
<1>2. PICK d \in T : \A e \in T : d <= e
  <2> HIDE DEF T
  <2> QED BY <1>1, LeastOf
<1>3. PICK m \in S : d = n - m
  BY <1>2
<1>4. \A k \in S : n - k \in T
  OBVIOUS
<1> QED BY <1>2, <1>3, <1>4

\* Down to the innermost of those left, or to none.
LEMMA Keeps ==
  ASSUME NEW n \in Nat, NEW s, NEW left
  PROVE  \E k \in 0 .. n : /\ k = 0 \/ s[k] \in left
                           /\ \A i \in (k + 1) .. n : s[i] \notin left
<1> DEFINE S == {k \in 0 .. n : k = 0 \/ s[k] \in left}
<1>1. S \in SUBSET Nat /\ 0 \in S /\ \A k \in S : k <= n
  OBVIOUS
<1>2. PICK m \in S : \A k \in S : k <= m
  <2> HIDE DEF S
  <2> QED BY <1>1, GreatestOf
<1>3. ASSUME NEW i \in (m + 1) .. n PROVE s[i] \notin left
  <2>1. m \in 0 .. n /\ i \in 0 .. n /\ ~(i <= m)
    OBVIOUS
  <2> QED BY <1>2, <2>1
<1> QED BY <1>3

\* What leave does to the frames, and to the region.
ManagedLeft(f, kept) ==
  LET n == Len(regionFrames)
      lowest == regionFrames[kept + 1]
      grows == kept = 0 /\ peak > region
  IN /\ kept = 0 \/ regionFrames[kept] \in regionLive \ {f}
     /\ \A i \in (kept + 1) .. n : regionFrames[i] \notin regionLive \ {f}
     /\ f \in regionLive /\ regionLive' = regionLive \ {f}
     /\ regionFrames' = SubSeq(regionFrames, 1, kept)
     /\ wanted' = IF kept < n THEN wantedMark[lowest] ELSE wanted
     /\ region' = IF grows THEN peak ELSE region
     /\ regionOffset' = IF grows THEN 0
                        ELSE IF kept < n /\ region # 0 THEN regionMark[lowest]
                        ELSE regionOffset
     /\ peak' = IF kept = 0 THEN 0 ELSE peak
     /\ UNCHANGED <<regionMark, wantedMark, regionEntered, regionLeases>>

LEMMA ManagedLeaving ==
  ASSUME ManagedInv, NEW f \in Frames, Managed!Leave(f)
  PROVE  \E kept \in 0 .. Len(regionFrames) : ManagedLeft(f, kept)
<1> DEFINE n == Len(regionFrames)
           left == regionLive \ {f}
           kept == CHOOSE k \in 0 .. n : /\ k = 0 \/ regionFrames[k] \in left
                                         /\ \A i \in (k + 1) .. n : regionFrames[i] \notin left
           lowest == regionFrames[kept + 1]
           grows == kept = 0 /\ peak > region
<1>1. /\ f \in regionLive /\ regionLive' = left
      /\ regionFrames' = SubSeq(regionFrames, 1, kept)
      /\ wanted' = IF kept < n THEN wantedMark[lowest] ELSE wanted
      /\ region' = IF grows THEN peak ELSE region
      /\ regionOffset' = IF grows THEN 0
                         ELSE IF kept < n /\ region # 0 THEN regionMark[lowest]
                         ELSE regionOffset
      /\ peak' = IF kept = 0 THEN 0 ELSE peak
      /\ UNCHANGED <<regionMark, wantedMark, regionEntered, regionLeases>>
  BY DEF Managed!Leave, Managed!Kept
<1>2. n \in Nat
  BY ManagedTyped
<1>3. /\ kept \in 0 .. n
      /\ kept = 0 \/ regionFrames[kept] \in left
      /\ \A i \in (kept + 1) .. n : regionFrames[i] \notin left
  <2> HIDE DEF left, n
  <2>1. \E k \in 0 .. n : /\ k = 0 \/ regionFrames[k] \in left
                          /\ \A i \in (k + 1) .. n : regionFrames[i] \notin left
    BY <1>2, Keeps
  <2> QED BY <2>1
<1> HIDE DEF kept
<1> QED BY <1>1, <1>3 DEF ManagedLeft

LEMMA ManagedLeaves ==
  ASSUME ManagedInv, NEW f \in Frames, NEW kept \in 0 .. Len(regionFrames),
         ManagedLeft(f, kept)
  PROVE  ManagedInv' /\ Managed!Contract!Next
<1> DEFINE n == Len(regionFrames)
           lowest == regionFrames[kept + 1]
           l == regionLeases
           gone == {a \in Managed!LiveOnes : regionLeases[a].frame = f}
<1>1. /\ f \in regionLive /\ regionLive' = regionLive \ {f}
      /\ UNCHANGED <<regionMark, wantedMark, regionEntered, regionLeases>>
      /\ kept = 0 \/ regionFrames[kept] \in regionLive \ {f}
      /\ regionFrames' = SubSeq(regionFrames, 1, kept)
      /\ \A i \in (kept + 1) .. n : regionFrames[i] \notin regionLive \ {f}
  BY DEF ManagedLeft
<1>2. /\ n \in Nat /\ kept \in Nat /\ kept <= n /\ regionFrames \in Seq(Frames)
      /\ region \in Nat /\ regionOffset \in Nat /\ regionOffset <= region
      /\ wanted \in Nat /\ peak \in Nat /\ wanted <= peak /\ regionOffset <= wanted
  BY ManagedTyped DEF ManagedInv, MarksRise
<1>3. /\ regionFrames' \in Seq(Frames) /\ Len(regionFrames') = kept
      /\ \A i \in 1 .. kept : regionFrames'[i] = regionFrames[i] /\ i \in 1 .. n
  <2>1. \A i \in 1 .. n : regionFrames[i] \in Frames
    BY ManagedTyped
  <2> HIDE DEF n
  <2>2. \A i \in 1 .. kept : i \in 1 .. n
    BY <1>2
  <2> QED BY <1>1, <1>2, <2>1, <2>2
<1>4. n >= 1
  <2>1. PICK i \in 1 .. n : regionFrames[i] = f
    BY <1>1 DEF ManagedInv, FramesStand
  <2> QED BY <1>2, <2>1
<1>5. ASSUME kept < n
      PROVE  /\ lowest \in Frames /\ regionMark[lowest] \in Nat /\ wantedMark[lowest] \in Nat
             /\ regionMark[lowest] <= regionOffset /\ wantedMark[lowest] <= wanted
             /\ regionMark[lowest] <= wantedMark[lowest]
             /\ kept = 0 => regionMark[lowest] = 0 /\ wantedMark[lowest] = 0
             /\ \A i \in 1 .. kept :
                  /\ regionMark[regionFrames[i]] <= regionMark[lowest]
                  /\ wantedMark[regionFrames[i]] <= wantedMark[lowest]
  <2>1. kept + 1 \in 1 .. n /\ (kept = 0 => kept + 1 = 1)
    BY <1>2, <1>5
  <2>2. \A i \in 1 .. kept : i \in 1 .. n /\ i < kept + 1
    BY <1>2
  <2>3. lowest \in Frames
    BY <2>1, ManagedTyped
  <2>4. regionMark[lowest] \in Nat /\ wantedMark[lowest] \in Nat
    BY <2>3, ManagedTyped
  <2> QED BY <2>1, <2>2, <2>3, <2>4 DEF ManagedInv, MarksRise
<1>6. /\ kept < n => wanted' = wantedMark[lowest] /\ (region # 0 /\ ~(kept = 0 /\ peak > region)
                                                        => regionOffset' = regionMark[lowest])
      /\ kept = n => wanted' = wanted /\ regionOffset' = regionOffset
      /\ kept = 0 /\ peak > region => region' = peak /\ regionOffset' = 0
      /\ ~(kept = 0 /\ peak > region) =>
           region' = region /\ (region = 0 => regionOffset' = regionOffset)
      /\ kept = 0 => peak' = 0
      /\ kept # 0 => peak' = peak
  BY <1>2, <1>4 DEF ManagedLeft
<1>7. region = 0 => regionOffset = 0
  BY <1>2
<1>8. /\ region' \in Nat /\ regionOffset' \in Nat /\ regionOffset' <= region'
      /\ wanted' \in Nat /\ peak' \in Nat /\ wanted' <= peak'
      /\ regionOffset' <= wanted'
      /\ kept = 0 => regionOffset' = 0 /\ wanted' = 0 /\ peak' = 0
  <2> HIDE DEF n, lowest
  <2>1. CASE kept = n
    BY <1>2, <1>4, <1>6, <2>1
  <2>2. CASE kept < n /\ kept = 0
    BY <1>2, <1>5, <1>6, <1>7, <2>2
  <2>3. CASE kept < n /\ kept # 0
    BY <1>2, <1>5, <1>6, <1>7, <2>3
  <2> QED BY <1>2, <2>1, <2>2, <2>3
<1>9. Managed!TypeOK'
  <2>1. regionOffset' \in 0 .. region' /\ wanted' \in 0 .. peak'
    BY <1>8
  <2>2. regionLive' \subseteq Frames
    BY <1>1 DEF ManagedInv, Managed!TypeOK
  <2> QED BY <1>1, <1>3, <1>8, <2>1, <2>2 DEF ManagedInv, Managed!TypeOK
<1>10. \A g \in regionLive \ {f} : \E i \in 1 .. kept : regionFrames[i] = g
  <2> SUFFICES ASSUME NEW g \in regionLive \ {f}
               PROVE  \E i \in 1 .. kept : regionFrames[i] = g
    OBVIOUS
  <2>1. PICK i \in 1 .. n : regionFrames[i] = g
    BY DEF ManagedInv, FramesStand
  <2>2. i \notin (kept + 1) .. n
    BY <1>1, <2>1
  <2>3. i \in 1 .. kept
    BY <1>2, <2>2
  <2> QED BY <2>1, <2>3
<1>11. FramesStand'
  <2>1. \A i, j \in 1 .. kept : i < j => regionFrames'[i] # regionFrames'[j]
    BY <1>3 DEF ManagedInv, FramesStand
  <2>2. \A g \in regionLive' : \E i \in 1 .. kept : regionFrames'[i] = g
    BY <1>1, <1>3, <1>10
  <2>3. \A i \in 1 .. kept : regionFrames'[i] \in regionEntered'
    BY <1>1, <1>3 DEF ManagedInv, FramesStand
  <2>4. regionFrames' # <<>> => regionFrames'[kept] \in regionLive'
    <3>1. ASSUME regionFrames' # <<>> PROVE kept # 0 /\ kept \in 1 .. kept
      BY <1>2, <1>3, <3>1
    <3> QED BY <1>1, <1>3, <3>1
  <2> QED BY <1>3, <2>1, <2>2, <2>3, <2>4 DEF FramesStand
<1>12. MarksRise'
  <2> SUFFICES ASSUME NEW i \in 1 .. kept
               PROVE  LET g == regionFrames'[i] IN
                      /\ regionMark'[g] <= regionOffset'
                      /\ wantedMark'[g] <= wanted'
                      /\ regionMark'[g] <= wantedMark'[g]
                      /\ i = 1 => regionMark'[g] = 0 /\ wantedMark'[g] = 0
                      /\ \A j \in 1 .. kept : i < j =>
                           /\ regionMark'[g] <= regionMark'[regionFrames'[j]]
                           /\ wantedMark'[g] <= wantedMark'[regionFrames'[j]]
    <3>1. regionFrames' = <<>> => kept = 0
      BY <1>3
    <3>2. Len(regionFrames') = kept
      BY <1>3
    <3> QED BY <1>8, <3>1, <3>2 DEF MarksRise
  <2> DEFINE g == regionFrames[i]
  <2>1. /\ regionMark[g] <= regionOffset
        /\ wantedMark[g] <= wanted
        /\ regionMark[g] <= wantedMark[g]
        /\ i = 1 => regionMark[g] = 0 /\ wantedMark[g] = 0
        /\ \A j \in 1 .. kept : i < j =>
             /\ regionMark[g] <= regionMark[regionFrames[j]]
             /\ wantedMark[g] <= wantedMark[regionFrames[j]]
    BY <1>3 DEF ManagedInv, MarksRise
  <2>2. g \in Frames /\ regionMark[g] \in Nat /\ wantedMark[g] \in Nat
    <3>1. g \in Frames
      BY <1>3, ManagedTyped
    <3> QED BY <3>1, ManagedTyped
  <2>3. kept # 0
    BY <1>2
  <2>4. regionMark[g] <= regionOffset' /\ wantedMark[g] <= wanted'
    <3> HIDE DEF n, lowest, g
    <3>1. CASE kept = n
      BY <1>6, <2>1, <3>1
    <3>2. CASE kept < n
      <4>1. regionMark[g] <= regionMark[lowest] /\ wantedMark[g] <= wantedMark[lowest]
        BY <1>5, <3>2 DEF g
      <4> QED BY <1>2, <1>6, <1>7, <2>1, <2>2, <2>3, <3>2, <4>1
    <3> QED BY <1>2, <3>1, <3>2
  <2>5. regionFrames'[i] = g /\ \A j \in 1 .. kept : regionFrames'[j] = regionFrames[j]
    BY <1>3
  <2> HIDE DEF g
  <2> QED BY <1>1, <2>1, <2>4, <2>5
<1>13. LeasesStand'
  <2> SUFFICES ASSUME NEW b \in Allocations, l[b].made
               PROVE  /\ l[b].frame \in regionEntered \cup {always}
                      /\ l[b].region # 0 => l[b].frame # always
                      /\ l[b].region # 0 /\ l[b].frame \in regionLive \ {f} =>
                           /\ l[b].region = region'
                           /\ l[b].start + l[b].size <= regionOffset'
                           /\ \A i, j \in 1 .. kept :
                                i < j /\ regionFrames[i] = l[b].frame =>
                                  l[b].start + l[b].size <= regionMark[regionFrames[j]]
    BY <1>1, <1>3 DEF LeasesStand
  <2>1. /\ l[b].frame \in regionEntered \cup {always}
        /\ l[b].region # 0 => l[b].frame # always
        /\ l[b].region # 0 /\ l[b].frame \in regionLive =>
             /\ l[b].region = region
             /\ l[b].start + l[b].size <= regionOffset
             /\ \A i, j \in 1 .. n :
                  i < j /\ regionFrames[i] = l[b].frame =>
                    l[b].start + l[b].size <= regionMark[regionFrames[j]]
    BY DEF ManagedInv, LeasesStand
  <2> SUFFICES ASSUME l[b].region # 0, l[b].frame \in regionLive \ {f}
               PROVE  /\ l[b].region = region'
                      /\ l[b].start + l[b].size <= regionOffset'
                      /\ \A i, j \in 1 .. kept :
                           i < j /\ regionFrames[i] = l[b].frame =>
                             l[b].start + l[b].size <= regionMark[regionFrames[j]]
    BY <2>1
  <2>2. PICK i \in 1 .. kept : regionFrames[i] = l[b].frame
    BY <1>10
  <2>3. kept # 0 /\ region # 0
    BY <1>2, <2>1, <2>2
  <2>4. l[b].region = region'
    BY <1>6, <2>1, <2>3
  <2>5. l[b].start + l[b].size <= regionOffset'
    <3>1. CASE kept = n
      BY <1>6, <2>1, <3>1
    <3>2. CASE kept < n
      <4>1. i \in 1 .. n /\ kept + 1 \in 1 .. n /\ i < kept + 1
        BY <1>2, <3>2
      <4>2. l[b].start + l[b].size <= regionMark[lowest]
        BY <2>1, <2>2, <4>1
      <4> QED BY <1>6, <2>3, <3>2, <4>2
    <3> QED BY <1>2, <3>1, <3>2
  <2> QED BY <1>3, <2>1, <2>4, <2>5
<1>14. f # always
  BY ManagedConstants
<1>15. /\ Managed!LiveOnes' = Managed!LiveOnes \ gone
       /\ Managed!DeadOnes' = Managed!DeadOnes \cup gone
       /\ gone \in SUBSET Managed!LiveOnes
  BY <1>1, <1>14 DEF Managed!LiveOnes, Managed!DeadOnes, Managed!isLive, Managed!made
<1>16. Managed!Held' = Managed!Held
  BY <1>1 DEF Managed!Held, Managed!BytesOf, Managed!EndOf, Managed!made
<1> QED
  BY <1>9, <1>11, <1>12, <1>13, <1>15, <1>16
     DEF ManagedInv, Managed!Contract!Next, Managed!Contract!Release

\* A pass that is given a buffer of its own wanted more than the region; leaving
\* the last frame grows the region to what was wanted.
LEMMA ManagedSpills ==
  ManagedInv /\ [Managed!Next]_(Managed!vars) =>
    [/\ \A a \in Allocations :
          /\ ~regionLeases[a].made /\ regionLeases'[a].made /\ regionLeases'[a].region = 0
          /\ regionFrames # <<>>
          /\ regionFrames[Len(regionFrames)] = regionLeases'[a].frame
          /\ regionLeases'[a].size > 0
          => wanted' > region
     /\ regionFrames # <<>> /\ regionFrames' = <<>> => region' >= peak /\ region' >= region
    ]_(Managed!vars)
<1> SUFFICES ASSUME ManagedInv, Managed!Next
             PROVE  /\ \A a \in Allocations :
                         /\ ~regionLeases[a].made /\ regionLeases'[a].made
                         /\ regionLeases'[a].region = 0
                         /\ regionFrames # <<>>
                         /\ regionFrames[Len(regionFrames)] = regionLeases'[a].frame
                         /\ regionLeases'[a].size > 0
                         => wanted' > region
                    /\ regionFrames # <<>> /\ regionFrames' = <<>> =>
                         region' >= peak /\ region' >= region
  OBVIOUS
<1>1. ASSUME NEW a \in Allocations, NEW size \in RegionSizes, Managed!Allocate(a, size)
      PROVE  /\ UNCHANGED regionFrames
             /\ \A b \in Allocations \ {a} : regionLeases'[b] = regionLeases[b]
             /\ regionLeases'[a].frame = always
  <2>1. /\ regionLeases' = [regionLeases EXCEPT ![a] = [frame |-> always, region |-> 0,
                              start |-> 0, size |-> size, made |-> TRUE]]
        /\ UNCHANGED regionFrames
    BY <1>1 DEF Managed!Allocate, Managed!made, Managed!Lease, Managed!own, Managed!frameVars
  <2> QED BY <2>1, ManagedTyped
<1>2. ASSUME NEW a \in Allocations, NEW size \in RegionSizes, NEW f \in Frames,
             NEW alignment \in RegionAlignments, Managed!AllocateIn(f, a, size, alignment)
      PROVE  /\ UNCHANGED regionFrames
             /\ \A b \in Allocations \ {a} : regionLeases'[b] = regionLeases[b]
             /\ regionLeases'[a].region = 0 /\ regionLeases'[a].size > 0
                /\ regionFrames # <<>> /\ regionFrames[Len(regionFrames)] = regionLeases'[a].frame
                => wanted' > region
  <2> DEFINE start == ((regionOffset + alignment - 1) \div alignment) * alignment
             upto == ((wanted + alignment - 1) \div alignment) * alignment
             top == regionFrames # <<>> /\ regionFrames[Len(regionFrames)] = f
             takes == top /\ region # 0 /\ start + size <= region
  <2>1. UNCHANGED regionFrames /\ (top => wanted' = upto + size)
    BY <1>2
       DEF Managed!AllocateIn, Managed!made, Managed!Wants, Managed!Takes, Managed!Innermost,
           Managed!Holds, Managed!Aligned, Managed!Lease, Managed!own, Managed!frameVars
  <2>2. takes => regionLeases' = [regionLeases EXCEPT ![a] = [frame |-> f,
                   region |-> region, start |-> start, size |-> size, made |-> TRUE]]
    BY <1>2
       DEF Managed!AllocateIn, Managed!made, Managed!Wants, Managed!Takes, Managed!Innermost,
           Managed!Holds, Managed!Aligned, Managed!Lease, Managed!own, Managed!frameVars
  <2>3. ~takes => regionLeases' = [regionLeases EXCEPT ![a] = [frame |-> f,
                    region |-> 0, start |-> 0, size |-> size, made |-> TRUE]]
    BY <1>2
       DEF Managed!AllocateIn, Managed!made, Managed!Wants, Managed!Takes, Managed!Innermost,
           Managed!Holds, Managed!Aligned, Managed!Lease, Managed!own, Managed!frameVars
  <2>4. /\ size \in Nat /\ alignment \in Nat \ {0} /\ regionOffset \in Nat /\ region \in Nat
        /\ wanted \in Nat /\ regionOffset <= wanted
    BY ManagedTyped, ManagedConstants DEF ManagedInv, MarksRise
  <2>5. start \in Nat /\ start <= upto /\ upto \in Nat
    BY <2>4, RoundedUp, RoundedFurther
  <2> HIDE DEF start, upto
  <2>6. CASE takes
    <3>1. regionLeases'[a].region = region
          /\ \A b \in Allocations \ {a} : regionLeases'[b] = regionLeases[b]
      BY <2>2, <2>6, ManagedTyped
    <3> QED BY <2>1, <2>6, <3>1
  <2>7. CASE ~takes
    <3>1. /\ regionLeases'[a].frame = f /\ regionLeases'[a].size = size
          /\ \A b \in Allocations \ {a} : regionLeases'[b] = regionLeases[b]
      BY <2>3, <2>7, ManagedTyped
    <3>2. top /\ size > 0 => wanted' > region
      BY <2>1, <2>4, <2>5, <2>7
    <3> QED BY <2>1, <3>1, <3>2
  <2> QED BY <2>6, <2>7
<1>3. ASSUME NEW f \in Frames, Managed!Enter(f)
      PROVE  UNCHANGED regionLeases /\ regionFrames' # <<>>
  <2>1. UNCHANGED regionLeases /\ regionFrames' = Append(regionFrames, f)
    BY <1>3 DEF Managed!Enter
  <2>2. regionFrames \in Seq(Frames)
    BY ManagedTyped
  <2> QED BY <2>1, <2>2
<1>4. ASSUME NEW f \in Frames, Managed!Leave(f)
      PROVE  UNCHANGED regionLeases
             /\ (regionFrames' = <<>> => region' >= peak /\ region' >= region)
  <2>1. PICK kept \in 0 .. Len(regionFrames) : ManagedLeft(f, kept)
    BY <1>4, ManagedLeaving
  <2>2. /\ UNCHANGED regionLeases /\ regionFrames' = SubSeq(regionFrames, 1, kept)
        /\ region' = IF kept = 0 /\ peak > region THEN peak ELSE region
    BY <2>1 DEF ManagedLeft
  <2>3. regionFrames \in Seq(Frames) /\ kept \in Nat /\ kept <= Len(regionFrames)
        /\ region \in Nat /\ peak \in Nat
    BY ManagedTyped
  <2>4. regionFrames' = <<>> => kept = 0
    <3>1. Len(regionFrames') = kept
      BY <2>2, <2>3
    <3> QED BY <3>1
  <2> QED BY <2>2, <2>3, <2>4
<1>5. \/ \E a \in Allocations, size \in RegionSizes :
           \/ Managed!Allocate(a, size)
           \/ \E f \in Frames, alignment \in RegionAlignments :
                Managed!AllocateIn(f, a, size, alignment)
      \/ \E f \in Frames : Managed!Enter(f) \/ Managed!Leave(f)
  BY DEF Managed!Next
<1>6. regionFrames # <<>> => regionFrames[Len(regionFrames)] \in Frames
  <2>1. Len(regionFrames) \in Nat /\ (regionFrames # <<>> => Len(regionFrames) # 0)
    BY ManagedTyped
  <2> QED BY <2>1, ManagedTyped
<1>7. ASSUME NEW a \in Allocations, UNCHANGED regionFrames,
             \A b \in Allocations \ {a} : regionLeases'[b] = regionLeases[b],
             regionLeases'[a].region = 0 /\ regionLeases'[a].size > 0
             /\ regionFrames # <<>> /\ regionFrames[Len(regionFrames)] = regionLeases'[a].frame
             => wanted' > region
      PROVE  /\ \A b \in Allocations :
                  /\ ~regionLeases[b].made /\ regionLeases'[b].made
                  /\ regionLeases'[b].region = 0
                  /\ regionFrames # <<>>
                  /\ regionFrames[Len(regionFrames)] = regionLeases'[b].frame
                  /\ regionLeases'[b].size > 0
                  => wanted' > region
             /\ regionFrames # <<>> /\ regionFrames' = <<>> =>
                  region' >= peak /\ region' >= region
  BY <1>7
<1>8. CASE \E a \in Allocations, size \in RegionSizes : Managed!Allocate(a, size)
  BY <1>1, <1>6, <1>7, <1>8, ManagedConstants
<1>9. CASE \E a \in Allocations, size \in RegionSizes, f \in Frames,
             alignment \in RegionAlignments : Managed!AllocateIn(f, a, size, alignment)
  BY <1>2, <1>7, <1>9
<1>10. CASE \E f \in Frames : Managed!Enter(f)
  BY <1>3, <1>10
<1>11. CASE \E f \in Frames : Managed!Leave(f)
  BY <1>4, <1>11
<1> QED BY <1>5, <1>8, <1>9, <1>10, <1>11

LEMMA ManagedStep ==
  ManagedInv /\ [Managed!Next]_(Managed!vars) =>
    ManagedInv' /\ [Managed!Contract!Next]_(Managed!Contract!vars)
<1> SUFFICES ASSUME ManagedInv, [Managed!Next]_(Managed!vars)
             PROVE  ManagedInv' /\ (Managed!Contract!Next \/ UNCHANGED Managed!Contract!vars)
  OBVIOUS
<1>1. CASE Managed!Next
  BY <1>1, ManagedAllocates, ManagedAllocatesIn, ManagedEnters, ManagedLeaving,
     ManagedLeaves DEF Managed!Next
<1>2. CASE UNCHANGED Managed!vars
  <2>1. UNCHANGED <<region, regionOffset, regionFrames, regionMark, wantedMark, regionLive,
                    regionEntered, wanted, peak, regionLeases>>
    BY <1>2 DEF Managed!vars, Managed!frameVars
  <2>2. ManagedInv'
    BY <2>1 DEF ManagedInv, Managed!TypeOK, FramesStand, MarksRise, LeasesStand
  <2>3. Managed!LiveOnes' = Managed!LiveOnes /\ Managed!DeadOnes' = Managed!DeadOnes
        /\ Managed!Held' = Managed!Held
    BY <2>1 DEF Managed!LiveOnes, Managed!DeadOnes, Managed!Held, Managed!isLive,
                Managed!made, Managed!BytesOf, Managed!EndOf
  <2> QED BY <2>2, <2>3 DEF Managed!Contract!vars
<1> QED BY <1>1, <1>2

\* The managed allocator keeps the contract of them all in whatever order its
\* frames are left (managedAllocator/index.ts): what is live in the region lies
\* below the offset, all of it is given back with the last frame, and only a pass
\* that wants more than every one before it is given buffers of its own.
THEOREM ManagedImplementsAllocator ==
  Managed!Spec =>
    /\ Managed!ImplementsAllocator
    /\ Managed!OnlyWhatOutgrowsItSpills
    /\ [](Managed!TypeOK /\ Managed!RegionIsGivenBack)
<1>1. ManagedInv => Managed!TypeOK /\ Managed!RegionIsGivenBack
  <2> SUFFICES ASSUME ManagedInv PROVE Managed!TypeOK /\ Managed!RegionIsGivenBack
    OBVIOUS
  <2>1. Managed!RegionIsGivenBack
    BY DEF ManagedInv, MarksRise, LeasesStand, Managed!RegionIsGivenBack, Managed!LiveOnes,
           Managed!isLive, Managed!made, Managed!EndOf, Managed!own
  <2> QED BY <2>1 DEF ManagedInv
<1>2. ManagedInv /\ [Managed!Next]_(Managed!vars) =>
        [/\ \A a \in Allocations :
              /\ ~Managed!made(a) /\ Managed!made(a)' /\ regionLeases'[a].region = Managed!own
              /\ Managed!Innermost(regionLeases'[a].frame) /\ regionLeases'[a].size > 0
              => wanted' > region
         /\ regionFrames # <<>> /\ regionFrames' = <<>> => region' >= peak /\ region' >= region
        ]_(Managed!vars)
  BY ManagedSpills DEF Managed!made, Managed!own, Managed!Innermost
<1> QED
  BY <1>1, <1>2, ManagedStarts, ManagedStep, PTL
     DEF Managed!Spec, Managed!Contract!Spec, Managed!ImplementsAllocator,
         Managed!OnlyWhatOutgrowsItSpills

-----------------------------------------------------------------------------
(* The stack: any buffer, and any number of frames, allocations and sizes.  *)

\* What the contract rests on: the frames open are the live ones, each once and
\* all of them known; what a frame holds ends below the offset, and below the
\* mark of every frame above; and two live allocations lie apart.
FramesAreLive ==
  /\ Len(stackFrames) >= 1 /\ stackFrames[1] = outermost
  /\ stackLive = {stackFrames[i] : i \in 1 .. Len(stackFrames)}
  /\ \A i, j \in 1 .. Len(stackFrames) : i < j => stackFrames[i] # stackFrames[j]
  /\ stackLive \subseteq stackEntered

LeasesEndBelow ==
  \A a \in Allocations : Stack!made(a) =>
    /\ stackLeases[a].frame \in stackEntered
    /\ stackLeases[a].frame \in stackLive => Stack!EndOf(a) <= stackOffset
    /\ \A i, j \in 1 .. Len(stackFrames) :
         i < j /\ stackLeases[a].frame = stackFrames[i]
                 => Stack!EndOf(a) <= stackMark[stackFrames[j]]

LiveLieApart ==
  \A a, b \in Stack!LiveOnes : a # b =>
    Stack!EndOf(a) <= stackLeases[b].start \/ Stack!EndOf(b) <= stackLeases[a].start

StackInv == Stack!TypeOK /\ FramesAreLive /\ LeasesEndBelow /\ LiveLieApart

\* The marks rise to the offset, which is where something live ends; and each is
\* where something ends that a frame below holds, or the foot of the buffer.
MarksStand ==
  /\ \A i, j \in 1 .. Len(stackFrames) : i < j
          => stackMark[stackFrames[i]] <= stackMark[stackFrames[j]]
  /\ stackMark[stackFrames[Len(stackFrames)]] <= stackOffset
  /\ stackOffset = 0 \/ \E a \in Stack!LiveOnes : Stack!EndOf(a) = stackOffset
  /\ \A j \in 1 .. Len(stackFrames) :
       \/ stackMark[stackFrames[j]] = 0
       \/ \E a \in Allocations, i \in 1 .. Len(stackFrames) :
            /\ i < j /\ Stack!made(a) /\ stackLeases[a].frame = stackFrames[i]
            /\ Stack!EndOf(a) = stackMark[stackFrames[j]]

LEMMA StackStarts == ASSUME Stack!StackAssumption, Stack!Init PROVE StackInv
<1>1. stackFrames = <<outermost>> /\ Len(stackFrames) = 1 /\ stackFrames[1] = outermost
  BY DEF Stack!Init
<1>2. Stack!NoLease \in Stack!Leases /\ ~Stack!NoLease.made
  BY DEF Stack!StackAssumption, Stack!NoLease, Stack!Leases, Stack!AllFrames
<1>3. Stack!TypeOK
  BY <1>1, <1>2 DEF Stack!StackAssumption, Stack!Init, Stack!TypeOK, Stack!AllFrames
<1>4. \A a \in Allocations : ~Stack!made(a)
  BY <1>2 DEF Stack!Init, Stack!made
<1>5. FramesAreLive
  BY <1>1 DEF Stack!Init, FramesAreLive
<1>6. LeasesEndBelow /\ LiveLieApart
  BY <1>4 DEF LeasesEndBelow, LiveLieApart, Stack!LiveOnes, Stack!isLive
<1> QED BY <1>3, <1>5, <1>6 DEF StackInv

LEMMA AlignedAbove ==
  ASSUME NEW from \in Nat, NEW alignment \in Nat \ {0}
  PROVE  Stack!Aligned(from, alignment) \in Nat /\ from <= Stack!Aligned(from, alignment)
BY RoundedUp DEF Stack!Aligned

\* An allocation lies on top of everything live.
LEMMA StackAllocates ==
  ASSUME Stack!StackAssumption, StackInv, NEW f \in Stack!AllFrames, NEW a \in Allocations,
         NEW size \in StackSizes, NEW alignment \in Alignments,
         Stack!AllocateIn(f, a, size, alignment)
  PROVE  StackInv' /\ Stack!Contract!Next
<1> DEFINE start == Stack!Aligned(stackOffset, alignment)
<1>1. /\ ~Stack!made(a) /\ f \in stackLive /\ f = stackFrames[Len(stackFrames)]
      /\ start + size <= Capacity
      /\ stackLeases' = [stackLeases EXCEPT ![a] =
                      [frame |-> f, start |-> start, size |-> size, made |-> TRUE]]
      /\ stackOffset' = start + size
      /\ UNCHANGED <<stackFrames, stackMark, stackLive, stackEntered>>
  BY DEF Stack!AllocateIn, Stack!Fits, Stack!Holds, Stack!innermost, Stack!frameVars
<1>2. start \in Nat /\ stackOffset <= start /\ stackOffset \in Nat /\ size \in Nat
        /\ Capacity \in Nat
  <2>1. /\ alignment \in Nat \ {0} /\ size \in Nat /\ Capacity \in Nat
        /\ stackOffset \in Nat
    BY DEF Stack!StackAssumption, StackInv, Stack!TypeOK
  <2> QED BY <2>1, AlignedAbove
<1> HIDE DEF start
<1>3. stackLeases \in [Allocations -> Stack!Leases] /\ Len(stackFrames) \in Nat
  BY DEF StackInv, Stack!TypeOK
<1>4. /\ stackLeases'[a] = [frame |-> f, start |-> start, size |-> size, made |-> TRUE]
      /\ \A b \in Allocations \ {a} : stackLeases'[b] = stackLeases[b]
  BY <1>1, <1>3
<1>5. Stack!TypeOK'
  <2>1. stackLeases'[a] \in Stack!Leases
    <3>1. start \in 0 .. Capacity /\ size \in 0 .. Capacity
      BY <1>1, <1>2
    <3> QED BY <1>4, <3>1 DEF Stack!Leases
  <2>2. stackLeases' \in [Allocations -> Stack!Leases]
    BY <1>1, <1>3, <1>4, <2>1
  <2>3. stackOffset' \in 0 .. Capacity
    BY <1>1, <1>2
  <2> QED BY <1>1, <2>2, <2>3 DEF StackInv, Stack!TypeOK
<1>6. /\ Stack!EndOf(a)' = start + size /\ stackLeases'[a].start = start /\ Stack!made(a)'
      /\ \A b \in Allocations \ {a} : Stack!EndOf(b)' = Stack!EndOf(b)
              /\ (Stack!made(b)' <=> Stack!made(b))
  BY <1>4 DEF Stack!EndOf, Stack!made
<1>7. \A b \in Allocations : Stack!EndOf(b) \in Nat
  <2> SUFFICES ASSUME NEW b \in Allocations PROVE Stack!EndOf(b) \in Nat
    OBVIOUS
  <2>1. stackLeases[b] \in Stack!Leases
    BY <1>3
  <2> QED BY <1>2, <2>1 DEF Stack!Leases, Stack!EndOf
<1>8. Stack!LiveOnes' = Stack!LiveOnes \cup {a} /\ a \notin Stack!LiveOnes
  BY <1>1, <1>4, <1>6 DEF Stack!LiveOnes, Stack!isLive
<1>9. Stack!DeadOnes' = Stack!DeadOnes
  BY <1>1, <1>4, <1>6 DEF Stack!DeadOnes, Stack!isLive
<1>10. FramesAreLive'
  BY <1>1 DEF StackInv, FramesAreLive
<1>11. LeasesEndBelow'
  <2> SUFFICES ASSUME NEW b \in Allocations, Stack!made(b)'
               PROVE  /\ stackLeases'[b].frame \in stackEntered
                      /\ stackLeases'[b].frame \in stackLive => Stack!EndOf(b)' <= stackOffset'
                      /\ \A i, j \in 1 .. Len(stackFrames) :
                           i < j /\ stackLeases'[b].frame = stackFrames[i]
                                   => Stack!EndOf(b)' <= stackMark[stackFrames[j]]
    BY <1>1 DEF LeasesEndBelow
  <2>1. CASE b = a
    BY <1>1, <1>2, <1>3, <1>4, <1>6, <2>1 DEF StackInv, FramesAreLive
  <2>2. CASE b # a
    BY <1>1, <1>2, <1>4, <1>6, <1>7, <2>2 DEF StackInv, LeasesEndBelow
  <2> QED BY <2>1, <2>2
<1>12. \A b \in Stack!LiveOnes : Stack!EndOf(b) <= start
  <2> SUFFICES ASSUME NEW b \in Stack!LiveOnes PROVE Stack!EndOf(b) <= start
    OBVIOUS
  <2>1. b \in Allocations /\ Stack!made(b) /\ stackLeases[b].frame \in stackLive
    BY DEF Stack!LiveOnes, Stack!isLive
  <2>2. Stack!EndOf(b) <= stackOffset
    BY <2>1 DEF StackInv, LeasesEndBelow
  <2> QED BY <1>2, <1>7, <2>1, <2>2
<1>13. LiveLieApart'
  <2>1. \A b \in Stack!LiveOnes : b \in Allocations \ {a}
    BY <1>8 DEF Stack!LiveOnes
  <2> QED BY <1>4, <1>6, <1>8, <1>12, <2>1 DEF StackInv, LiveLieApart
<1>14. Stack!Contract!Next
  <2>1. /\ Stack!Held'[a] = start .. (start + size - 1)
        /\ Stack!Held' = [Stack!Held EXCEPT ![a] = Stack!Held'[a]]
    <3>1. Stack!Held'[a] = start .. (start + size - 1)
      BY <1>4 DEF Stack!Held, Stack!BytesOf
    <3>2. \A b \in Allocations \ {a} : Stack!Held'[b] = Stack!Held[b]
      BY <1>4 DEF Stack!Held
    <3>3. /\ Stack!Held' = [b \in Allocations |-> Stack!Held'[b]]
          /\ Stack!Held = [b \in Allocations |-> Stack!Held[b]]
      BY DEF Stack!Held
    <3>4. Stack!Held' = [Stack!Held EXCEPT ![a] = Stack!Held'[a]]
      BY <3>2, <3>3
    <3> QED BY <3>1, <3>4
  <2>2. Stack!Held'[a] \subseteq 0 .. (Capacity - 1)
    BY <1>1, <1>2, <2>1
  <2>3. \A b \in Stack!LiveOnes : Stack!Held[b] \cap Stack!Held'[a] = {}
    <3> SUFFICES ASSUME NEW b \in Stack!LiveOnes PROVE Stack!Held[b] \cap Stack!Held'[a] = {}
      OBVIOUS
    <3>1. b \in Allocations /\ stackLeases[b] \in Stack!Leases /\ Stack!made(b)
      BY <1>3 DEF Stack!LiveOnes, Stack!isLive
    <3>2. Stack!Held[b] = stackLeases[b].start .. (Stack!EndOf(b) - 1)
            /\ stackLeases[b].start \in Nat
      BY <1>2, <3>1 DEF Stack!Held, Stack!BytesOf, Stack!Leases, Stack!EndOf, Stack!made
    <3> QED BY <1>2, <1>7, <1>12, <2>1, <3>1, <3>2
  <2>4. a \notin Stack!LiveOnes \cup Stack!DeadOnes
    BY <1>1 DEF Stack!LiveOnes, Stack!DeadOnes, Stack!isLive
  <2> QED
    BY <1>8, <1>9, <2>1, <2>2, <2>3, <2>4 DEF Stack!Contract!Next, Stack!Contract!Allocate
<1> QED BY <1>5, <1>10, <1>11, <1>13, <1>14 DEF StackInv

\* A frame entered is empty: no allocation is of one never entered.
LEMMA StackEnters ==
  ASSUME Stack!StackAssumption, StackInv, NEW f \in Frames, Stack!Enter(f)
  PROVE  StackInv' /\ UNCHANGED Stack!Contract!vars
<1> DEFINE n == Len(stackFrames)
<1>1. /\ f \notin stackEntered /\ stackEntered' = stackEntered \cup {f}
        /\ stackLive' = stackLive \cup {f}
      /\ stackMark' = [stackMark EXCEPT ![f] = stackOffset]
              /\ stackFrames' = Append(stackFrames, f)
      /\ UNCHANGED <<stackOffset, stackLeases>>
  BY DEF Stack!Enter
<1>2. f \in Stack!AllFrames /\ stackFrames \in Seq(Stack!AllFrames) /\ n \in Nat
  BY DEF Stack!AllFrames, StackInv, Stack!TypeOK
<1>3. /\ stackFrames' \in Seq(Stack!AllFrames) /\ Len(stackFrames') = n + 1
        /\ stackFrames'[n + 1] = f
      /\ \A i \in 1 .. n : stackFrames'[i] = stackFrames[i]
  BY <1>1, <1>2
<1> HIDE DEF n
<1>4. \A i \in 1 .. (n + 1) : i \in 1 .. n \/ i = n + 1
  BY <1>2
<1>5. \A i \in 1 .. n : stackFrames[i] \in stackLive /\ stackFrames[i] \in Stack!AllFrames \ {f}
  BY <1>1, <1>2 DEF StackInv, FramesAreLive, n
<1>6. stackMark' \in [Stack!AllFrames -> 0 .. Capacity] /\ stackMark'[f] = stackOffset
      /\ \A g \in Stack!AllFrames \ {f} : stackMark'[g] = stackMark[g]
  BY <1>1, <1>2 DEF StackInv, Stack!TypeOK
<1>7. Stack!TypeOK'
  BY <1>1, <1>2, <1>3, <1>6 DEF StackInv, Stack!TypeOK
<1>8. FramesAreLive'
  <2>1. stackLive' = {stackFrames'[i] : i \in 1 .. (n + 1)}
    <3>1. stackLive = {stackFrames[i] : i \in 1 .. n}
      BY DEF StackInv, FramesAreLive, n
    <3>2. 1 .. (n + 1) = (1 .. n) \cup {n + 1}
      BY <1>2
    <3> QED BY <1>1, <1>3, <3>1, <3>2
  <2>2. Len(stackFrames') >= 1 /\ stackFrames'[1] = outermost
    BY <1>2, <1>3 DEF StackInv, FramesAreLive, n
  <2>3. \A i, j \in 1 .. (n + 1) : i < j => stackFrames'[i] # stackFrames'[j]
    BY <1>2, <1>3, <1>4, <1>5 DEF StackInv, FramesAreLive, n
  <2>4. stackLive' \subseteq stackEntered'
    BY <1>1 DEF StackInv, FramesAreLive
  <2> QED BY <1>3, <2>1, <2>2, <2>3, <2>4 DEF FramesAreLive
<1>9. \A a \in Allocations : Stack!made(a) => stackLeases[a].frame # f
  BY <1>1 DEF StackInv, LeasesEndBelow
<1>10. Stack!LiveOnes' = Stack!LiveOnes /\ Stack!DeadOnes' = Stack!DeadOnes
  BY <1>1, <1>9 DEF Stack!LiveOnes, Stack!DeadOnes, Stack!isLive, Stack!made
<1>11. LeasesEndBelow'
  <2> SUFFICES ASSUME NEW a \in Allocations, Stack!made(a)
               PROVE  /\ stackLeases[a].frame \in stackEntered'
                      /\ stackLeases[a].frame \in stackLive' => Stack!EndOf(a) <= stackOffset
                      /\ \A i, j \in 1 .. (n + 1) : i < j
                              /\ stackLeases[a].frame = stackFrames'[i]
                           => Stack!EndOf(a) <= stackMark'[stackFrames'[j]]
    BY <1>1, <1>3 DEF LeasesEndBelow, Stack!made, Stack!EndOf
  <2>1. stackLeases[a].frame \in stackEntered' /\ (stackLeases[a].frame \in stackLive'
          => Stack!EndOf(a) <= stackOffset)
    BY <1>1, <1>9 DEF StackInv, LeasesEndBelow
  <2>2. ASSUME NEW i \in 1 .. (n + 1), NEW j \in 1 .. (n + 1), i < j,
               stackLeases[a].frame = stackFrames'[i]
        PROVE  Stack!EndOf(a) <= stackMark'[stackFrames'[j]]
    <3>1. i \in 1 .. n /\ stackLeases[a].frame = stackFrames[i] /\ stackFrames[i] \in stackLive
      BY <1>2, <1>3, <1>4, <1>5, <2>2
    <3>2. CASE j = n + 1
      BY <1>3, <1>6, <3>1, <3>2 DEF StackInv, LeasesEndBelow
    <3>3. CASE j \in 1 .. n
      BY <1>3, <1>5, <1>6, <2>2, <3>1, <3>3 DEF StackInv, LeasesEndBelow, n
    <3> QED BY <1>4, <3>2, <3>3
  <2> QED BY <2>1, <2>2
<1>12. LiveLieApart'
  BY <1>1, <1>10 DEF StackInv, LiveLieApart, Stack!EndOf
<1>13. Stack!Held' = Stack!Held
  BY <1>1 DEF Stack!Held
<1> QED BY <1>7, <1>8, <1>10, <1>11, <1>12, <1>13 DEF StackInv, Stack!Contract!vars

\* Leaving the innermost frame releases what it holds, and nothing else.
LEMMA StackLeaves ==
  ASSUME Stack!StackAssumption, StackInv, NEW f \in Frames, Stack!Leave(f)
  PROVE  StackInv' /\ Stack!Contract!Next
<1> DEFINE n == Len(stackFrames)
           gone == {a \in Stack!LiveOnes : stackLeases[a].frame = f}
<1>1. /\ f \in stackLive /\ f # outermost /\ f = stackFrames[n]
      /\ stackLive' = stackLive \ {f} /\ stackFrames' = SubSeq(stackFrames, 1, n - 1)
              /\ stackOffset' = stackMark[f]
      /\ UNCHANGED <<stackMark, stackEntered, stackLeases>>
  BY DEF Stack!Leave, Stack!innermost
<1>2. stackFrames \in Seq(Stack!AllFrames) /\ n \in Nat /\ n >= 1 /\ stackFrames[1] = outermost
  BY DEF StackInv, Stack!TypeOK, FramesAreLive
<1>3. n >= 2
  BY <1>1, <1>2
<1>4. /\ stackFrames' \in Seq(Stack!AllFrames) /\ Len(stackFrames') = n - 1
      /\ \A i \in 1 .. (n - 1) : stackFrames'[i] = stackFrames[i]
  <2>1. \A i \in 1 .. (n - 1) : stackFrames[i] \in Stack!AllFrames
    BY <1>2
  <2> HIDE DEF n
  <2> QED BY <1>1, <1>2, <1>3, <2>1
<1>5. Stack!TypeOK'
  <2>1. f \in Stack!AllFrames
    BY DEF Stack!AllFrames
  <2> QED BY <1>1, <1>4, <2>1 DEF StackInv, Stack!TypeOK
<1> HIDE DEF n
<1>6. \A i \in 1 .. (n - 1) : i \in 1 .. n /\ i < n /\ n \in 1 .. n
  BY <1>2
<1>7. \A i, j \in 1 .. n : i < j => stackFrames[i] # stackFrames[j]
  BY DEF StackInv, FramesAreLive, n
<1>8. \A g \in stackLive \ {f} : \E i \in 1 .. (n - 1) : g = stackFrames[i]
  <2>1. 1 .. n = (1 .. (n - 1)) \cup {n}
    BY <1>2
  <2> QED BY <1>1, <2>1 DEF StackInv, FramesAreLive, n
<1>9. FramesAreLive'
  <2>1. stackLive' = {stackFrames'[i] : i \in 1 .. (n - 1)}
    <3>1. \A i \in 1 .. (n - 1) : stackFrames'[i] \in stackLive \ {f}
      BY <1>1, <1>4, <1>6, <1>7 DEF StackInv, FramesAreLive, n
    <3> QED BY <1>1, <1>4, <1>8, <3>1
  <2>2. Len(stackFrames') >= 1 /\ stackFrames'[1] = outermost
    BY <1>2, <1>3, <1>4
  <2>3. \A i, j \in 1 .. (n - 1) : i < j => stackFrames'[i] # stackFrames'[j]
    BY <1>4, <1>6, <1>7
  <2>4. stackLive' \subseteq stackEntered'
    BY <1>1 DEF StackInv, FramesAreLive
  <2> QED BY <1>4, <2>1, <2>2, <2>3, <2>4 DEF FramesAreLive
<1>10. LeasesEndBelow'
  <2> SUFFICES ASSUME NEW a \in Allocations, Stack!made(a)
               PROVE  /\ stackLeases[a].frame \in stackEntered
                      /\ stackLeases[a].frame \in stackLive \ {f}
                              => Stack!EndOf(a) <= stackMark[f]
                      /\ \A i, j \in 1 .. (n - 1) : i < j
                              /\ stackLeases[a].frame = stackFrames'[i]
                           => Stack!EndOf(a) <= stackMark[stackFrames'[j]]
    BY <1>1, <1>4 DEF LeasesEndBelow, Stack!made, Stack!EndOf
  <2>1. ASSUME stackLeases[a].frame \in stackLive \ {f} PROVE Stack!EndOf(a) <= stackMark[f]
    <3>1. PICK i \in 1 .. (n - 1) : stackLeases[a].frame = stackFrames[i]
      BY <1>8, <2>1
    <3>2. i \in 1 .. n /\ n \in 1 .. n /\ i < n
      BY <1>6
    <3> QED BY <1>1, <3>1, <3>2 DEF StackInv, LeasesEndBelow, n
  <2>2. \A i, j \in 1 .. (n - 1) : i < j /\ stackLeases[a].frame = stackFrames'[i]
          => Stack!EndOf(a) <= stackMark[stackFrames'[j]]
    BY <1>4, <1>6 DEF StackInv, LeasesEndBelow, n
  <2> QED BY <2>1, <2>2 DEF StackInv, LeasesEndBelow
<1>11. /\ Stack!LiveOnes' = Stack!LiveOnes \ gone /\ Stack!DeadOnes' = Stack!DeadOnes \cup gone
       /\ gone \in SUBSET Stack!LiveOnes
  BY <1>1 DEF Stack!LiveOnes, Stack!DeadOnes, Stack!isLive, Stack!made
<1>12. Stack!Held' = Stack!Held
  BY <1>1 DEF Stack!Held
<1>13. LiveLieApart'
  BY <1>1, <1>11 DEF StackInv, LiveLieApart, Stack!EndOf
<1>14. Stack!Contract!Next
  BY <1>11, <1>12 DEF Stack!Contract!Next, Stack!Contract!Release
<1> QED BY <1>5, <1>9, <1>10, <1>13, <1>14 DEF StackInv

LEMMA MarksStart == ASSUME Stack!StackAssumption, Stack!Init PROVE MarksStand
BY DEF Stack!StackAssumption, Stack!Init, MarksStand, Stack!AllFrames

\* What is allocated ends where the offset then stands.
LEMMA AllocateInMarks ==
  ASSUME Stack!StackAssumption, StackInv, MarksStand, NEW f \in Stack!AllFrames, NEW a \in Allocations,
         NEW size \in StackSizes, NEW alignment \in Alignments,
         Stack!AllocateIn(f, a, size, alignment)
  PROVE  MarksStand'
<1> DEFINE start == Stack!Aligned(stackOffset, alignment)
<1>1. /\ ~Stack!made(a) /\ f \in stackLive
      /\ stackLeases' = [stackLeases EXCEPT ![a] =
                      [frame |-> f, start |-> start, size |-> size, made |-> TRUE]]
      /\ stackOffset' = start + size
      /\ UNCHANGED <<stackFrames, stackMark, stackLive, stackEntered>>
  BY DEF Stack!AllocateIn, Stack!frameVars
<1>2. start \in Nat /\ stackOffset <= start /\ stackOffset \in Nat /\ size \in Nat
      /\ \A i \in 1 .. Len(stackFrames) : stackMark[stackFrames[i]] \in Nat
  <2>1. /\ alignment \in Nat \ {0} /\ size \in Nat /\ stackOffset \in Nat
        /\ stackFrames \in Seq(Stack!AllFrames)
                /\ stackMark \in [Stack!AllFrames -> 0 .. Capacity]
        /\ Capacity \in Nat
    BY DEF Stack!StackAssumption, StackInv, Stack!TypeOK
  <2>2. \A i \in 1 .. Len(stackFrames) : stackMark[stackFrames[i]] \in Nat
    BY <2>1
  <2> QED BY <2>1, <2>2, AlignedAbove
<1> HIDE DEF start
<1>3. /\ stackLeases'[a] = [frame |-> f, start |-> start, size |-> size, made |-> TRUE]
      /\ \A b \in Allocations \ {a} : stackLeases'[b] = stackLeases[b]
  BY <1>1 DEF StackInv, Stack!TypeOK
<1>4. \A b \in Allocations : Stack!made(b) =>
        Stack!made(b)' /\ stackLeases'[b].frame = stackLeases[b].frame
                /\ Stack!EndOf(b)' = Stack!EndOf(b)
  BY <1>1, <1>3 DEF Stack!made, Stack!EndOf
<1>5. a \in Stack!LiveOnes' /\ Stack!EndOf(a)' = stackOffset'
  BY <1>1, <1>3 DEF Stack!LiveOnes, Stack!isLive, Stack!made, Stack!EndOf
<1>6. stackMark[stackFrames[Len(stackFrames)]] <= stackOffset'
  <2>1. Len(stackFrames) \in 1 .. Len(stackFrames)
    BY DEF StackInv, Stack!TypeOK, FramesAreLive
  <2> QED BY <1>1, <1>2, <2>1 DEF MarksStand
<1> QED BY <1>1, <1>4, <1>5, <1>6 DEF MarksStand

\* A frame entered is marked where the live end.
LEMMA EnterMarks ==
  ASSUME Stack!StackAssumption, StackInv, MarksStand, NEW f \in Frames, Stack!Enter(f)
  PROVE  MarksStand'
<1> DEFINE n == Len(stackFrames)
<1>1. /\ f \notin stackEntered /\ stackLive' = stackLive \cup {f}
      /\ stackMark' = [stackMark EXCEPT ![f] = stackOffset]
              /\ stackFrames' = Append(stackFrames, f)
      /\ UNCHANGED <<stackOffset, stackLeases>>
  BY DEF Stack!Enter
<1>2. f \in Stack!AllFrames /\ stackFrames \in Seq(Stack!AllFrames) /\ n \in Nat /\ n \in 1 .. n
  BY DEF Stack!AllFrames, StackInv, Stack!TypeOK, FramesAreLive
<1>3. /\ Len(stackFrames') = n + 1 /\ stackFrames'[n + 1] = f
      /\ \A i \in 1 .. n : stackFrames'[i] = stackFrames[i]
  BY <1>1, <1>2
<1>4. \A i \in 1 .. n : stackFrames[i] \in stackLive /\ stackFrames[i] \in Stack!AllFrames \ {f}
  BY <1>1, <1>2 DEF StackInv, FramesAreLive
<1> HIDE DEF n
<1>5. /\ stackMark'[f] = stackOffset /\ stackOffset \in Nat
      /\ \A i \in 1 .. n : stackMark'[stackFrames[i]] = stackMark[stackFrames[i]]
              /\ stackMark[stackFrames[i]] \in Nat
  <2>1. stackMark \in [Stack!AllFrames -> 0 .. Capacity] /\ stackOffset \in 0 .. Capacity
          /\ Capacity \in Nat
    BY DEF Stack!StackAssumption, StackInv, Stack!TypeOK
  <2> QED BY <1>1, <1>2, <1>4, <2>1
<1>6. \A i \in 1 .. n : stackMark[stackFrames[i]] <= stackOffset
  <2> SUFFICES ASSUME NEW i \in 1 .. n PROVE stackMark[stackFrames[i]] <= stackOffset
    OBVIOUS
  <2>1. stackMark[stackFrames[n]] <= stackOffset
    BY DEF MarksStand, n
  <2>2. CASE i = n
    BY <2>1, <2>2
  <2>3. CASE i # n
    <3>1. i < n /\ n \in 1 .. n
      BY <1>2, <2>3
    <3>2. stackMark[stackFrames[i]] <= stackMark[stackFrames[n]]
      BY <3>1 DEF MarksStand, n
    <3> QED BY <1>2, <1>5, <2>1, <3>2
  <2> QED BY <2>2, <2>3
<1>7. \A i \in 1 .. (n + 1) : i \in 1 .. n \/ i = n + 1
  BY <1>2
<1>8. \A a \in Allocations : /\ Stack!made(a)' <=> Stack!made(a)
                             /\ stackLeases'[a].frame = stackLeases[a].frame
                             /\ Stack!EndOf(a)' = Stack!EndOf(a)
  BY <1>1 DEF Stack!made, Stack!EndOf
<1>9. \A i, j \in 1 .. (n + 1) : i < j
        => stackMark'[stackFrames'[i]] <= stackMark'[stackFrames'[j]]
  <2> SUFFICES ASSUME NEW i \in 1 .. (n + 1), NEW j \in 1 .. (n + 1), i < j
               PROVE  stackMark'[stackFrames'[i]] <= stackMark'[stackFrames'[j]]
    OBVIOUS
  <2>1. i \in 1 .. n
    BY <1>2
  <2>2. CASE j = n + 1
    BY <1>3, <1>5, <1>6, <2>1, <2>2
  <2>3. CASE j \in 1 .. n
    BY <1>3, <1>5, <2>1, <2>3 DEF MarksStand, n
  <2> QED BY <1>7, <2>2, <2>3
<1>10. stackMark'[stackFrames'[n + 1]] <= stackOffset'
  BY <1>1, <1>3, <1>5
<1>11. stackOffset' = 0 \/ \E a \in Stack!LiveOnes' : Stack!EndOf(a)' = stackOffset'
  BY <1>1, <1>8 DEF MarksStand, Stack!LiveOnes, Stack!isLive
<1>12. ASSUME NEW j \in 1 .. (n + 1), stackMark'[stackFrames'[j]] # 0
       PROVE  \E a \in Allocations, i \in 1 .. (n + 1) :
                /\ i < j /\ Stack!made(a)' /\ stackLeases'[a].frame = stackFrames'[i]
                /\ Stack!EndOf(a)' = stackMark'[stackFrames'[j]]
  <2>1. CASE j = n + 1
    <3>1. stackOffset # 0
      BY <1>3, <1>5, <1>12, <2>1
    <3>2. PICK a \in Stack!LiveOnes : Stack!EndOf(a) = stackOffset
      BY <3>1 DEF MarksStand
    <3>3. PICK i \in 1 .. n : stackLeases[a].frame = stackFrames[i]
      BY DEF Stack!LiveOnes, Stack!isLive, StackInv, FramesAreLive, n
    <3>4. i \in 1 .. (n + 1) /\ i < j /\ a \in Allocations /\ Stack!made(a)
      BY <1>2, <2>1 DEF Stack!LiveOnes, Stack!isLive
    <3> QED BY <1>3, <1>5, <1>8, <2>1, <3>2, <3>3, <3>4
  <2>2. CASE j \in 1 .. n
    <3>1. stackMark[stackFrames[j]] # 0 /\ stackFrames'[j] = stackFrames[j]
            /\ stackMark'[stackFrames[j]] = stackMark[stackFrames[j]]
      BY <1>3, <1>5, <1>12, <2>2
    <3>2. PICK a \in Allocations, i \in 1 .. n :
            /\ i < j /\ Stack!made(a) /\ stackLeases[a].frame = stackFrames[i]
            /\ Stack!EndOf(a) = stackMark[stackFrames[j]]
      BY <2>2, <3>1 DEF MarksStand, n
    <3>3. i \in 1 .. (n + 1) /\ stackFrames'[i] = stackFrames[i]
      BY <1>2, <1>3
    <3> QED BY <1>8, <3>1, <3>2, <3>3
  <2> QED BY <1>7, <2>1, <2>2
<1> QED BY <1>3, <1>9, <1>10, <1>11, <1>12 DEF MarksStand

\* Where a frame left was marked, what is live in those below it ends.
LEMMA LeaveMarks ==
  ASSUME Stack!StackAssumption, StackInv, MarksStand, NEW f \in Frames, Stack!Leave(f)
  PROVE  MarksStand'
<1> DEFINE n == Len(stackFrames)
<1>1. /\ f \in stackLive /\ f # outermost /\ f = stackFrames[n]
      /\ stackLive' = stackLive \ {f} /\ stackFrames' = SubSeq(stackFrames, 1, n - 1)
              /\ stackOffset' = stackMark[f]
      /\ UNCHANGED <<stackMark, stackEntered, stackLeases>>
  BY DEF Stack!Leave, Stack!innermost
<1>2. stackFrames \in Seq(Stack!AllFrames) /\ n \in Nat /\ n >= 1 /\ stackFrames[1] = outermost
  BY DEF StackInv, Stack!TypeOK, FramesAreLive
<1>3. n >= 2
  BY <1>1, <1>2
<1>4. /\ Len(stackFrames') = n - 1
      /\ \A i \in 1 .. (n - 1) : stackFrames'[i] = stackFrames[i]
  <2>1. \A i \in 1 .. (n - 1) : stackFrames[i] \in Stack!AllFrames
    BY <1>2
  <2> HIDE DEF n
  <2> QED BY <1>1, <1>2, <1>3, <2>1
<1>5. \A i \in 1 .. (n - 1) : i \in 1 .. n /\ i < n
  BY <1>2
<1>6. n \in 1 .. n /\ n - 1 \in 1 .. (n - 1)
  BY <1>2, <1>3
<1>7. \A a \in Allocations : /\ Stack!made(a)' <=> Stack!made(a)
                             /\ stackLeases'[a].frame = stackLeases[a].frame
                             /\ Stack!EndOf(a)' = Stack!EndOf(a)
  BY <1>1 DEF Stack!made, Stack!EndOf
<1>8. \A i, j \in 1 .. (n - 1) : i < j
        => stackMark'[stackFrames'[i]] <= stackMark'[stackFrames'[j]]
  BY <1>1, <1>4, <1>5 DEF MarksStand
<1>9. stackMark'[stackFrames'[n - 1]] <= stackOffset'
  BY <1>1, <1>4, <1>5, <1>6 DEF MarksStand
<1>10. stackOffset' = 0 \/ \E a \in Stack!LiveOnes' : Stack!EndOf(a)' = stackOffset'
  <2> SUFFICES ASSUME stackMark[stackFrames[n]] # 0
               PROVE  \E a \in Stack!LiveOnes' : Stack!EndOf(a)' = stackOffset'
    BY <1>1
  <2>1. PICK a \in Allocations, i \in 1 .. n :
          /\ i < n /\ Stack!made(a) /\ stackLeases[a].frame = stackFrames[i]
          /\ Stack!EndOf(a) = stackMark[stackFrames[n]]
    BY <1>6 DEF MarksStand
  <2>2. stackFrames[i] \in stackLive /\ stackFrames[i] # f
    BY <1>1, <1>6, <2>1 DEF StackInv, FramesAreLive
  <2>3. a \in Stack!LiveOnes'
    BY <1>1, <1>7, <2>1, <2>2 DEF Stack!LiveOnes, Stack!isLive
  <2> QED BY <1>1, <1>7, <2>1, <2>3
<1>11. \A j \in 1 .. (n - 1) : stackMark'[stackFrames'[j]] = 0
         \/ \E a \in Allocations, i \in 1 .. (n - 1) :
              /\ i < j /\ Stack!made(a)' /\ stackLeases'[a].frame = stackFrames'[i]
              /\ Stack!EndOf(a)' = stackMark'[stackFrames'[j]]
  <2> SUFFICES ASSUME NEW j \in 1 .. (n - 1), stackMark[stackFrames[j]] # 0
               PROVE  \E a \in Allocations, i \in 1 .. (n - 1) :
                        /\ i < j /\ Stack!made(a)' /\ stackLeases'[a].frame = stackFrames'[i]
                        /\ Stack!EndOf(a)' = stackMark[stackFrames[j]]
    BY <1>1, <1>4
  <2>1. PICK a \in Allocations, i \in 1 .. n :
          /\ i < j /\ Stack!made(a) /\ stackLeases[a].frame = stackFrames[i]
          /\ Stack!EndOf(a) = stackMark[stackFrames[j]]
    BY <1>5 DEF MarksStand
  <2>2. i \in 1 .. (n - 1)
    BY <1>2, <2>1
  <2> QED BY <1>4, <1>7, <2>1, <2>2
<1> QED BY <1>4, <1>8, <1>9, <1>10, <1>11 DEF MarksStand

LEMMA StackSteps ==
  Stack!StackAssumption /\ StackInv /\ [Stack!Next]_(Stack!vars) => StackInv'
          /\ [Stack!Contract!Next]_(Stack!Contract!vars)
<1> SUFFICES ASSUME Stack!StackAssumption, StackInv, [Stack!Next]_(Stack!vars)
             PROVE  StackInv' /\ (Stack!Contract!Next \/ UNCHANGED Stack!Contract!vars)
  OBVIOUS
<1>1. ASSUME NEW f \in Frames, Stack!Enter(f) \/ Stack!Leave(f)
      PROVE  StackInv' /\ (Stack!Contract!Next \/ UNCHANGED Stack!Contract!vars)
  BY <1>1, StackEnters, StackLeaves
<1>2. ASSUME NEW f \in Stack!AllFrames, NEW a \in Allocations, NEW size \in StackSizes,
             NEW alignment \in Alignments, Stack!AllocateIn(f, a, size, alignment)
      PROVE  StackInv' /\ (Stack!Contract!Next \/ UNCHANGED Stack!Contract!vars)
  BY <1>2, StackAllocates
<1>3. CASE UNCHANGED Stack!vars
  <2>1. UNCHANGED <<stackFrames, stackMark, stackLive, stackEntered, stackOffset, stackLeases>>
    BY <1>3 DEF Stack!vars, Stack!frameVars
  <2>2. Stack!LiveOnes' = Stack!LiveOnes /\ Stack!DeadOnes' = Stack!DeadOnes
          /\ Stack!Held' = Stack!Held
    BY <2>1 DEF Stack!LiveOnes, Stack!DeadOnes, Stack!isLive, Stack!made, Stack!Held
  <2>3. Stack!TypeOK' /\ FramesAreLive'
    BY <2>1 DEF StackInv, Stack!TypeOK, FramesAreLive
  <2>4. LeasesEndBelow' /\ LiveLieApart'
    BY <2>1, <2>2 DEF StackInv, LeasesEndBelow, LiveLieApart, Stack!made, Stack!EndOf
  <2> QED BY <2>2, <2>3, <2>4 DEF StackInv, Stack!Contract!vars
<1> QED BY <1>1, <1>2, <1>3 DEF Stack!Next

LEMMA MarksStep == Stack!StackAssumption /\ StackInv /\ MarksStand
        /\ [Stack!Next]_(Stack!vars) => MarksStand'
<1> SUFFICES ASSUME Stack!StackAssumption, StackInv, MarksStand, [Stack!Next]_(Stack!vars) PROVE MarksStand'
  OBVIOUS
<1>1. CASE Stack!Next
  BY <1>1, AllocateInMarks, EnterMarks, LeaveMarks DEF Stack!Next
<1>2. CASE UNCHANGED Stack!vars
  <2>1. UNCHANGED <<stackFrames, stackMark, stackLive, stackEntered, stackOffset, stackLeases>>
    BY <1>2 DEF Stack!vars, Stack!frameVars
  <2> QED BY <2>1 DEF MarksStand, Stack!LiveOnes, Stack!isLive, Stack!made, Stack!EndOf
<1> QED BY <1>1, <1>2

\* The stack implements the contract of every allocator, for any buffer, and any
\* number of frames, allocations and sizes: what a frame left held stays dead
\* when its bytes are handed on.
THEOREM StackImplementsAllocator == Stack!StackAssumption => (Stack!Spec
        => Stack!ImplementsAllocator)
<1> SUFFICES ASSUME Stack!StackAssumption PROVE Stack!Spec => Stack!Contract!Spec
  BY DEF Stack!ImplementsAllocator
<1>1. Stack!Init => StackInv /\ Stack!Contract!Init
  <2> SUFFICES ASSUME Stack!Init PROVE StackInv /\ Stack!Contract!Init
    OBVIOUS
  <2>1. \A a \in Allocations : ~Stack!made(a)
    BY DEF Stack!Init, Stack!made, Stack!NoLease
  <2>2. Stack!LiveOnes = {} /\ Stack!DeadOnes = {} /\ Stack!Held = [a \in Allocations |-> {}]
    BY <2>1 DEF Stack!LiveOnes, Stack!DeadOnes, Stack!isLive, Stack!Held, Stack!made
  <2> QED BY <2>2, StackStarts DEF Stack!Contract!Init
<1>2. StackInv /\ [Stack!Next]_(Stack!vars) => StackInv'
        /\ [Stack!Contract!Next]_(Stack!Contract!vars)
  BY StackSteps
<1> QED BY <1>1, <1>2, PTL DEF Stack!Spec, Stack!Contract!Spec

\* Whatever frames are entered and left, the offset is where what is live ends and
\* the frames open are the live ones, in the order of their marks: nothing live was
\* given back with a frame above it, and nothing dead is kept.
THEOREM StackStands ==
  Stack!StackAssumption => (Stack!Spec => [](Stack!TypeOK /\ Stack!OffsetIsWhereTheLiveEnd
          /\ Stack!FramesNest))
<1> SUFFICES ASSUME Stack!StackAssumption
             PROVE  Stack!Spec => [](Stack!TypeOK /\ Stack!OffsetIsWhereTheLiveEnd
                     /\ Stack!FramesNest)
  OBVIOUS
<1>1. Stack!Init => StackInv /\ MarksStand
  BY StackStarts, MarksStart
<1>2. StackInv /\ MarksStand /\ [Stack!Next]_(Stack!vars) => StackInv' /\ MarksStand'
  BY StackSteps, MarksStep
<1>3. StackInv /\ MarksStand => Stack!TypeOK /\ Stack!OffsetIsWhereTheLiveEnd
        /\ Stack!FramesNest
  BY DEF StackInv, FramesAreLive, LeasesEndBelow, MarksStand, Stack!OffsetIsWhereTheLiveEnd,
         Stack!FramesNest, Stack!LiveOnes, Stack!isLive, Stack!innermost
<1> QED BY <1>1, <1>2, <1>3, PTL DEF Stack!Spec

-----------------------------------------------------------------------------
(* All five.                                                               *)

\* While an allocator of one kind is used the others stay as they were created.
LEMMA EachRuns ==
  AllSpec => Spec /\ Stack!Spec /\ Managed!Spec /\ Arena!Spec /\ Fixed!Spec
<1>1. AllInit => Init /\ Stack!Init /\ Managed!Init /\ Arena!Init /\ Fixed!Init
  BY DEF AllInit
<1>2. [AllNext]_<<kind, vars, stackVars, managedVars, resetVars>> =>
        /\ [Next]_vars /\ [Stack!Next]_(Stack!vars) /\ [Managed!Next]_(Managed!vars)
        /\ [Arena!Next]_(Arena!vars) /\ [Fixed!Next]_(Fixed!vars)
  BY DEF AllNext, stackVars, managedVars, arenaVars, fixedVars, resetVars, Stack!vars,
         Stack!frameVars, Managed!vars, Managed!frameVars, Arena!vars, Fixed!vars
<1> QED
  BY <1>1, <1>2, PTL
     DEF AllSpec, Spec, Stack!Spec, Managed!Spec, Arena!Spec, Fixed!Spec

\* Nothing live is given back and nothing dead is kept: in the stack and in the
\* managed region down to where an open frame was entered, in the arena above the
\* chunks in use; and the pool's leases are of its blocks.
THEOREM OnlyTheDeadAreGivenBackHolds == AllSpec => []OnlyTheDeadAreGivenBack
<1>1. AllSpec => []TypeOK
  BY EachRuns, TypeCorrect
<1>2. AllSpec => [](Stack!TypeOK /\ Stack!OffsetIsWhereTheLiveEnd /\ Stack!FramesNest)
  BY EachRuns, StackStands, AllocatorsAssumption
<1>3. AllSpec => [](Managed!TypeOK /\ Managed!RegionIsGivenBack)
  BY EachRuns, ManagedImplementsAllocator
<1>4. AllSpec => []Arena!ChunksHoldWhatIsLive
  BY EachRuns, ArenaImplementsAllocator
<1> QED BY <1>1, <1>2, <1>3, <1>4, PTL DEF OnlyTheDeadAreGivenBack

\* The stack, the managed allocator, the arena and the fixed buffer keep the
\* contract the pool keeps: what is live is nobody else's, and what was released
\* stays dead when its bytes are handed on.
THEOREM OthersImplementAllocatorHolds == AllSpec => OthersImplementAllocator
<1>1. AllSpec => Stack!ImplementsAllocator
  BY EachRuns, StackImplementsAllocator, AllocatorsAssumption
<1>2. AllSpec => Managed!ImplementsAllocator /\ Managed!OnlyWhatOutgrowsItSpills
  BY EachRuns, ManagedImplementsAllocator
<1>3. AllSpec => Arena!ImplementsAllocator
  BY EachRuns, ArenaImplementsAllocator
<1>4. AllSpec => Fixed!ImplementsAllocator
  BY EachRuns, FixedBufferImplementsAllocator
<1> QED BY <1>1, <1>2, <1>3, <1>4 DEF OthersImplementAllocator
=============================================================================

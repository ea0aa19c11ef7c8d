----------------------------- MODULE MCAllocators -----------------------------
(***************************************************************************)
(* The five allocators on small instances, one of them at a time: which   *)
(* one is chosen in the initial state, and the others stay as they were    *)
(* created.  Four allocations are enough for each block of the pool to be  *)
(* held, given back and held again while its old holders are around, and   *)
(* three frames to be left in every order.                                 *)
(***************************************************************************)
EXTENDS PoolAllocator, TLC

CONSTANTS
  a1, a2, a3, a4, f1, f2, f3,
  Frames, outermost, always,
  Capacity,     \* of the stack's buffer
  StackSizes,   \* the sizes asked of the stack
  RegionSizes, RegionAlignments,  \* what is asked of the other three
  ChunkSize, MaxResets  \* of the arena; resets of the fixed buffer too

VARIABLES
  kind,
  stackFrames, stackMark, stackLive, stackEntered, stackOffset, stackLeases,
  region, regionOffset, regionFrames, regionMark, wantedMark, regionLive,
  regionEntered, wanted, peak, regionLeases,
  chunks, current, arenaOffset, arenaGeneration, arenaLeases,
  fixedOffset, fixedGeneration, fixedLeases

Stack == INSTANCE StackAllocator WITH
  Sizes <- StackSizes, frames <- stackFrames, mark <- stackMark,
  live <- stackLive, entered <- stackEntered, offset <- stackOffset,
  leases <- stackLeases

Managed == INSTANCE ManagedAllocator WITH
  Sizes <- RegionSizes, Alignments <- RegionAlignments,
  offset <- regionOffset, frames <- regionFrames, mark <- regionMark,
  live <- regionLive, entered <- regionEntered, leases <- regionLeases

Arena == INSTANCE ArenaAllocator WITH
  Sizes <- Sizes, Alignments <- RegionAlignments, offset <- arenaOffset,
  generation <- arenaGeneration, leases <- arenaLeases

Fixed == INSTANCE FixedBufferAllocator WITH
  Alignments <- RegionAlignments, offset <- fixedOffset,
  generation <- fixedGeneration, leases <- fixedLeases

ASSUME AllocatorsAssumption ==
  /\ Stack!StackAssumption
  /\ Managed!ManagedAssumption
  /\ Arena!ArenaAssumption
  /\ Fixed!FixedAssumption

stackVars ==
  <<stackFrames, stackMark, stackLive, stackEntered, stackOffset, stackLeases>>
managedVars ==
  <<region, regionOffset, regionFrames, regionMark, wantedMark, regionLive,
    regionEntered, wanted, peak, regionLeases>>

arenaVars == <<chunks, current, arenaOffset, arenaGeneration, arenaLeases>>
fixedVars == <<fixedOffset, fixedGeneration, fixedLeases>>
resetVars == <<arenaVars, fixedVars>>

AllInit ==
  /\ kind \in {"pool", "stack", "managed", "arena", "fixed"}
  /\ Init
  /\ Stack!Init
  /\ Managed!Init
  /\ Arena!Init
  /\ Fixed!Init

AllNext ==
  /\ kind' = kind
  /\ \/ kind = "pool" /\ Next /\ UNCHANGED <<stackVars, managedVars, resetVars>>
     \/ kind = "stack" /\ Stack!Next /\ UNCHANGED <<vars, managedVars, resetVars>>
     \/ kind = "managed" /\ Managed!Next /\ UNCHANGED <<vars, stackVars, resetVars>>
     \/ kind = "arena" /\ Arena!Next
          /\ UNCHANGED <<vars, stackVars, managedVars, fixedVars>>
     \/ kind = "fixed" /\ Fixed!Next
          /\ UNCHANGED <<vars, stackVars, managedVars, arenaVars>>

AllSpec ==
  AllInit /\ [][AllNext]_<<kind, vars, stackVars, managedVars, resetVars>>

\* Allocations and frames are told apart only by what is done with them.
Symmetry == Permutations(Allocations) \cup Permutations(Frames)

\* After frames are left, nothing live was given back and nothing dead is kept,
\* and the open frames are the live ones, in the order of their marks; what is
\* live in an arena lies in its chunks, below where it stands; a pool's leases
\* are no larger than a block.
OnlyTheDeadAreGivenBack ==
  /\ TypeOK
  /\ Stack!TypeOK /\ Stack!OffsetIsWhereTheLiveEnd /\ Stack!FramesNest
  /\ Managed!TypeOK /\ Managed!RegionIsGivenBack
  /\ Arena!ChunksHoldWhatIsLive

\* The other four keep the contract of every allocator; and of a managed one,
\* only a pass that asks for more than every one before spills its region.
OthersImplementAllocator ==
  /\ Stack!ImplementsAllocator
  /\ Managed!ImplementsAllocator /\ Managed!OnlyWhatOutgrowsItSpills
  /\ Arena!ImplementsAllocator
  /\ Fixed!ImplementsAllocator
=============================================================================

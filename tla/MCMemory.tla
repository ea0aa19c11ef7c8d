------------------------------ MODULE MCMemory ------------------------------
(***************************************************************************)
(* The three ways of reaching memory on small instances, one at a time:    *)
(* which is chosen in the initial state.  Four handles and four views let  *)
(* a storage be moved, borrowed again and a view of a borrow be owned in   *)
(* its turn; three views nest; two pointers over three buffers go stale.   *)
(***************************************************************************)
EXTENDS Ownership

CONSTANTS
  s,
  StorageLength, MaxLength, MaxThings, Positions,
  array, storage, reference, missing,
  MaxBuffers, MaxSize, MaxPointers, Elements,
  Kinds  \* which of the three are looked at

VARIABLES
  kind,
  arrayLength, things,
  backing, buffers, detached, view, lease, pointers, last

\* The elements: a byte and a pair of bytes.
BytesAndPairs == {[size |-> 1, alignment |-> 1], [size |-> 2, alignment |-> 2]}

Viewing == INSTANCE Views
Native == INSTANCE NativeMemory

ASSUME MemoryAssumption == OwnershipAssumption /\ Viewing!ViewsAssumption /\ Native!NativeAssumption

viewingVars == <<arrayLength, things>>
nativeVars == <<backing, buffers, detached, view, lease, pointers, last>>

\* What is not looked at stays as one of its initial states has it.
AllInit ==
  /\ kind \in Kinds
  /\ Init
  /\ IF kind = "views" THEN Viewing!Init ELSE arrayLength = 0 /\ things = <<>>
  /\ IF kind = "native" THEN Native!Init
     ELSE /\ backing = "memory" /\ buffers = <<1>> /\ detached = {} /\ view = 1
          /\ lease = [start |-> 0, size |-> 0, live |-> TRUE] /\ pointers = <<>>
          /\ last = [outcome |-> "none", buffer |-> 0, address |-> 0, size |-> 0]

AllNext ==
  /\ kind' = kind
  /\ \/ kind = "ownership" /\ Next /\ UNCHANGED <<viewingVars, nativeVars>>
     \/ kind = "views" /\ Viewing!Next /\ UNCHANGED <<vars, nativeVars>>
     \/ kind = "native" /\ Native!Next /\ UNCHANGED <<vars, viewingVars>>

AllSpec == AllInit /\ [][AllNext]_<<kind, vars, viewingVars, nativeVars>>

\* A view is a window on what it was cut from (packages/memory/src/region).
AccessStaysInside == Viewing!TypeOK /\ Viewing!AccessStaysInside

\* What was ended stays ended: borrows, handles, ownerships; and a typed pointer
\* or storage reaches the bytes there are, or is refused, however its buffer was
\* grown, shrunk or given back (packages/memory/src/nativePointerTo).
NothingStaleIsReached ==
  /\ []TypeOK /\ WhatEndedStaysEnded
  /\ []Native!TypeOK /\ Native!HitsTheBytesThereAre
=============================================================================

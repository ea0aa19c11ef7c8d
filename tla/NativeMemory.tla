---------------------------- MODULE NativeMemory ----------------------------
(***************************************************************************)
(* Typed pointers and storages over bytes that may move or shrink          *)
(* (packages/memory/src/linearMemory, nativePointerTo, byteStorage).  The  *)
(* backing is a memory whose growth puts a new buffer in place of the old  *)
(* one, as WebAssembly's, or a resizable buffer, which may be transferred  *)
(* away; of the latter an allocator may have given a part.                 *)
(***************************************************************************)
EXTENDS Integers, Sequences

CONSTANTS
  MaxBuffers,   \* how many buffers a memory goes through
  MaxSize,      \* the most bytes there are
  MaxPointers,  \* how many pointers are made
  Elements      \* the layouts used: a size and an alignment

VARIABLES
  backing,      \* "memory" or "buffer"
  buffers,      \* the sizes of the buffers there were, the present one last
  detached,     \* the buffers whose bytes went elsewhere
  view,         \* the buffer the view kept of a linear memory is over
  lease,        \* the part of a buffer an allocator gave: start, size and live
  pointers,     \* region, address and layout of every pointer
  last          \* how the last access ended, and where it went

\* There is a buffer and a byte, and a layout takes a byte at least.
NativeAssumption ==
  /\ MaxBuffers \in Nat \ {0} /\ MaxSize \in Nat \ {0} /\ MaxPointers \in Nat
  /\ \A element \in Elements : element.size \in Nat \ {0} /\ element.alignment \in Nat \ {0}

vars == <<backing, buffers, detached, view, lease, pointers, last>>

Regions == {"memory", "allocation"}
Outcomes == {"none", "hit", "released", "outside", "engine", "thrown"}

TypeOK ==
  /\ backing \in {"memory", "buffer"}
  /\ buffers \in Seq(0 .. MaxSize)
  /\ detached \subseteq 1 .. Len(buffers)
  /\ view \in 1 .. Len(buffers)
  /\ lease \in [start : 0 .. MaxSize, size : 0 .. MaxSize, live : BOOLEAN]
  /\ pointers \in Seq([region : Regions, address : 0 .. MaxSize, element : Elements])
  /\ last \in [outcome : Outcomes, buffer : 0 .. MaxBuffers, address : 0 .. MaxSize,
               size : 0 .. MaxSize]

now == Len(buffers)

Init ==
  /\ backing \in {"memory", "buffer"}
  /\ buffers \in {<<size>> : size \in 1 .. MaxSize}
  /\ detached = {}
  /\ view = 1
  /\ lease \in [start : 0 .. MaxSize, size : 0 .. MaxSize, live : {TRUE}]
  /\ lease.start + lease.size <= IF backing = "buffer" THEN buffers[1] ELSE 0
  /\ pointers = <<>>
  /\ last = [outcome |-> "none", buffer |-> 0, address |-> 0, size |-> 0]

backingVars == <<backing, buffers, detached, lease>>

\* Growing a memory: its bytes move to a new buffer, and the old one is detached.
Grow(size) ==
  /\ backing = "memory"
  /\ now < MaxBuffers
  /\ size > buffers[now]
  /\ buffers' = Append(buffers, size)
  /\ detached' = detached \cup {now}
  /\ UNCHANGED <<backing, view, lease, pointers, last>>

\* Resizing a buffer, which views of it follow.
Resize(size) ==
  /\ backing = "buffer"
  /\ detached = {}
  /\ buffers' = <<size>>
  /\ UNCHANGED <<backing, detached, view, lease, pointers, last>>

\* Transferring a buffer away.
Transfer ==
  /\ backing = "buffer"
  /\ detached' = {1}
  /\ UNCHANGED <<backing, buffers, view, lease, pointers, last>>

\* The allocator takes its bytes back.
Release ==
  /\ backing = "buffer"
  /\ lease.live
  /\ lease' = [lease EXCEPT !.live = FALSE]
  /\ UNCHANGED <<backing, buffers, detached, view, pointers, last>>

\* Mutant: the view made first is kept.
bytesOfFirst(region) == view

\* bytesOf: the view kept, or a new one when the memory has another buffer.
bytesOf(region) == IF region = "memory" /\ view # now THEN now ELSE view

Refresh(region) == view' = bytesOf(region)

\* A view of a detached buffer, and one of fixed length whose part is cut off,
\* answer with the engine's own error.
IsReadable(bytes) == bytes \notin detached

Smaller(m, n) == IF m < n THEN m ELSE n

\* end: where the region stops, going by the bytes there are.
End(region, bytes) ==
  IF region = "memory" THEN buffers[bytes]
  ELSE Smaller(lease.start + lease.size, buffers[bytes])

Start(region) == IF region = "memory" THEN 0 ELSE lease.start

\* requireAddress: in the region, or where it ends, and aligned.
RequireAddress(region, address, element) ==
  LET bytes == bytesOf(region) IN
  /\ IsReadable(bytes)
  /\ address \in Start(region) .. End(region, bytes)
  /\ address % element.alignment = 0

CreateNativePointer(region, address, element) ==
  /\ Len(pointers) < MaxPointers
  /\ RequireAddress(region, address, element)
  /\ pointers' = Append(pointers,
       [region |-> region, address |-> address, element |-> element])
  /\ Refresh(region)
  /\ UNCHANGED <<backingVars, last>>

\* nativePointerTo: an address of a memory, or the beginning of an allocation.
NativePointerTo(region, address, element) ==
  /\ region = "allocation" => backing = "buffer" /\ address = lease.start
  /\ CreateNativePointer(region, address, element)

\* pointer.at: from where it points, as the same element or as another.
At(p, byteOffset, element) ==
  CreateNativePointer(pointers[p].region, pointers[p].address + byteOffset, element)

Ended(outcome, bytes, address, size) ==
  last' = [outcome |-> outcome, buffer |-> bytes, address |-> address, size |-> size]

Refused(outcome) == Ended(outcome, 0, 0, 0)

\* pointer.get and pointer.set.
Access(p) ==
  LET region == pointers[p].region
      address == pointers[p].address
      size == pointers[p].element.size
      bytes == bytesOf(region) IN
  IF region = "allocation" /\ ~lease.live
  THEN Refused("released") /\ UNCHANGED <<backingVars, view, pointers>>
  ELSE /\ IF ~IsReadable(bytes) THEN Refused("engine")
          ELSE IF address + size > End(region, bytes) THEN Refused("outside")
          ELSE Ended("hit", bytes, address, size)
       /\ Refresh(region)
       /\ UNCHANGED <<backingVars, pointers>>

\* get and set of a storage of `size`-byte elements over the allocation: by the
\* typed array, if it has one and while that reaches all of them, else through
\* the view of the allocation, which throws once any of its bytes is gone.
StorageAccess(index, size, hasTypedArray) ==
  LET length == lease.size \div size
      address == lease.start + index * size
      InReach(end) == IsReadable(1) /\ end <= buffers[1]
      typed == hasTypedArray /\ lease.start % size = 0 /\ InReach(lease.start + length * size) IN
  /\ backing = "buffer"
  /\ IF ~lease.live THEN Refused("released")
     ELSE IF index >= length THEN Refused("outside")
     ELSE IF typed \/ InReach(lease.start + lease.size) THEN Ended("hit", 1, address, size)
     ELSE Refused("thrown")
  /\ UNCHANGED <<backingVars, view, pointers>>

Next ==
  \/ \E size \in 0 .. MaxSize : Grow(size) \/ Resize(size)
  \/ Transfer
  \/ Release
  \/ \E region \in Regions, address \in 0 .. MaxSize, element \in Elements :
       NativePointerTo(region, address, element)
  \/ \E p \in 1 .. Len(pointers) :
       \/ Access(p)
       \/ \E byteOffset \in (-MaxSize) .. MaxSize, element \in Elements :
            At(p, byteOffset, element)
  \/ \E index \in 0 .. MaxSize, element \in Elements, hasTypedArray \in BOOLEAN :
       StorageAccess(index, element.size, hasTypedArray)

Spec == Init /\ [][Next]_vars

-----------------------------------------------------------------------------
(* Properties.                                                             *)

\* An access that goes through reads the bytes the backing has now, all of them
\* there and, for an allocation, its own and not given back.  A memory that grew
\* is read where its bytes are: its engine never has to refuse.
HitsTheBytesThereAre ==
  [][/\ backing = "memory" => last'.outcome # "engine"
     /\ last' # last /\ last'.outcome = "hit" =>
       LET end == last'.address + last'.size IN
       /\ last'.buffer = now /\ now \notin detached
       /\ end <= buffers[now]
       /\ \/ /\ backing = "buffer" /\ lease.live
             /\ last'.address >= lease.start /\ end <= lease.start + lease.size
          \/ \E p \in 1 .. Len(pointers) :
               pointers[p].region = "memory" /\ pointers[p].address = last'.address]_vars
=============================================================================

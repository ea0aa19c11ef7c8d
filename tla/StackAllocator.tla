--------------------------- MODULE StackAllocator ---------------------------
(***************************************************************************)
(* An allocator over one buffer, released in frames, last in first out     *)
(* (packages/memory/src/stackAllocator), over bump (packages/memory/src/   *)
(* bump).  A call that is refused throws before it changes anything, so a  *)
(* refusal is a guard that does not hold.                                  *)
(***************************************************************************)
EXTENDS Bump, Sequences, FiniteSets

CONSTANTS
  Allocations,  \* the allocations that may be made
  Frames,       \* the frames that may be entered
  outermost,    \* the frame of the allocator itself
  Capacity,     \* size of the buffer
  Sizes,        \* the sizes asked for
  Alignments    \* the alignments asked for: powers of two

\* What the constants are.
StackAssumption ==
  /\ Capacity \in Nat
  /\ Sizes \subseteq Nat
  /\ Alignments \subseteq Nat \ {0}
  /\ outermost \notin Frames

AllFrames == Frames \cup {outermost}

NoLease == [frame |-> outermost, start |-> 0, size |-> 0, made |-> FALSE]

VARIABLES
  frames,   \* the frames open, the innermost last
  mark,     \* where the stack stood when each was entered
  live,     \* the frames not left
  entered,  \* the frames that were entered
  offset,   \* where the next allocation may start
  leases    \* what each allocation was given, and `made` once it was

frameVars == <<frames, mark, live, entered>>
vars == <<frameVars, offset, leases>>

Leases == [frame : AllFrames, start : 0 .. Capacity, size : 0 .. Capacity,
           made : BOOLEAN]

TypeOK ==
  /\ frames \in Seq(AllFrames)
  /\ mark \in [AllFrames -> 0 .. Capacity]
  /\ live \subseteq AllFrames
  /\ entered \subseteq AllFrames
  /\ offset \in 0 .. Capacity
  /\ leases \in [Allocations -> Leases]

Init ==
  /\ frames = <<outermost>>
  /\ mark = [f \in AllFrames |-> 0]
  /\ live = {outermost}
  /\ entered = {outermost}
  /\ offset = 0
  /\ leases = [a \in Allocations |-> NoLease]

innermost == frames[Len(frames)]

made(a) == leases[a].made

isLive(a) == made(a) /\ leases[a].frame \in live

\* bump has room for a request.
Fits(size, alignment) == Holds(Capacity, offset, size, alignment)

\* allocateIn: by the innermost frame, as long as there is room.
AllocateIn(f, a, size, alignment) ==
  /\ ~made(a)
  /\ f \in live
  /\ f = innermost
  /\ Fits(size, alignment)
  /\ LET start == Aligned(offset, alignment) IN
     /\ leases' = [leases EXCEPT ![a] =
                     [frame |-> f, start |-> start, size |-> size, made |-> TRUE]]
     /\ offset' = start + size
  /\ UNCHANGED frameVars

\* enter: a frame on top, which remembers where the stack stands.
Enter(f) ==
  /\ f \notin entered
  /\ entered' = entered \cup {f}
  /\ live' = live \cup {f}
  /\ mark' = [mark EXCEPT ![f] = offset]
  /\ frames' = Append(frames, f)
  /\ UNCHANGED <<offset, leases>>

\* frame[Symbol.dispose]: only the innermost one is left, and it is once.
Leave(f) ==
  /\ f \in live \ {outermost}
  /\ f = innermost
  /\ live' = live \ {f}
  /\ frames' = SubSeq(frames, 1, Len(frames) - 1)
  /\ offset' = mark[f]
  /\ UNCHANGED <<mark, entered, leases>>

Next ==
  \/ \E f \in Frames : Enter(f) \/ Leave(f)
  \/ \E f \in AllFrames, a \in Allocations :
       \E size \in Sizes, alignment \in Alignments :
         AllocateIn(f, a, size, alignment)

Spec == Init /\ [][Next]_vars

-----------------------------------------------------------------------------
(* Properties.                                                             *)

LiveOnes == {a \in Allocations : isLive(a)}

DeadOnes == {a \in Allocations : made(a) /\ ~isLive(a)}

EndOf(a) == leases[a].start + leases[a].size

\* Everything below the offset is somebody's and nothing above it is: what the
\* frames left is all given back, and nothing of what is live has been.
OffsetIsWhereTheLiveEnd ==
  /\ \A a \in LiveOnes : EndOf(a) <= offset
  /\ offset = 0 \/ \E a \in LiveOnes : EndOf(a) = offset

\* The frames open are the live ones, each once, and their marks are in order.
FramesNest ==
  /\ {frames[i] : i \in 1 .. Len(frames)} = live
  /\ \A i, j \in 1 .. Len(frames) : i < j =>
       frames[i] # frames[j] /\ mark[frames[i]] <= mark[frames[j]]
  /\ mark[innermost] <= offset

BytesOf(lease) == lease.start .. (lease.start + lease.size - 1)

Held == [a \in Allocations |-> IF leases[a].made THEN BytesOf(leases[a]) ELSE {}]

\* The stack is an allocator: bytes live in one frame are not another's, and
\* an allocation of a frame left stays dead when its bytes are handed on.
Contract == INSTANCE Allocator WITH
  Bytes <- 0 .. (Capacity - 1),
  live <- LiveOnes,
  released <- DeadOnes,
  bytes <- Held

ImplementsAllocator == Contract!Spec
=============================================================================

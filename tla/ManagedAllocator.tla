-------------------------- MODULE ManagedAllocator --------------------------
(***************************************************************************)
(* An allocator over memory the engine manages that also lends memory for  *)
(* the length of a frame (packages/memory/src/managedAllocator).  Frames   *)
(* may be left in any order; the innermost one takes from a region that is *)
(* reused, the others get buffers of their own.  Two regions never have    *)
(* the same size, so a region is named by its size; 0 is no region.        *)
(***************************************************************************)
EXTENDS Bump, Sequences

CONSTANTS
  Allocations,  \* the allocations that may be made
  Frames,       \* the frames that may be entered
  always,       \* stands for the frame of what is allocated outside any
  Sizes,        \* the sizes asked for
  Alignments    \* the alignments asked for: powers of two

\* What the constants are.
ManagedAssumption ==
  /\ Sizes \subseteq Nat
  /\ Alignments \subseteq Nat \ {0}
  /\ always \notin Frames
  /\ Allocations \cap Nat = {}  \* buffers of allocations are told from regions

own == 0  \* where an allocation with a buffer of its own is

NoLease == [frame |-> always, region |-> own, start |-> 0, size |-> 0,
            made |-> FALSE]

VARIABLES
  region,       \* the size of the region, 0 while there is none
  offset,       \* where the next allocation in it may start
  frames,       \* the frames open or left early, the innermost last
  mark, wantedMark,  \* where offset and wanted stood when each was entered
  live,         \* the frames not left
  entered,      \* the frames that were entered
  wanted,       \* where the region would stand had every request fitted
  peak,         \* the most wanted reached since no frame was open
  leases        \* what each allocation was given, and `made` once it was

frameVars == <<frames, mark, wantedMark, live, entered>>
vars == <<region, offset, frameVars, wanted, peak, leases>>

Leases == [frame : Frames \cup {always}, region : Nat, start : Nat, size : Nat,
           made : BOOLEAN]

TypeOK ==
  /\ region \in Nat
  /\ offset \in 0 .. region
  /\ frames \in Seq(Frames)
  /\ mark \in [Frames -> Nat]
  /\ wantedMark \in [Frames -> Nat]
  /\ live \subseteq Frames
  /\ entered \subseteq Frames
  /\ wanted \in 0 .. peak
  /\ peak \in Nat
  /\ leases \in [Allocations -> Leases]

Init ==
  /\ region = 0
  /\ offset = 0
  /\ frames = <<>>
  /\ mark = [f \in Frames |-> 0]
  /\ wantedMark = [f \in Frames |-> 0]
  /\ live = {}
  /\ entered = {}
  /\ wanted = 0
  /\ peak = 0
  /\ leases = [a \in Allocations |-> NoLease]

made(a) == leases[a].made

isLive(a) == made(a) /\ leases[a].frame \in live \cup {always}

Innermost(f) == frames # <<>> /\ frames[Len(frames)] = f

Lease(a, f, where, start, size) ==
  leases' = [leases EXCEPT ![a] = [frame |-> f, region |-> where,
                        start |-> start, size |-> size, made |-> TRUE]]

\* Mutant: any open frame takes from the region.
TakesWhateverIsOnTop(f, size, alignment) ==
  region # 0 /\ Holds(region, offset, size, alignment)

\* The request is met from the region: bump has room for it.
Takes(f, size, alignment) ==
  Innermost(f) /\ region # 0 /\ Holds(region, offset, size, alignment)

\* Whether it fits or not, what the innermost frame asks for is counted.
Wants(f, size, alignment) ==
  IF Innermost(f)
  THEN /\ wanted' = Aligned(wanted, alignment) + size
       /\ peak' = IF wanted' > peak THEN wanted' ELSE peak
  ELSE UNCHANGED <<wanted, peak>>

\* allocateIn
AllocateIn(f, a, size, alignment) ==
  /\ ~made(a)
  /\ f \in live
  /\ Wants(f, size, alignment)
  /\ IF Takes(f, size, alignment)
     THEN LET start == Aligned(offset, alignment) IN
          offset' = start + size /\ Lease(a, f, region, start, size)
     ELSE offset' = offset /\ Lease(a, f, own, 0, size)
  /\ UNCHANGED <<region, frameVars>>

\* allocate, outside any frame: a buffer of its own, released by nobody.
Allocate(a, size) ==
  /\ ~made(a)
  /\ Lease(a, always, own, 0, size)
  /\ UNCHANGED <<region, offset, frameVars, wanted, peak>>

\* enter
Enter(f) ==
  /\ f \notin entered
  /\ entered' = entered \cup {f}
  /\ live' = live \cup {f}
  /\ mark' = [mark EXCEPT ![f] = offset]
  /\ wantedMark' = [wantedMark EXCEPT ![f] = wanted]
  /\ frames' = Append(frames, f)
  /\ UNCHANGED <<region, offset, wanted, peak, leases>>

\* Mutant: a frame that is left takes off those above it, left or not.
KeptDownTo(left) ==
  CHOOSE n \in 0 .. Len(frames) :
    /\ \A i \in 1 .. n : frames[i] \in left
    /\ n = Len(frames) \/ frames[n + 1] \notin left

\* How many frames stay once only those in left are open: the ones that were
\* left come off the top, up to the innermost still open.
Kept(left) ==
  CHOOSE n \in 0 .. Len(frames) :
    /\ n = 0 \/ frames[n] \in left
    /\ \A i \in (n + 1) .. Len(frames) : frames[i] \notin left

\* leave: the region stands again where the lowest frame taken off found it;
\* with no frame open it is replaced by one as large as was ever wanted.
Leave(f) ==
  /\ f \in live
  /\ live' = live \ {f}
  /\ LET kept == Kept(live \ {f})
         lowest == frames[kept + 1]
         off == kept < Len(frames)
         grows == kept = 0 /\ peak > region
     IN /\ frames' = SubSeq(frames, 1, kept)
        /\ wanted' = IF off THEN wantedMark[lowest] ELSE wanted
        /\ region' = IF grows THEN peak ELSE region
        /\ offset' = IF grows THEN 0
                     ELSE IF off /\ region # 0 THEN mark[lowest] ELSE offset
        /\ peak' = IF kept = 0 THEN 0 ELSE peak
  /\ UNCHANGED <<mark, wantedMark, entered, leases>>

Next ==
  \/ \E a \in Allocations, size \in Sizes :
       \/ Allocate(a, size)
       \/ \E f \in Frames, alignment \in Alignments :
            AllocateIn(f, a, size, alignment)
  \/ \E f \in Frames : Enter(f) \/ Leave(f)

Spec == Init /\ [][Next]_vars

-----------------------------------------------------------------------------
(* Properties.                                                             *)

LiveOnes == {a \in Allocations : isLive(a)}

DeadOnes == {a \in Allocations : made(a) /\ ~isLive(a)}

EndOf(a) == leases[a].start + leases[a].size

\* What is live in the region lies below the offset, in the order of the
\* frames, and with no frame open all of it has been given back.
RegionIsGivenBack ==
  /\ \A a \in LiveOnes : leases[a].region # own =>
       /\ leases[a].region = region
       /\ EndOf(a) <= offset
       /\ \A i, j \in 1 .. Len(frames) :
            i < j /\ frames[i] = leases[a].frame => EndOf(a) <= mark[frames[j]]
  /\ frames = <<>> => offset = 0 /\ wanted = 0 /\ peak = 0

\* The region grows to what the frames ever held at once, so that only a pass
\* that asks for more than every pass before it is given buffers of its own
\* (before there is a region, an empty request is given one too).
OnlyWhatOutgrowsItSpills ==
  [][/\ \A a \in Allocations :
          /\ ~made(a) /\ made(a)' /\ leases'[a].region = own
          /\ Innermost(leases'[a].frame) /\ leases'[a].size > 0
          => wanted' > region
     /\ frames # <<>> /\ frames' = <<>> => region' >= peak /\ region' >= region]_vars

\* The bytes of an allocation: of the region it is in, or of its own buffer.
BytesOf(a) ==
  {<<IF leases[a].region = own THEN a ELSE leases[a].region, i>> :
     i \in leases[a].start .. (EndOf(a) - 1)}

Held == [a \in Allocations |-> IF made(a) THEN BytesOf(a) ELSE {}]

\* The allocator keeps the contract of all of them, in whatever order its
\* frames are entered, used and left.
Contract == INSTANCE Allocator WITH
  Bytes <- (Allocations \cup Nat) \X Nat,
  live <- LiveOnes,
  released <- DeadOnes,
  bytes <- Held

ImplementsAllocator == Contract!Spec
=============================================================================

-------------------------------- MODULE Views --------------------------------
(***************************************************************************)
(* Views and pointers over storages, arrays and references (packages/      *)
(* memory/src/region, source, asView, asReadOnlyView, pointerTo).  A view  *)
(* cut from a view reads the source itself; one made over a view reads     *)
(* through it.  An array may shrink under its views.  A call that is       *)
(* refused changes nothing, so a refusal is a guard that does not hold.    *)
(***************************************************************************)
EXTENDS Integers, Sequences

CONSTANTS
  StorageLength,  \* the length of the storage
  MaxLength,      \* the longest the array gets
  MaxThings,      \* how many views and pointers are made
  Positions,      \* the positions and lengths asked for, besides -1
  array, storage, reference,  \* what views and pointers are made of
  missing         \* an argument left out

VARIABLES
  arrayLength,    \* the length of the array now
  things          \* the views and pointers made, in order

vars == <<arrayLength, things>>

\* An access that is refused.
refused == <<missing, 0>>

Roots == {array, storage, reference}

ViewsAssumption ==
  /\ {StorageLength, MaxLength, MaxThings} \subseteq Nat /\ Positions \subseteq Int
  /\ array # storage /\ array # reference /\ storage # reference
  /\ Roots \cap Int = {}

Sources == Roots \cup 1 .. MaxThings

\* What a view or a pointer is: `start` is the index of a pointer.  `parent`
\* and `at` remember what it was cut from, and where in that it begins.
Thing == [kind : {"view", "pointer"}, source : Sources, start : Nat, length : Nat,
          writable : BOOLEAN, parent : Sources, at : Nat]

TypeOK == arrayLength \in 0 .. MaxLength /\ things \in Seq(Thing)

Init == arrayLength \in 0 .. MaxLength /\ things = <<>>

\* length() of a source.
LengthOf(source) ==
  IF source = array THEN arrayLength
  ELSE IF source = storage THEN StorageLength
  ELSE IF source = reference THEN 1
  ELSE things[source].length

\* read and write of a source, by the cell they reach; a view under another one
\* checks the index against its own length first (requireIndex).
Cell[source \in Roots \cup 1 .. Len(things)] == [i \in Int |->
  IF source = array THEN IF i < arrayLength THEN <<array, i>> ELSE refused
  ELSE IF source = storage THEN IF i \in 0 .. (StorageLength - 1) THEN <<storage, i>> ELSE refused
  ELSE IF source = reference THEN <<reference, 0>>
  ELSE IF i \in 0 .. (things[source].length - 1)
  THEN Cell[things[source].source][things[source].start + i]
  ELSE refused]

\* get and set of a view at an index; a pointer's index is its own.
Get(t, i) ==
  IF things[t].kind = "pointer"
  THEN IF things[t].start < LengthOf(things[t].source)
       THEN Cell[things[t].source][things[t].start] ELSE refused
  ELSE Cell[t][i]

IsView(x) == x \in 1 .. Len(things) /\ things[x].kind = "view"
IsPointer(x) == x \in 1 .. Len(things) /\ things[x].kind = "pointer"
Exists(x) == x \in Roots \cup 1 .. Len(things)

Writable(x) == x \in 1 .. Len(things) => things[x].writable

Clipped(start, available) == IF start < available THEN available - start ELSE 0

\* requirePart: a part lies within what it is taken from.
IsPart(start, length, available) ==
  start >= 0 /\ length >= 0 /\ start + length <= available

Make(thing) == things' = Append(things, thing)

\* resolveSource: a pointer or a reference is a single value at a position of
\* what it was made of; anything else is the source, from its beginning.
Single(x) == IsPointer(x) \/ x = reference
SourceOf(x) == IF IsPointer(x) THEN things[x].source ELSE x
StartOf(x) == IF IsPointer(x) THEN things[x].start ELSE 0

\* cutRegion: of a single value `first` is the length wanted, 1 unless said.
CutStart(x, first) ==
  IF Single(x) THEN StartOf(x) ELSE IF first = missing THEN 0 ELSE first
CutLength(x, first, second) ==
  IF Single(x) THEN IF first = missing THEN 1 ELSE first
  ELSE IF second = missing
       THEN Clipped(CutStart(x, first), LengthOf(x)) ELSE second

\* asView and asReadOnlyView, of anything that can be read and, for a view that
\* writes, written to.
AsView(x, first, second, isWritable) ==
  LET start == CutStart(x, first)
      length == CutLength(x, first, second) IN
  /\ Exists(x)
  /\ isWritable => Writable(x)
  /\ Single(x) => second = missing
  /\ IsPart(start, length, LengthOf(SourceOf(x)))
  /\ Make([kind |-> "view", source |-> SourceOf(x), start |-> start,
           length |-> length, writable |-> isWritable,
           parent |-> SourceOf(x), at |-> start])
  /\ UNCHANGED arrayLength

\* Mutant: a subview starts where it is asked to, wherever its view starts.
SubviewFromTheSource(v, from, count) ==
  LET length == IF count = missing THEN Clipped(from, things[v].length) ELSE count IN
  /\ IsView(v)
  /\ IsPart(from, length, things[v].length)
  /\ Make([things[v] EXCEPT !.start = from, !.length = length,
                            !.parent = v, !.at = from])
  /\ UNCHANGED arrayLength

\* subview: of the source, moved by where this view starts in it.
Subview(v, from, count) ==
  LET length == IF count = missing THEN Clipped(from, things[v].length) ELSE count IN
  /\ IsView(v)
  /\ IsPart(from, length, things[v].length)
  /\ Make([things[v] EXCEPT !.start = @ + from, !.length = length,
                            !.parent = v, !.at = from])
  /\ UNCHANGED arrayLength

\* readOnly
ReadOnly(v) ==
  /\ IsView(v)
  /\ things[v].writable
  /\ Make([things[v] EXCEPT !.writable = FALSE, !.parent = v, !.at = 0])
  /\ UNCHANGED arrayLength

\* createPointer, at a position that may be the one past the last.
MakePointer(source, index) ==
  /\ index \in 0 .. LengthOf(source)
  /\ Make([kind |-> "pointer", source |-> source, start |-> index, length |-> 1,
           writable |-> TRUE, parent |-> source, at |-> index])
  /\ UNCHANGED arrayLength

\* pointerTo
PointerTo(x, index) ==
  Exists(x) /\ ~Single(x) /\ Writable(x) /\ MakePointer(x, index)

\* pointer.offset
Offset(p, delta) ==
  IsPointer(p) /\ MakePointer(things[p].source, things[p].start + delta)

\* The program makes its array longer or shorter.
SetArrayLength(n) == arrayLength' = n /\ UNCHANGED things

Next ==
  \/ \E n \in 0 .. MaxLength : SetArrayLength(n)
  \/ /\ Len(things) < MaxThings
     /\ \/ \E x \in Sources, first, second \in Positions \cup {-1, missing} :
             \/ \E isWritable \in BOOLEAN : AsView(x, first, second, isWritable)
             \/ first # missing /\ Subview(x, first, second)
        \/ \E x \in Sources : ReadOnly(x)
        \/ \E x \in Sources, index \in Positions \cup {-1} : PointerTo(x, index) \/ Offset(x, index)

Spec == Init /\ [][Next]_vars

-----------------------------------------------------------------------------
(* Properties.                                                             *)

\* A view is a window on what it was cut from, however deep it is nested and
\* whatever became of the array since: an index inside reaches what the parent
\* has there, or is refused as the parent refuses it; any other is refused.
IsWindow(t, i) ==
  Get(t, i) = IF i \in 0 .. (things[t].length - 1)
              THEN Cell[things[t].parent][things[t].at + i] ELSE refused

\* Nothing is reached that is not there, nothing beyond what a view was cut
\* from, and nothing is written through what can only be read.
AccessStaysInside ==
  \A t \in 1 .. Len(things) :
    /\ things[t].writable => Writable(things[t].parent)
    /\ \A i \in -1 .. MaxLength :
         /\ things[t].kind = "view" => IsWindow(t, i)
         /\ LET cell == Get(t, i) IN
            cell # refused => cell[2] \in 0 .. (LengthOf(cell[1]) - 1)
=============================================================================

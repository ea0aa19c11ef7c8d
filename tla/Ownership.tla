------------------------------ MODULE Ownership ------------------------------
(***************************************************************************)
(* Owners and borrows as the run-time checks them (packages/memory/src/    *)
(* ownership, own, move, borrow, borrowMutable, and the views of region).  *)
(* A storage has one ownership for ever; its handle changes with every     *)
(* move; a borrow is a view that remembers the generation it was made in.  *)
(* What is refused throws before anything changes, so a refusal is a guard *)
(* that does not hold.  Handles and views are numbered as they are made.   *)
(***************************************************************************)
EXTENDS Integers, Sequences

CONSTANTS
  Storages,    \* the storages a program creates and owns
  MaxHandles,  \* how many owner handles are made
  MaxViews     \* how many borrows and views of them are made

VARIABLES
  ownedStorages,  \* what has, or had, an owner
  generation,     \* of the ownership of each, how often its borrows were ended
  exclusive,      \* whether the borrow it made last is a mutable one
  owner,          \* the handle that is its owner, 0 when there is none
  handles,        \* what each handle is, or was, an owner of
  views           \* the borrows, and the views taken of them

\* What the constants are.
OwnershipAssumption == MaxHandles \in Nat /\ MaxViews \in Nat

vars == <<ownedStorages, generation, exclusive, owner, handles, views>>
rest == <<ownedStorages, handles>>

\* A view may be owned in its turn: whatever has get, set and a length may.
Objects == Storages \cup 1 .. MaxViews

\* `from` is the borrow a view was taken of (itself, for a borrow), `by` the
\* handle the borrow was taken through.
View == [of : Objects, generation : Nat, writable : BOOLEAN, from : 1 .. MaxViews,
         by : 1 .. MaxHandles]

TypeOK ==
  /\ ownedStorages \subseteq Objects
  /\ generation \in [Objects -> Nat]
  /\ exclusive \in [Objects -> BOOLEAN]
  /\ owner \in [Objects -> 0 .. Len(handles)]
  /\ handles \in Seq(Objects) /\ Len(handles) <= MaxHandles
  /\ views \in Seq(View) /\ Len(views) <= MaxViews

Init ==
  /\ ownedStorages = {}
  /\ generation = [o \in Objects |-> 0]
  /\ exclusive = [o \in Objects |-> FALSE]
  /\ owner = [o \in Objects |-> 0]
  /\ handles = <<>>
  /\ views = <<>>

isBorrow(v) == views[v].from = v

\* requireOwnership: the handle is the owner still.
IsOwner(h) == h \in 1 .. Len(handles) /\ owner[handles[h]] = h

\* createOwned: a new handle is the owner.
CreateOwned(o) ==
  /\ Len(handles) < MaxHandles
  /\ handles' = Append(handles, o)
  /\ owner' = [owner EXCEPT ![o] = Len(handles) + 1]

\* endBorrows
EndBorrows(o, isExclusive) ==
  /\ generation' = [generation EXCEPT ![o] = @ + 1]
  /\ exclusive' = [exclusive EXCEPT ![o] = isExclusive]

AddView(view) == Len(views) < MaxViews /\ views' = Append(views, view)

\* own: of a storage, or of a view that is not a borrow and can be written to.
Own(o) ==
  /\ \/ o \in Storages
     \/ o \in 1 .. Len(views) /\ ~isBorrow(o) /\ views[o].writable
  /\ o \notin ownedStorages
  /\ ownedStorages' = ownedStorages \cup {o}
  /\ CreateOwned(o)
  /\ UNCHANGED <<generation, exclusive, views>>

\* move
Move(h) ==
  /\ IsOwner(h)
  /\ EndBorrows(handles[h], FALSE)
  /\ CreateOwned(handles[h])
  /\ UNCHANGED <<ownedStorages, views>>

\* owned[Symbol.dispose]: by the owner; by a handle that was moved from it does
\* nothing.
Dispose(h) ==
  /\ IsOwner(h)
  /\ EndBorrows(handles[h], FALSE)
  /\ owner' = [owner EXCEPT ![handles[h]] = 0]
  /\ UNCHANGED <<rest, views>>

\* A borrow is a view of all of the storage, in the generation it is made in.
NewBorrow(h, isWritable) ==
  [of |-> handles[h], generation |-> generation'[handles[h]],
   writable |-> isWritable, from |-> Len(views) + 1, by |-> h]

\* Mutant: a shared borrow leaves the mutable one alone.
BorrowBeside(h) ==
  /\ IsOwner(h)
  /\ UNCHANGED <<generation, exclusive>>
  /\ AddView(NewBorrow(h, FALSE))
  /\ UNCHANGED <<rest, owner>>

\* borrow: shared ones live beside each other, and end a mutable one.
Borrow(h) ==
  /\ IsOwner(h)
  /\ IF exclusive[handles[h]] THEN EndBorrows(handles[h], FALSE)
     ELSE UNCHANGED <<generation, exclusive>>
  /\ AddView(NewBorrow(h, FALSE))
  /\ UNCHANGED <<rest, owner>>

\* borrowMutable: ends every other.
BorrowMutable(h) ==
  /\ IsOwner(h)
  /\ EndBorrows(handles[h], TRUE)
  /\ AddView(NewBorrow(h, TRUE))
  /\ UNCHANGED <<rest, owner>>

\* subview and readOnly: a view of the same source, which nobody recorded.
TakeView(v, isWritable) ==
  /\ isWritable => views[v].writable
  /\ AddView([views[v] EXCEPT !.writable = isWritable])
  /\ UNCHANGED <<rest, generation, exclusive, owner>>

Next ==
  \/ \E o \in Objects : Own(o)
  \/ \E h \in 1 .. MaxHandles :
       Move(h) \/ Dispose(h) \/ Borrow(h) \/ BorrowMutable(h)
  \/ \E v \in 1 .. Len(views), isWritable \in BOOLEAN : TakeView(v, isWritable)

Spec == Init /\ [][Next]_vars

-----------------------------------------------------------------------------
(* Properties.                                                             *)

\* requireCurrent: reads and writes through a view are not refused by the
\* ownership it was borrowed from.
Current(v) == views[v].generation = generation[views[v].of]

Views == 1 .. Len(views)

\* A set of views with each of which what it is a view of is there too.
ClosedBelow(S) == \A w \in S : views[w].of \in Storages \/ views[w].of \in S

\* What a view reads and writes through: itself, what it is a view of when that
\* is a view in its turn, and so on.
Through(v) == {w \in Views : \A S \in SUBSET Views : v \in S /\ ClosedBelow(S) => w \in S}

\* ... nor by those further below, when what is owned is a view itself.
usable(v) == \A w \in Through(v) : Current(w)

\* The storage a view reads and writes in the end.
Roots(v) == {views[w].of : w \in Through(v)} \cap Storages

\* The borrows a view goes through.
Chain(v) == {views[w].from : w \in Through(v)}

\* Of two usable views of one storage neither can write, or they go through the
\* same mutable borrow: nobody sees a value change that it lent to nobody.
SharedOrMutable ==
  \A v, w \in Views :
    usable(v) /\ usable(w) /\ Roots(v) = Roots(w) /\ views[w].writable =>
      \E b \in Chain(v) \cap Chain(w) : views[b].writable

\* What is usable was lent by the handle that is the owner still.
LentByTheOwner == \A v \in Views : Current(v) => owner[views[v].of] = views[v].by

OwnershipIsSound == SharedOrMutable /\ LentByTheOwner

\* A borrow ended stays ended, a handle spent stays spent, and a storage that
\* had an owner gets no other ownership.
WhatEndedStaysEnded ==
  [][/\ \A v \in Views : ~usable(v) => ~usable(v)'
     /\ \A h \in 1 .. Len(handles) :
          /\ ~IsOwner(h) => ~IsOwner(h)'
          /\ handles'[h] = handles[h]
     /\ Len(handles') > Len(handles) =>
          LET o == handles'[Len(handles')] IN
          o \in ownedStorages => owner[o] # 0]_vars
=============================================================================

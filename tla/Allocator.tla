------------------------------ MODULE Allocator ------------------------------
(***************************************************************************)
(* What every allocation strategy promises (packages/memory/src/allocator):*)
(* bytes reserved for an allocation are nobody else's while it is live,    *)
(* and an allocation released never becomes live again, even when its      *)
(* bytes are handed to someone else.  How and when memory goes back is the *)
(* strategy's own business: here any set of allocations may be released.   *)
(***************************************************************************)
CONSTANTS
  Allocations,  \* the allocations that may be made
  Bytes         \* every byte there is

VARIABLES
  live,         \* the allocations whose isLive answers true
  released,     \* those whose isLive once did
  bytes         \* the bytes each was given

vars == <<live, released, bytes>>

TypeOK ==
  /\ live \subseteq Allocations
  /\ released \subseteq Allocations
  /\ bytes \in [Allocations -> SUBSET Bytes]

Init ==
  /\ live = {}
  /\ released = {}
  /\ bytes = [a \in Allocations |-> {}]

\* allocate: an allocation is made, of bytes no live one holds.
Allocate(a, given) ==
  /\ a \notin live \cup released
  /\ \A b \in live : bytes[b] \cap given = {}
  /\ live' = live \cup {a}
  /\ bytes' = [bytes EXCEPT ![a] = given]
  /\ released' = released

\* Some allocations are released, at once.
Release(gone) ==
  /\ gone \subseteq live
  /\ live' = live \ gone
  /\ released' = released \cup gone
  /\ bytes' = bytes

Next ==
  \/ \E a \in Allocations : bytes'[a] \subseteq Bytes /\ Allocate(a, bytes'[a])
  \/ \E gone \in SUBSET live : Release(gone)

Spec == Init /\ [][Next]_vars

\* No byte is reserved for two live allocations, and none is both live and
\* released.
Separate ==
  /\ live \cap released = {}
  /\ \A a, b \in live : a # b => bytes[a] \cap bytes[b] = {}
=============================================================================

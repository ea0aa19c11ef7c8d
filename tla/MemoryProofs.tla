---------------------------- MODULE MemoryProofs ----------------------------
(***************************************************************************)
(* For any number of storages, handles and views: what a borrow may assume *)
(* of the storage it was made of, through as many views as it may be; that *)
(* what ended stays ended.  For any memories, pointers and layouts: a      *)
(* typed pointer or a storage reaches the bytes there are, or is refused.  *)
(***************************************************************************)
EXTENDS MCMemory, FiniteSetTheorems, WellFoundedInduction, TLAPS

-----------------------------------------------------------------------------
(* For any number of storages, handles and views: what a borrow may assume *)
(* of the storage it was made of.                                          *)

\* Views of one storage that it does not refuse are all shared, or all of one
\* borrow.
OneWriter ==
  \A v, w \in Views :
    Current(v) /\ Current(w) /\ views[v].of = views[w].of /\ views[w].writable =>
      views[v].from = views[w].from

\* What both rest on: no view is of a later generation than its storage, nor of
\* one that had no owner; the last borrow is a mutable one, or none can write.
ViewsOfThePast ==
  \A v \in Views :
    /\ views[v].of \in ownedStorages
    /\ views[v].generation <= generation[views[v].of]
    /\ views[v].from \in Views

ExclusiveIsAlone ==
  \A v, w \in Views :
    Current(v) /\ Current(w) /\ views[v].of = views[w].of =>
      IF exclusive[views[v].of] THEN views[v].from = views[w].from
      ELSE ~views[v].writable

OwnersHadHandles == \A h \in 1 .. Len(handles) : handles[h] \in ownedStorages

IInv ==
  TypeOK /\ ViewsOfThePast /\ ExclusiveIsAlone /\ OwnersHadHandles /\ LentByTheOwner

LEMMA InitIInv == ASSUME OwnershipAssumption, Init PROVE IInv
<1>1. TypeOK
  BY DEF OwnershipAssumption, Init, TypeOK
<1>2. Views = {} /\ 1 .. Len(handles) = {}
  BY DEF Init, Views
<1> QED
  BY <1>1, <1>2 DEF IInv, ViewsOfThePast, ExclusiveIsAlone, OwnersHadHandles, LentByTheOwner

LEMMA CreateOwnedTyped ==
  ASSUME OwnershipAssumption, TypeOK, NEW o \in Objects, CreateOwned(o)
  PROVE  /\ handles' \in Seq(Objects) /\ Len(handles') = Len(handles) + 1
         /\ Len(handles') <= MaxHandles
         /\ \A h \in 1 .. Len(handles) : handles'[h] = handles[h]
         /\ handles'[Len(handles')] = o
         /\ owner' \in [Objects -> 0 .. Len(handles')]
         /\ \A p \in Objects \ {o} : owner'[p] = owner[p]
<1>1. handles \in Seq(Objects) /\ Len(handles) \in Nat
  BY DEF TypeOK
<1>2. /\ handles' \in Seq(Objects) /\ Len(handles') = Len(handles) + 1
      /\ \A h \in 1 .. Len(handles) : handles'[h] = handles[h]
      /\ handles'[Len(handles')] = o
  BY <1>1 DEF CreateOwned
<1>3. Len(handles') <= MaxHandles
  BY <1>1, <1>2 DEF CreateOwned, OwnershipAssumption
<1>4. owner' \in [Objects -> 0 .. Len(handles')]
  BY <1>1, <1>2 DEF CreateOwned, TypeOK
<1>5. \A p \in Objects \ {o} : owner'[p] = owner[p]
  BY DEF CreateOwned, TypeOK
<1> QED BY <1>2, <1>3, <1>4, <1>5

\* When borrows are ended, what is current still was, and of another storage.
LEMMA EndedBorrows ==
  ASSUME IInv, NEW o \in Objects, NEW e \in BOOLEAN, EndBorrows(o, e)
  PROVE  /\ generation' \in [Objects -> Nat]
         /\ generation'[o] = generation[o] + 1
         /\ exclusive' \in [Objects -> BOOLEAN]
         /\ exclusive'[o] = e
         /\ \A p \in Objects \ {o} : generation'[p] = generation[p]
                                     /\ exclusive'[p] = exclusive[p]
         /\ \A v \in Views : views[v] \in View /\ views[v].of \in Objects
         /\ \A v \in Views : views[v].generation <= generation'[views[v].of]
         /\ \A v \in Views : views[v].generation = generation'[views[v].of]
                               => Current(v) /\ views[v].of # o
<1>1. /\ generation' \in [Objects -> Nat]
      /\ generation'[o] = generation[o] + 1
      /\ exclusive' \in [Objects -> BOOLEAN]
      /\ exclusive'[o] = e
      /\ \A p \in Objects \ {o} : generation'[p] = generation[p]
                                  /\ exclusive'[p] = exclusive[p]
  BY DEF IInv, TypeOK, EndBorrows
<1>2. \A v \in Views : views[v] \in View
  BY DEF IInv, TypeOK, Views
<1>3. \A v \in Views : views[v].of \in Objects /\ views[v].generation \in Nat
  BY <1>2 DEF View
<1>4. \A v \in Views : views[v].generation <= generation[views[v].of]
                       /\ generation[views[v].of] \in Nat
  BY <1>3 DEF IInv, ViewsOfThePast, TypeOK
<1>5. \A v \in Views : views[v].generation <= generation'[views[v].of]
  BY <1>1, <1>3, <1>4
<1>6. \A v \in Views : views[v].generation = generation'[views[v].of]
                               => Current(v) /\ views[v].of # o
  BY <1>1, <1>3, <1>4 DEF Current
<1> QED BY <1>1, <1>2, <1>3, <1>5, <1>6

LEMMA AddViewTyped ==
  ASSUME OwnershipAssumption, TypeOK, NEW added \in View, AddView(added)
  PROVE  /\ views' \in Seq(View) /\ Len(views') <= MaxViews
         /\ Views' = Views \cup {Len(views) + 1} /\ Len(views) \in Nat
         /\ \A v \in Views : views'[v] = views[v]
         /\ views'[Len(views) + 1] = added
<1>1. views \in Seq(View) /\ Len(views) \in Nat
  BY DEF TypeOK
<1>2. /\ views' \in Seq(View) /\ Len(views') = Len(views) + 1
      /\ \A v \in Views : views'[v] = views[v]
      /\ views'[Len(views) + 1] = added
  BY <1>1 DEF AddView, Views
<1>3. Len(views') <= MaxViews
  BY <1>1, <1>2 DEF AddView, OwnershipAssumption
<1> QED BY <1>1, <1>2, <1>3 DEF Views

LEMMA OwnKeeps == ASSUME OwnershipAssumption, IInv, NEW o \in Objects, Own(o) PROVE IInv'
<1>1. /\ o \notin ownedStorages /\ ownedStorages' = ownedStorages \cup {o}
      /\ CreateOwned(o)
      /\ generation' = generation /\ exclusive' = exclusive /\ views' = views
  BY DEF Own
<1>2. Views' = Views /\ \A v \in Views : Current(v)' <=> Current(v)
  BY <1>1 DEF Views, Current
<1>3. TypeOK
  BY DEF IInv
<1>4. TypeOK'
  BY <1>1, <1>3, CreateOwnedTyped DEF TypeOK
<1>5. ViewsOfThePast'
  BY <1>1, <1>2 DEF IInv, ViewsOfThePast
<1>6. ExclusiveIsAlone'
  BY <1>1, <1>2 DEF IInv, ExclusiveIsAlone
<1>7. OwnersHadHandles'
  <2>1. Len(handles) \in Nat
    BY <1>3 DEF TypeOK
  <2> QED
    BY <1>1, <1>3, <2>1, CreateOwnedTyped DEF IInv, OwnersHadHandles
<1>8. LentByTheOwner'
  <2>1. \A v \in Views : views[v].of # o /\ views[v].of \in Objects
    BY <1>1, <1>3 DEF IInv, ViewsOfThePast, TypeOK
  <2> QED
    BY <1>1, <1>2, <1>3, <2>1, CreateOwnedTyped DEF IInv, LentByTheOwner
<1> QED BY <1>4, <1>5, <1>6, <1>7, <1>8 DEF IInv

\* What a move and a disposal have in common: nothing of the storage is current.
LEMMA EndKeeps ==
  ASSUME OwnershipAssumption, IInv, NEW o \in Objects, EndBorrows(o, FALSE),
         UNCHANGED <<ownedStorages, views>>,
         \A p \in Objects \ {o} : owner'[p] = owner[p]
  PROVE  ViewsOfThePast' /\ ExclusiveIsAlone' /\ LentByTheOwner'
<1>1. Views' = Views /\ views' = views
  BY DEF Views
<1>2. \A v \in Views : Current(v)' => Current(v) /\ views[v].of \in Objects \ {o}
  <2> SUFFICES ASSUME NEW v \in Views, Current(v)'
               PROVE  Current(v) /\ views[v].of \in Objects \ {o}
    OBVIOUS
  <2>1. views[v].generation = generation'[views[v].of]
    BY <1>1 DEF Current
  <2> QED
    BY <2>1, EndedBorrows
<1>3. ViewsOfThePast'
  BY <1>1, EndedBorrows DEF IInv, ViewsOfThePast
<1>4. ExclusiveIsAlone'
  <2> SUFFICES ASSUME NEW v \in Views, NEW w \in Views,
                      Current(v)', Current(w)', views[v].of = views[w].of
               PROVE  IF exclusive'[views[v].of] THEN views[v].from = views[w].from
                      ELSE ~views[v].writable
    BY <1>1 DEF ExclusiveIsAlone
  <2>1. Current(v) /\ Current(w) /\ exclusive'[views[v].of] = exclusive[views[v].of]
    BY <1>2, EndedBorrows
  <2> QED BY <2>1 DEF IInv, ExclusiveIsAlone
<1>5. LentByTheOwner'
  BY <1>1, <1>2 DEF IInv, LentByTheOwner
<1> QED BY <1>3, <1>4, <1>5

LEMMA OwnerTyped ==
  ASSUME TypeOK, NEW h, IsOwner(h)
  PROVE  h \in 1 .. Len(handles) /\ handles[h] \in Objects /\ owner[handles[h]] = h
BY DEF TypeOK, IsOwner

LEMMA MoveKeeps ==
  ASSUME OwnershipAssumption, IInv, NEW h \in 1 .. MaxHandles, Move(h) PROVE IInv'
<1> DEFINE o == handles[h]
<1>1. TypeOK
  BY DEF IInv
<1>2. o \in Objects /\ h \in 1 .. Len(handles)
  BY <1>1, OwnerTyped DEF Move
<1>3. /\ EndBorrows(o, FALSE) /\ CreateOwned(o)
      /\ ownedStorages' = ownedStorages /\ views' = views
  BY DEF Move
<1> HIDE DEF o
<1>4. TypeOK'
  BY <1>1, <1>2, <1>3, CreateOwnedTyped, EndedBorrows DEF TypeOK
<1>5. OwnersHadHandles'
  <2>1. Len(handles) \in Nat
    BY <1>1 DEF TypeOK
  <2>2. o \in ownedStorages
    BY <1>2 DEF IInv, OwnersHadHandles, o
  <2> QED
    BY <1>1, <1>2, <1>3, <2>1, <2>2, CreateOwnedTyped, SMTT(30)
       DEF IInv, OwnersHadHandles
<1>6. ViewsOfThePast' /\ ExclusiveIsAlone' /\ LentByTheOwner'
  BY <1>1, <1>2, <1>3, CreateOwnedTyped, EndKeeps
<1> QED BY <1>4, <1>5, <1>6 DEF IInv

LEMMA DisposeKeeps ==
  ASSUME OwnershipAssumption, IInv, NEW h \in 1 .. MaxHandles, Dispose(h) PROVE IInv'
<1> DEFINE o == handles[h]
<1>1. TypeOK
  BY DEF IInv
<1>2. o \in Objects
  BY <1>1, OwnerTyped DEF Dispose
<1>3. /\ EndBorrows(o, FALSE) /\ owner' = [owner EXCEPT ![o] = 0]
      /\ ownedStorages' = ownedStorages /\ views' = views /\ handles' = handles
  BY DEF Dispose, rest
<1> HIDE DEF o
<1>4. TypeOK'
  <2>1. owner' \in [Objects -> 0 .. Len(handles')]
    BY <1>1, <1>2, <1>3 DEF TypeOK
  <2> QED
    BY <1>1, <1>2, <1>3, <2>1, EndedBorrows DEF TypeOK
<1>5. OwnersHadHandles'
  BY <1>3 DEF IInv, OwnersHadHandles
<1>6. \A p \in Objects \ {o} : owner'[p] = owner[p]
  BY <1>1, <1>3 DEF TypeOK
<1>7. ViewsOfThePast' /\ ExclusiveIsAlone' /\ LentByTheOwner'
  BY <1>2, <1>3, <1>6, EndKeeps
<1> QED BY <1>4, <1>5, <1>7 DEF IInv

\* What the two borrows have in common.
LEMMA BorrowedKeeps ==
  ASSUME OwnershipAssumption, IInv, NEW h \in 1 .. MaxHandles, IsOwner(h), NEW added \in View,
         AddView(added), UNCHANGED <<ownedStorages, handles, owner>>,
         generation' \in [Objects -> Nat], exclusive' \in [Objects -> BOOLEAN],
         added.of = handles[h], added.by = h, added.from = Len(views) + 1,
         added.generation = generation'[handles[h]], added.writable = exclusive'[handles[h]],
         \A p \in Objects \ {handles[h]} : exclusive'[p] = exclusive[p],
         \A v \in Views : views[v].generation <= generation'[views[v].of],
         \A v \in Views : views[v].generation = generation'[views[v].of] =>
           Current(v) /\ (views[v].of = handles[h] => ~exclusive[handles[h]] /\ ~exclusive'[handles[h]])
  PROVE  IInv'
<1> DEFINE o == handles[h]
           n == Len(views) + 1
<1>1. TypeOK
  BY DEF IInv
<1>2. o \in Objects /\ h \in 1 .. Len(handles) /\ owner[o] = h /\ o \in ownedStorages
  BY <1>1, OwnerTyped DEF IInv, OwnersHadHandles
<1>3. /\ views' \in Seq(View) /\ Len(views') <= MaxViews
      /\ Views' = Views \cup {n} /\ Len(views) \in Nat
      /\ \A v \in Views : views'[v] = views[v]
      /\ views'[n] = added
  BY <1>1, AddViewTyped
<1>4. TypeOK'
  BY <1>1, <1>3 DEF TypeOK
<1>5. \A v \in Views : Current(v)' => Current(v) /\ (views[v].of = o => ~exclusive[o] /\ ~exclusive'[o])
  BY <1>3 DEF Current
<1>6. \A v \in Views : views[v].of \in Objects
  <2>1. \A v \in Views : views[v] \in View
    BY <1>1 DEF TypeOK, Views
  <2> QED BY <2>1 DEF View
<1>7. ViewsOfThePast'
  <2>1. \A v \in Views : /\ views'[v].of \in ownedStorages'
                         /\ views'[v].generation <= generation'[views'[v].of]
                         /\ views'[v].from \in Views'
    BY <1>3 DEF IInv, ViewsOfThePast
  <2>2. /\ added.of \in ownedStorages' /\ added.from \in Views'
        /\ added.generation <= generation'[added.of]
    BY <1>2, <1>3
  <2> QED BY <1>3, <2>1, <2>2 DEF ViewsOfThePast
<1>8. ExclusiveIsAlone'
  <2> SUFFICES ASSUME NEW v \in Views', NEW w \in Views',
                      Current(v)', Current(w)', views'[v].of = views'[w].of
               PROVE  IF exclusive'[views'[v].of] THEN views'[v].from = views'[w].from
                      ELSE ~views'[v].writable
    BY DEF ExclusiveIsAlone
  <2>1. CASE v \in Views /\ w \in Views /\ views[v].of # o
    <3>1. Current(v) /\ Current(w) /\ views[v].of = views[w].of
          /\ exclusive'[views[v].of] = exclusive[views[v].of]
      BY <1>3, <1>5, <1>6, <2>1
    <3> QED BY <1>3, <2>1, <3>1 DEF IInv, ExclusiveIsAlone
  <2>2. CASE v \in Views /\ views[v].of = o
    <3>1. Current(v) /\ ~exclusive[o] /\ ~exclusive'[o]
      BY <1>5, <2>2
    <3>2. ~views[v].writable
      BY <2>2, <3>1 DEF IInv, ExclusiveIsAlone
    <3> QED BY <1>3, <2>2, <3>1, <3>2
  <2>3. CASE v \in Views /\ w = n /\ views[v].of # o
    BY <1>3, <2>3
  <2>4. CASE v = n /\ w \in Views
    <3>1. views[w].of = o
      BY <1>3, <2>4
    <3>2. ~exclusive'[o]
      BY <1>5, <2>4, <3>1
    <3> QED BY <1>3, <2>4, <3>2
  <2>5. CASE v = n /\ w = n
    BY <1>3, <2>5
  <2> QED BY <1>3, <2>1, <2>2, <2>3, <2>4, <2>5
<1>9. OwnersHadHandles'
  BY DEF IInv, OwnersHadHandles
<1>10. LentByTheOwner'
  <2>1. \A v \in Views : Current(v)' => owner'[views'[v].of] = views'[v].by
    BY <1>3, <1>5 DEF IInv, LentByTheOwner
  <2> QED BY <1>2, <1>3, <2>1 DEF LentByTheOwner
<1> QED BY <1>4, <1>7, <1>8, <1>9, <1>10 DEF IInv

LEMMA NewBorrowTyped ==
  ASSUME OwnershipAssumption, TypeOK, NEW h \in 1 .. MaxHandles, IsOwner(h), NEW isWritable \in BOOLEAN,
         generation' \in [Objects -> Nat], AddView(NewBorrow(h, isWritable))
  PROVE  NewBorrow(h, isWritable) \in View
<1>1. handles[h] \in Objects
  BY OwnerTyped
<1>2. Len(views) \in Nat /\ Len(views) + 1 \in 1 .. MaxViews
  BY DEF TypeOK, AddView, OwnershipAssumption
<1> QED BY <1>1, <1>2 DEF NewBorrow, View

LEMMA BorrowKeeps ==
  ASSUME OwnershipAssumption, IInv, NEW h \in 1 .. MaxHandles, Borrow(h) PROVE IInv'
<1> DEFINE o == handles[h]
           added == NewBorrow(h, FALSE)
<1>1. TypeOK /\ IsOwner(h) /\ AddView(added) /\ UNCHANGED <<ownedStorages, handles, owner>>
  BY DEF IInv, Borrow, rest
<1>2. o \in Objects
  BY <1>1, OwnerTyped
<1>3. /\ generation' \in [Objects -> Nat] /\ exclusive' \in [Objects -> BOOLEAN]
      /\ ~exclusive'[o]
      /\ \A p \in Objects \ {o} : exclusive'[p] = exclusive[p]
      /\ \A v \in Views : views[v].generation <= generation'[views[v].of]
      /\ \A v \in Views : views[v].generation = generation'[views[v].of] =>
           Current(v) /\ (views[v].of = o => ~exclusive[o])
  <2>1. CASE exclusive[o]
    <3>1. EndBorrows(o, FALSE)
      BY <2>1 DEF Borrow
    <3> QED BY <1>2, <3>1, EndedBorrows
  <2>2. CASE ~exclusive[o]
    <3>1. generation' = generation /\ exclusive' = exclusive
      BY <2>2 DEF Borrow
    <3> QED BY <1>1, <2>2, <3>1 DEF TypeOK, IInv, ViewsOfThePast, Current
  <2> QED BY <2>1, <2>2
<1>4. added \in View
  BY <1>1, <1>3, NewBorrowTyped
<1>5. /\ added.of = o /\ added.by = h /\ added.from = Len(views) + 1
      /\ added.generation = generation'[o] /\ added.writable = FALSE
  BY DEF NewBorrow
<1>6. exclusive'[o] = FALSE
  BY <1>2, <1>3
<1> HIDE DEF added
<1> QED BY <1>1, <1>3, <1>4, <1>5, <1>6, BorrowedKeeps

LEMMA BorrowMutableKeeps ==
  ASSUME OwnershipAssumption, IInv, NEW h \in 1 .. MaxHandles, BorrowMutable(h) PROVE IInv'
<1> DEFINE o == handles[h]
           added == NewBorrow(h, TRUE)
<1>1. TypeOK /\ IsOwner(h) /\ AddView(added) /\ UNCHANGED <<ownedStorages, handles, owner>>
      /\ EndBorrows(o, TRUE)
  BY DEF IInv, BorrowMutable, rest
<1>2. o \in Objects
  BY <1>1, OwnerTyped
<1>3. /\ generation' \in [Objects -> Nat] /\ exclusive' \in [Objects -> BOOLEAN]
      /\ exclusive'[o] = TRUE
      /\ \A p \in Objects \ {o} : exclusive'[p] = exclusive[p]
      /\ \A v \in Views : views[v].generation <= generation'[views[v].of]
      /\ \A v \in Views : views[v].generation = generation'[views[v].of] =>
           Current(v) /\ views[v].of # o
  BY <1>1, <1>2, EndedBorrows
<1>4. added \in View
  BY <1>1, <1>3, NewBorrowTyped
<1>5. /\ added.of = o /\ added.by = h /\ added.from = Len(views) + 1
      /\ added.generation = generation'[o] /\ added.writable = TRUE
  BY DEF NewBorrow
<1> HIDE DEF added
<1> QED BY <1>1, <1>3, <1>4, <1>5, BorrowedKeeps

LEMMA TakeViewKeeps ==
  ASSUME OwnershipAssumption, IInv, NEW u \in Views, NEW isWritable \in BOOLEAN,
         TakeView(u, isWritable)
  PROVE  IInv'
<1> DEFINE added == [views[u] EXCEPT !.writable = isWritable]
           n == Len(views) + 1
           Same(v) == IF v = n THEN u ELSE v
<1>1. TypeOK /\ AddView(added) /\ views[u] \in View
      /\ UNCHANGED <<ownedStorages, handles, generation, exclusive, owner>>
  BY DEF IInv, TakeView, rest, TypeOK, Views
<1>2. /\ added \in View /\ added.of = views[u].of /\ added.by = views[u].by
      /\ added.from = views[u].from /\ added.generation = views[u].generation
      /\ added.writable = isWritable
  BY <1>1 DEF View
<1>3. added.writable => views[u].writable
  BY <1>2 DEF TakeView
<1> HIDE DEF added
<1>4. /\ views' \in Seq(View) /\ Len(views') <= MaxViews
      /\ Views' = Views \cup {n} /\ n \notin Views
      /\ \A v \in Views : views'[v] = views[v]
      /\ views'[n] = added
  BY <1>1, <1>2, AddViewTyped DEF Views
<1>5. \A v \in Views' :
        /\ Same(v) \in Views
        /\ views'[v].of = views[Same(v)].of /\ views'[v].by = views[Same(v)].by
        /\ views'[v].from = views[Same(v)].from
        /\ views'[v].generation = views[Same(v)].generation
        /\ views'[v].writable => views[Same(v)].writable
  BY <1>2, <1>3, <1>4
<1> HIDE DEF Same
<1>6. \A v \in Views' : Current(v)' <=> Current(Same(v))
  BY <1>1, <1>5 DEF Current
<1>7. TypeOK'
  BY <1>1, <1>4 DEF TypeOK
<1>8. ViewsOfThePast'
  BY <1>1, <1>4, <1>5 DEF IInv, ViewsOfThePast
<1>9. ExclusiveIsAlone'
  <2> SUFFICES ASSUME NEW v \in Views', NEW w \in Views',
                      Current(v)', Current(w)', views'[v].of = views'[w].of
               PROVE  IF exclusive'[views'[v].of] THEN views'[v].from = views'[w].from
                      ELSE ~views'[v].writable
    BY DEF ExclusiveIsAlone
  <2>1. IF exclusive[views[Same(v)].of] THEN views[Same(v)].from = views[Same(w)].from
        ELSE ~views[Same(v)].writable
    BY <1>5, <1>6 DEF IInv, ExclusiveIsAlone
  <2> QED BY <1>1, <1>5, <2>1
<1>10. OwnersHadHandles'
  BY <1>1 DEF IInv, OwnersHadHandles
<1>11. LentByTheOwner'
  BY <1>1, <1>5, <1>6 DEF IInv, LentByTheOwner
<1> QED BY <1>7, <1>8, <1>9, <1>10, <1>11 DEF IInv

LEMMA NextIInv == ASSUME OwnershipAssumption, IInv, [Next]_vars PROVE IInv'
<1>1. ASSUME NEW h \in 1 .. MaxHandles, Move(h) \/ Dispose(h) \/ Borrow(h) \/ BorrowMutable(h)
      PROVE  IInv'
  BY <1>1, MoveKeeps, DisposeKeeps, BorrowKeeps, BorrowMutableKeeps
<1>2. ASSUME NEW v \in 1 .. Len(views), NEW isWritable \in BOOLEAN, TakeView(v, isWritable)
      PROVE  IInv'
  BY <1>2, TakeViewKeeps DEF Views
<1>3. CASE UNCHANGED vars
  BY <1>3 DEF vars, IInv, TypeOK, ViewsOfThePast, ExclusiveIsAlone, OwnersHadHandles,
              LentByTheOwner, Views, Current
<1> QED BY <1>1, <1>2, <1>3, OwnKeeps DEF Next

\* Whatever is moved, lent, cut and disposed of, a view that is not refused was
\* lent by the handle that is the owner still (requireCurrent and
\* requireOwnership in packages/memory/src/ownership).
THEOREM LentByTheOwnerHolds == OwnershipAssumption => (Spec => []LentByTheOwner)
<1> SUFFICES ASSUME OwnershipAssumption PROVE Spec => []LentByTheOwner
  OBVIOUS
<1>1. IInv => LentByTheOwner
  BY DEF IInv
<1> QED BY <1>1, InitIInv, NextIInv, PTL DEF Spec

\* Whoever may write shares the storage with nobody it did not lend to.
THEOREM OneWriterHolds == OwnershipAssumption => (Spec => []OneWriter)
<1> SUFFICES ASSUME OwnershipAssumption PROVE Spec => []OneWriter
  OBVIOUS
<1>1. ASSUME IInv, NEW v \in Views, NEW w \in Views, Current(v), Current(w),
             views[v].of = views[w].of, views[w].writable
      PROVE  views[v].from = views[w].from
  <2>1. exclusive[views[w].of]
    BY <1>1 DEF IInv, ExclusiveIsAlone
  <2> QED BY <1>1, <2>1 DEF IInv, ExclusiveIsAlone
<1>2. IInv => OneWriter
  BY <1>1 DEF OneWriter
<1> QED BY <1>2, InitIInv, NextIInv, PTL DEF Spec

-----------------------------------------------------------------------------
(* The same of views of views: what each step adds to the layers below.    *)

\* What has an owner is a storage, or a view through which one may write.
OwnedCanBeWritten ==
  \A o \in ownedStorages : o \in Storages \/ (o \in Views /\ views[o].writable)

\* Who may write was cut from a borrow that may.
WritableByLoan == \A v \in Views : views[v].writable => views[views[v].from].writable

\* However many views lie below, there is a storage in the end.
Rooted == \A v \in Views : \E w \in Through(v) : views[w].of \in Storages

LayersInv == OwnedCanBeWritten /\ WritableByLoan /\ Rooted

LEMMA ViewsOfOwned ==
  ASSUME IInv, OwnedCanBeWritten, NEW v \in Views, views[v].of \notin Storages
  PROVE  views[v].of \in Views /\ views[views[v].of].writable
BY DEF IInv, ViewsOfThePast, OwnedCanBeWritten

LEMMA ThroughItself ==
  ASSUME NEW v \in Views
  PROVE  v \in Through(v)
BY DEF Through

LEMMA ThroughBelow ==
  ASSUME IInv, OwnedCanBeWritten, NEW v \in Views, NEW w \in Through(v), views[w].of \notin Storages
  PROVE  views[w].of \in Through(v)
<1>1. w \in Views /\ views[w].of \in Views
  BY ViewsOfOwned DEF Through
<1>2. ASSUME NEW S \in SUBSET Views, v \in S, ClosedBelow(S)
      PROVE  views[w].of \in S
  BY <1>2 DEF Through, ClosedBelow
<1> QED BY <1>1, <1>2 DEF Through

\* Nothing lies below a view but what another that it goes through is a view of.
LEMMA ThroughFromAbove ==
  ASSUME IInv, OwnedCanBeWritten, NEW v \in Views, NEW w \in Through(v), w # v
  PROVE  \E u \in Through(v) : views[u].of \notin Storages /\ views[u].of = w
<1> SUFFICES ASSUME \A u \in Through(v) : views[u].of \in Storages \/ views[u].of # w
             PROVE  FALSE
  OBVIOUS
<1> DEFINE S == Through(v) \ {w}
<1>1. S \in SUBSET Views /\ v \in S /\ w \notin S
  BY ThroughItself DEF Through
<1>2. ClosedBelow(S)
  <2> SUFFICES ASSUME NEW u \in S, views[u].of \notin Storages PROVE views[u].of \in S
    BY DEF ClosedBelow
  <2>1. views[u].of \in Through(v)
    BY ThroughBelow
  <2> QED BY <2>1
<1> HIDE DEF S
<1> QED BY <1>1, <1>2 DEF Through

LEMMA SharingIsSound == ASSUME IInv, LayersInv PROVE SharedOrMutable
<1> SUFFICES ASSUME NEW v \in Views, NEW w \in Views,
                    usable(v), usable(w), Roots(v) = Roots(w), views[w].writable
             PROVE  \E b \in Chain(v) \cap Chain(w) : views[b].writable
  BY DEF SharedOrMutable
<1>1. PICK y \in Through(w) : views[y].of \in Storages
  BY DEF LayersInv, Rooted
<1>2. views[y].of \in Roots(v)
  BY <1>1 DEF Roots
<1>3. PICK x \in Through(v) : views[x].of = views[y].of
  BY <1>2 DEF Roots
<1>4. x \in Views /\ y \in Views /\ Current(x) /\ Current(y)
  BY DEF usable, Through
<1>5. views[y].writable
  <2>1. CASE y = w
    BY <2>1
  <2>2. CASE y # w
    <3>1. PICK u \in Through(w) : views[u].of \notin Storages /\ views[u].of = y
      BY <2>2, ThroughFromAbove DEF LayersInv
    <3>2. u \in Views
      BY DEF Through
    <3> QED BY <3>1, <3>2, ViewsOfOwned DEF LayersInv
  <2> QED BY <2>1, <2>2
<1>6. views[x].from = views[y].from
  <2>1. exclusive[views[y].of]
    BY <1>4, <1>5 DEF IInv, ExclusiveIsAlone
  <2> QED BY <1>3, <1>4, <2>1 DEF IInv, ExclusiveIsAlone
<1>7. views[y].from \in Chain(v) \cap Chain(w)
  BY <1>6 DEF Chain
<1> QED BY <1>4, <1>5, <1>7 DEF LayersInv, WritableByLoan

\* What every step leaves as it is: views, and the generations that are over.
Grows ==
  /\ Views \subseteq Views'
  /\ \A v \in Views : views'[v] = views[v]
  /\ \A o \in Objects : generation'[o] >= generation[o]

LEMMA ThroughGrows ==
  ASSUME IInv, OwnedCanBeWritten, Grows, NEW v \in Views, NEW w \in Through(v)
  PROVE  w \in Through(v)'
<1>1. w \in Views /\ w \in Views'
  BY DEF Through, Grows
<1>2. ASSUME NEW S \in SUBSET Views', v \in S, ClosedBelow(S)'
      PROVE  w \in S
  <2> DEFINE R == S \cap Views
  <2>1. R \in SUBSET Views /\ v \in R
    BY <1>2
  <2>2. ClosedBelow(R)
    <3> SUFFICES ASSUME NEW u \in R, views[u].of \notin Storages PROVE views[u].of \in R
      BY DEF ClosedBelow
    <3>1. views[u].of \in Views
      BY ViewsOfOwned
    <3>2. views'[u] = views[u]
      BY DEF Grows
    <3>3. views'[u].of \in S
      BY <1>2, <3>2 DEF ClosedBelow
    <3> QED BY <3>1, <3>2, <3>3
  <2> HIDE DEF R
  <2>3. w \in R
    BY <2>1, <2>2 DEF Through
  <2> QED BY <2>3 DEF R
<1> QED BY <1>1, <1>2 DEF Through

LEMMA StaysRooted ==
  ASSUME IInv, LayersInv, Grows, NEW v \in Views
  PROVE  \E w \in Through(v)' : views'[w].of \in Storages
<1>1. PICK w \in Through(v) : views[w].of \in Storages
  BY DEF LayersInv, Rooted
<1>2. w \in Views /\ views'[w] = views[w]
  BY DEF Through, Grows
<1>3. w \in Through(v)'
  BY ThroughGrows DEF LayersInv
<1> QED BY <1>1, <1>2, <1>3

\* Steps that take no view.
LEMMA SameViewsKeep ==
  ASSUME IInv, LayersInv, Grows, views' = views,
         \A o \in ownedStorages' \ ownedStorages :
           o \in Storages \/ (o \in Views /\ views[o].writable)
  PROVE  LayersInv'
<1>1. Views' = Views
  BY DEF Views
<1>2. OwnedCanBeWritten'
  BY <1>1 DEF LayersInv, OwnedCanBeWritten
<1>3. WritableByLoan'
  BY <1>1 DEF LayersInv, WritableByLoan
<1>4. Rooted'
  BY <1>1, StaysRooted DEF Rooted
<1> QED BY <1>2, <1>3, <1>4 DEF LayersInv

\* Steps that take one.
LEMMA NewViewKeeps ==
  ASSUME OwnershipAssumption, IInv, LayersInv, Grows, NEW added \in View, AddView(added),
         ownedStorages' = ownedStorages, added.of \in ownedStorages,
         added.writable => added.from = Len(views) + 1
                          \/ (added.from \in Views /\ views[added.from].writable)
  PROVE  LayersInv'
<1>0. Len(views) \in Nat
  BY DEF IInv, TypeOK
<1>9. PICK n \in Nat : n = Len(views) + 1
  BY <1>0
<1>1. /\ Views' = Views \cup {n}
      /\ \A v \in Views : views'[v] = views[v]
      /\ views'[n] = added
  BY <1>9, AddViewTyped DEF IInv
<1>2. OwnedCanBeWritten'
  BY <1>1 DEF LayersInv, OwnedCanBeWritten
<1>3. WritableByLoan'
  <2>1. \A v \in Views : views[v].from \in Views
    BY DEF IInv, ViewsOfThePast
  <2>2. \A v \in Views : views'[v].writable => views'[views'[v].from].writable
    BY <1>1, <2>1 DEF LayersInv, WritableByLoan
  <2>3. added.writable => views'[added.from].writable
    BY <1>1, <1>9 DEF LayersInv, WritableByLoan
  <2> QED BY <1>1, <2>2, <2>3 DEF WritableByLoan
<1>4. \E w \in Through(n)' : views'[w].of \in Storages
  <2>1. n \in Through(n)'
    BY <1>1 DEF Through
  <2>2. CASE added.of \in Storages
    BY <1>1, <2>1, <2>2
  <2>3. CASE added.of \notin Storages
    <3> DEFINE o == added.of
    <3>1. o \in Views
      BY <2>3 DEF LayersInv, OwnedCanBeWritten
    <3>2. PICK w \in Through(o)' : views'[w].of \in Storages
      BY <3>1, StaysRooted
    <3>3. w \in Through(n)'
      <4>1. w \in Views'
        BY DEF Through
      <4>2. ASSUME NEW S \in SUBSET Views', n \in S, ClosedBelow(S)'
            PROVE  w \in S
        <5>1. o \in S
          BY <1>1, <2>3, <4>2 DEF ClosedBelow
        <5> QED BY <4>2, <5>1 DEF Through
      <4> QED BY <4>1, <4>2 DEF Through
    <3> QED BY <3>2, <3>3
  <2> QED BY <2>2, <2>3
<1>5. Rooted'
  BY <1>1, <1>4, StaysRooted DEF Rooted
<1> QED BY <1>2, <1>3, <1>5 DEF LayersInv

LEMMA StepGrows == ASSUME OwnershipAssumption, IInv, [Next]_vars PROVE Grows
<1>0. TypeOK /\ \A o \in Objects : generation[o] \in Nat
  BY DEF IInv, TypeOK
<1>1. ASSUME NEW o, Own(o) PROVE Grows
  BY <1>0, <1>1 DEF Own, Grows, Views
<1>2. ASSUME NEW o \in Objects, NEW e \in BOOLEAN, EndBorrows(o, e)
      PROVE  \A p \in Objects : generation'[p] >= generation[p]
  BY <1>0, <1>2 DEF EndBorrows, TypeOK
<1>3. ASSUME NEW h \in 1 .. MaxHandles, Move(h) \/ Dispose(h) PROVE Grows
  <2>1. handles[h] \in Objects /\ EndBorrows(handles[h], FALSE) /\ views' = views
    BY <1>0, <1>3, OwnerTyped DEF Move, Dispose
  <2> QED BY <1>2, <2>1 DEF Grows, Views
<1>4. ASSUME NEW added, AddView(added)
      PROVE  Views \subseteq Views' /\ \A v \in Views : views'[v] = views[v]
  <2>1. Len(views) \in Nat /\ views \in Seq(View)
    BY <1>0 DEF TypeOK
  <2> QED BY <1>4, <2>1 DEF AddView, Views
<1>5. ASSUME NEW h \in 1 .. MaxHandles, Borrow(h) PROVE Grows
  <2>1. handles[h] \in Objects /\ AddView(NewBorrow(h, FALSE))
    BY <1>0, <1>5, OwnerTyped DEF Borrow
  <2>2. EndBorrows(handles[h], FALSE) \/ generation' = generation
    BY <1>5 DEF Borrow
  <2>3. \A p \in Objects : generation'[p] >= generation[p]
    <3>1. CASE EndBorrows(handles[h], FALSE)
      BY <1>2, <2>1, <3>1
    <3>2. CASE generation' = generation
      BY <1>0, <3>2
    <3> QED BY <2>2, <3>1, <3>2
  <2> QED BY <1>4, <2>1, <2>3 DEF Grows
<1>6. ASSUME NEW h \in 1 .. MaxHandles, BorrowMutable(h) PROVE Grows
  <2>1. handles[h] \in Objects /\ AddView(NewBorrow(h, TRUE)) /\ EndBorrows(handles[h], TRUE)
    BY <1>0, <1>6, OwnerTyped DEF BorrowMutable
  <2> QED BY <1>2, <1>4, <2>1 DEF Grows
<1>7. ASSUME NEW v, NEW isWritable, TakeView(v, isWritable) PROVE Grows
  BY <1>0, <1>4, <1>7 DEF TakeView, Grows
<1>8. CASE UNCHANGED vars
  BY <1>0, <1>8 DEF vars, Grows, Views
<1> QED BY <1>1, <1>3, <1>5, <1>6, <1>7, <1>8 DEF Next

LEMMA NextLayers == ASSUME OwnershipAssumption, IInv, LayersInv, [Next]_vars PROVE LayersInv'
<1>0. Grows /\ TypeOK
  BY StepGrows DEF IInv
<1>1. ASSUME NEW o \in Objects, Own(o) PROVE LayersInv'
  BY <1>0, <1>1, SameViewsKeep DEF Own, Views
<1>2. ASSUME NEW h \in 1 .. MaxHandles, Move(h) \/ Dispose(h) PROVE LayersInv'
  BY <1>0, <1>2, SameViewsKeep DEF Move, Dispose, rest
<1>3. ASSUME NEW h \in 1 .. MaxHandles, NEW e \in BOOLEAN, IsOwner(h), AddView(NewBorrow(h, e)),
             generation' \in [Objects -> Nat], ownedStorages' = ownedStorages
      PROVE  LayersInv'
  <2>1. NewBorrow(h, e) \in View
    BY <1>0, <1>3, NewBorrowTyped
  <2>2. NewBorrow(h, e).of = handles[h] /\ NewBorrow(h, e).from = Len(views) + 1
    BY DEF NewBorrow
  <2>3. handles[h] \in ownedStorages
    BY <1>3 DEF IInv, OwnersHadHandles, IsOwner
  <2> QED BY <1>0, <1>3, <2>1, <2>2, <2>3, NewViewKeeps
<1>4. ASSUME NEW h \in 1 .. MaxHandles, Borrow(h) \/ BorrowMutable(h) PROVE LayersInv'
  <2>1. IInv'
    BY <1>4, BorrowKeeps, BorrowMutableKeeps
  <2>2. generation' \in [Objects -> Nat]
    BY <2>1 DEF IInv, TypeOK
  <2> QED BY <1>3, <1>4, <2>2 DEF Borrow, BorrowMutable, rest
<1>5. ASSUME NEW u \in Views, NEW isWritable \in BOOLEAN, TakeView(u, isWritable) PROVE LayersInv'
  <2> DEFINE added == [views[u] EXCEPT !.writable = isWritable]
  <2>1. AddView(added) /\ views[u] \in View /\ ownedStorages' = ownedStorages
        /\ (isWritable => views[u].writable)
    BY <1>0, <1>5 DEF TakeView, rest, TypeOK, Views
  <2>2. /\ added \in View /\ added.of = views[u].of /\ added.from = views[u].from
        /\ added.writable = isWritable
    BY <2>1 DEF View
  <2> HIDE DEF added
  <2>3. views[u].of \in ownedStorages /\ views[u].from \in Views
    BY DEF IInv, ViewsOfThePast
  <2>4. added.writable => views[added.from].writable
    BY <2>1, <2>2 DEF LayersInv, WritableByLoan
  <2> QED BY <1>0, <2>1, <2>2, <2>3, <2>4, NewViewKeeps
<1>6. CASE UNCHANGED vars
  BY <1>0, <1>6, SameViewsKeep DEF vars
<1> QED BY <1>1, <1>2, <1>4, <1>5, <1>6 DEF Next, Views

LEMMA InitLayers == ASSUME Init PROVE LayersInv
<1>1. Views = {}
  BY DEF Init, Views
<1> QED BY <1>1 DEF Init, LayersInv, OwnedCanBeWritten, WritableByLoan, Rooted

\* Through however many layers views of one storage are taken: of two that are not
\* refused neither can write, or both go through one mutable borrow; and what is
\* not refused was lent by the owner there is (borrowedSource and createView).
THEOREM OwnershipIsSoundHolds == OwnershipAssumption => (Spec => [](TypeOK /\ OwnershipIsSound))
<1> SUFFICES ASSUME OwnershipAssumption PROVE Spec => [](TypeOK /\ OwnershipIsSound)
  OBVIOUS
<1>1. Init => IInv /\ LayersInv
  BY InitIInv, InitLayers
<1>2. IInv /\ LayersInv /\ [Next]_vars => IInv' /\ LayersInv'
  BY NextIInv, NextLayers
<1>3. IInv /\ LayersInv => TypeOK /\ OwnershipIsSound
  BY SharingIsSound DEF IInv, OwnershipIsSound
<1> QED BY <1>1, <1>2, <1>3, PTL DEF Spec

LEMMA HandlesStay ==
  ASSUME OwnershipAssumption, IInv, [Next]_vars, NEW h \in 1 .. Len(handles)
  PROVE  /\ ~IsOwner(h) => ~IsOwner(h)'
         /\ handles'[h] = handles[h]
<1>0. TypeOK /\ handles \in Seq(Objects) /\ Len(handles) \in Nat /\ handles[h] \in Objects
  BY DEF IInv, TypeOK
<1>1. ASSUME NEW o \in Objects, CreateOwned(o)
      PROVE  (~IsOwner(h) => ~IsOwner(h)') /\ handles'[h] = handles[h]
  <2>1. /\ handles'[h] = handles[h] /\ Len(handles') = Len(handles) + 1
        /\ \A p \in Objects \ {o} : owner'[p] = owner[p]
    BY <1>0, <1>1, CreateOwnedTyped
  <2>2. owner'[o] = Len(handles) + 1
    BY <1>0, <1>1 DEF CreateOwned, TypeOK
  <2>3. h # Len(handles) + 1
    BY <1>0
  <2> QED BY <1>0, <2>1, <2>2, <2>3 DEF IsOwner
<1>2. ASSUME NEW g \in 1 .. MaxHandles, Dispose(g)
      PROVE  (~IsOwner(h) => ~IsOwner(h)') /\ handles'[h] = handles[h]
  <2>1. handles' = handles /\ owner' = [owner EXCEPT ![handles[g]] = 0]
    BY <1>2 DEF Dispose, rest
  <2>2. owner'[handles[h]] = owner[handles[h]] \/ owner'[handles[h]] = 0
    BY <1>0, <2>1 DEF TypeOK
  <2>3. h # 0
    OBVIOUS
  <2> QED BY <2>1, <2>2, <2>3 DEF IsOwner
<1>3. ASSUME handles' = handles, owner' = owner
      PROVE  (~IsOwner(h) => ~IsOwner(h)') /\ handles'[h] = handles[h]
  BY <1>3 DEF IsOwner
<1>4. ASSUME NEW g \in 1 .. MaxHandles, Move(g)
      PROVE  (~IsOwner(h) => ~IsOwner(h)') /\ handles'[h] = handles[h]
  BY <1>0, <1>1, <1>4, OwnerTyped DEF Move
<1> QED BY <1>1, <1>2, <1>3, <1>4 DEF Next, Own, Borrow, BorrowMutable, TakeView, rest, vars

\* Whatever is done later, a view that was refused stays refused, also one that
\* reads through others; a handle that was moved from stays spent; and a storage
\* whose owner was disposed of gets no other.
THEOREM WhatEndedStaysEndedHolds == OwnershipAssumption => (Spec => WhatEndedStaysEnded)
<1> SUFFICES ASSUME OwnershipAssumption PROVE Spec => WhatEndedStaysEnded
  OBVIOUS
<1>1. ASSUME IInv, LayersInv, [Next]_vars, NEW v \in Views, ~usable(v)
      PROVE  ~usable(v)'
  <2>1. PICK w \in Through(v) : ~Current(w)
    BY <1>1 DEF usable
  <2>2. Grows
    BY <1>1, StepGrows
  <2>3. w \in Through(v)'
    BY <1>1, <2>2, ThroughGrows DEF LayersInv
  <2>4. w \in Views /\ views[w].of \in Objects /\ views[w].generation \in Nat
    <3>1. w \in Views
      BY DEF Through
    <3>2. views[w] \in View
      BY <1>1, <3>1 DEF IInv, TypeOK, Views
    <3> QED BY <3>1, <3>2 DEF View
  <2>5. /\ generation[views[w].of] \in Nat /\ generation'[views[w].of] \in Nat
        /\ views[w].generation < generation[views[w].of]
    <3>1. generation \in [Objects -> Nat] /\ generation' \in [Objects -> Nat]
      BY <1>1, NextIInv DEF IInv, TypeOK
    <3>2. views[w].generation <= generation[views[w].of]
      BY <1>1, <2>4 DEF IInv, ViewsOfThePast
    <3> QED BY <2>1, <2>4, <3>1, <3>2 DEF Current
  <2>6. ~Current(w)'
    BY <2>2, <2>4, <2>5 DEF Grows, Current
  <2> QED BY <2>3, <2>6 DEF usable
<1>2. ASSUME IInv, [Next]_vars, Len(handles') > Len(handles)
      PROVE  LET o == handles'[Len(handles')] IN o \in ownedStorages => owner[o] # 0
  <2>0. TypeOK /\ Len(handles) \in Nat
    BY <1>2 DEF IInv, TypeOK
  <2>1. ASSUME NEW o \in Objects, Own(o)
        PROVE  handles'[Len(handles')] \notin ownedStorages
    BY <2>0, <2>1, CreateOwnedTyped DEF Own
  <2>2. ASSUME NEW h \in 1 .. MaxHandles, Move(h)
        PROVE  owner[handles'[Len(handles')]] # 0
    BY <2>0, <2>2, CreateOwnedTyped, OwnerTyped DEF Move
  <2>3. handles' # handles
    BY <1>2, <2>0
  <2> QED
    BY <1>2, <2>1, <2>2, <2>3 DEF Next, Dispose, Borrow, BorrowMutable, TakeView, rest, vars
<1>3. IInv /\ LayersInv /\ [Next]_vars =>
        [/\ \A v \in Views : ~usable(v) => ~usable(v)'
         /\ \A h \in 1 .. Len(handles) :
              /\ ~IsOwner(h) => ~IsOwner(h)'
              /\ handles'[h] = handles[h]
         /\ Len(handles') > Len(handles) =>
              LET o == handles'[Len(handles')] IN
              o \in ownedStorages => owner[o] # 0]_vars
  BY <1>1, <1>2, HandlesStay
<1>4. Init => IInv /\ LayersInv
  BY InitIInv, InitLayers
<1>5. IInv /\ LayersInv /\ [Next]_vars => IInv' /\ LayersInv'
  BY NextIInv, NextLayers
<1> QED BY <1>3, <1>4, <1>5, PTL DEF Spec, WhatEndedStaysEnded

-----------------------------------------------------------------------------
(* Typed pointers over bytes that move.                                    *)

NativePointers == [region : Native!Regions, address : 0 .. MaxSize, element : Elements]

\* A memory reads the last of its buffers, the others are detached, and its engine
\* has refused nothing; a resizable buffer is one for ever.
BuffersStand ==
  /\ Len(buffers) <= MaxBuffers
  /\ IF backing = "buffer" THEN Len(buffers) = 1
     ELSE detached = 1 .. (Len(buffers) - 1) /\ last.outcome # "engine"

\* A pointer into an allocation does not lie before it, and it is in a buffer.
PointersStand ==
  \A p \in 1 .. Len(pointers) : pointers[p].region = "allocation" =>
    backing = "buffer" /\ pointers[p].address >= lease.start

NativeInv == Native!TypeOK /\ BuffersStand /\ PointersStand

\* The elements before the last whole one end no later than the bytes do.
LEMMA WholeElementsFit ==
  ASSUME NEW bytes \in Nat, NEW size \in Nat \ {0}, NEW i \in Nat, i < bytes \div size
  PROVE  /\ i * size \in Nat /\ (bytes \div size) * size \in Nat
         /\ i * size + size <= (bytes \div size) * size
         /\ (bytes \div size) * size <= bytes
<1> DEFINE q == bytes \div size
<1>1. q \in Nat /\ q * size <= bytes
  OBVIOUS
<1> HIDE DEF q
<1>2. \E k \in Nat : q = i + 1 + k
  <2>1. q - i - 1 \in Nat /\ q = i + 1 + (q - i - 1)
    BY <1>1 DEF q
  <2> QED BY <2>1
<1>3. PICK k \in Nat : q = i + 1 + k
  BY <1>2
<1>4. q * size = i * size + size + k * size
  BY <1>3
<1>5. k * size \in Nat /\ i * size \in Nat /\ q * size \in Nat
  BY <1>1
<1>6. i * size + size <= q * size
  BY <1>4, <1>5
<1> QED BY <1>1, <1>5, <1>6 DEF q

LEMMA NativeInit == ASSUME Native!NativeAssumption, Native!Init PROVE NativeInv
<1>1. PICK size \in 1 .. MaxSize : buffers = <<size>>
  BY DEF Native!Init
<1>2. size \in 0 .. MaxSize /\ Len(buffers) = 1 /\ buffers \in Seq(0 .. MaxSize)
  BY <1>1 DEF Native!NativeAssumption
<1>3. pointers \in Seq(NativePointers) /\ Len(pointers) = 0
  BY DEF Native!Init
<1>4. Native!TypeOK
  <2>1. detached = {} /\ view = 1 /\ backing \in {"memory", "buffer"}
        /\ lease \in [start : 0 .. MaxSize, size : 0 .. MaxSize, live : BOOLEAN]
    BY DEF Native!Init
  <2>2. 0 \in 0 .. MaxSize /\ 0 \in 0 .. MaxBuffers
    BY DEF Native!NativeAssumption
  <2>3. last \in [outcome : Native!Outcomes, buffer : 0 .. MaxBuffers, address : 0 .. MaxSize,
                  size : 0 .. MaxSize]
    BY <2>2 DEF Native!Init, Native!Outcomes
  <2> QED BY <1>2, <1>3, <2>1, <2>3 DEF Native!TypeOK, NativePointers
<1> QED
  BY <1>2, <1>3, <1>4
     DEF NativeInv, BuffersStand, PointersStand, Native!Init, Native!NativeAssumption

LEMMA BuffersAndPointersTyped ==
  ASSUME NativeInv
  PROVE  /\ buffers \in Seq(0 .. MaxSize) /\ Len(buffers) \in Nat
         /\ pointers \in Seq(NativePointers) /\ Len(pointers) \in Nat
         /\ \A i \in 1 .. Len(buffers) : buffers[i] \in 0 .. MaxSize
         /\ \A p \in 1 .. Len(pointers) : pointers[p] \in NativePointers
<1>1. buffers \in Seq(0 .. MaxSize) /\ pointers \in Seq(NativePointers)
  BY DEF NativeInv, Native!TypeOK, NativePointers
<1>2. /\ Len(buffers) \in Nat
      /\ \A i \in 1 .. Len(buffers) : buffers[i] \in 0 .. MaxSize
  <2> DEFINE Sizes == 0 .. MaxSize
  <2>1. buffers \in Seq(Sizes)
    BY <1>1
  <2> HIDE DEF Sizes
  <2>2. Len(buffers) \in Nat /\ \A i \in 1 .. Len(buffers) : buffers[i] \in Sizes
    BY <2>1
  <2> QED BY <2>2 DEF Sizes
<1>3. Len(pointers) \in Nat /\ \A p \in 1 .. Len(pointers) : pointers[p] \in NativePointers
  <2> HIDE DEF NativePointers
  <2> QED BY <1>1
<1> QED BY <1>1, <1>2, <1>3

\* What a step of a pointer sees: the bytes there are, whatever it looked at before.
LEMMA BytesAreThePresentOnes ==
  ASSUME Native!NativeAssumption, NativeInv, NEW region \in Native!Regions,
         region = "allocation" => backing = "buffer"
  PROVE  /\ Native!bytesOf(region) = Len(buffers)
         /\ Len(buffers) \in 1 .. MaxBuffers
         /\ buffers[Len(buffers)] \in 0 .. MaxSize
         /\ backing = "memory" => Native!IsReadable(Len(buffers))
         /\ Native!End(region, Len(buffers)) <= buffers[Len(buffers)]
         /\ Native!Start(region) \in Nat
         /\ Native!End(region, Len(buffers)) \in Nat
<1>1. Len(buffers) \in Nat /\ view \in 1 .. Len(buffers) /\ Len(buffers) <= MaxBuffers
  BY DEF NativeInv, Native!TypeOK, BuffersStand
<1>2. buffers[Len(buffers)] \in 0 .. MaxSize
  BY <1>1, BuffersAndPointersTyped
<1>3. lease.start \in Nat /\ lease.size \in Nat
  BY DEF NativeInv, Native!TypeOK
<1>4. Native!bytesOf(region) = Len(buffers)
  <2>1. CASE region = "memory"
    BY <2>1 DEF Native!bytesOf, Native!now
  <2>2. CASE region # "memory"
    <3>1. backing = "buffer" /\ Len(buffers) = 1
      BY <2>2 DEF Native!Regions, NativeInv, BuffersStand
    <3>2. view = 1
      BY <1>1, <3>1
    <3> QED BY <2>2, <3>1, <3>2 DEF Native!bytesOf
  <2> QED BY <2>1, <2>2
<1>5. backing = "memory" => Native!IsReadable(Len(buffers))
  BY <1>1 DEF Native!IsReadable, NativeInv, BuffersStand
<1>6. /\ Native!End(region, Len(buffers)) <= buffers[Len(buffers)]
      /\ Native!Start(region) \in Nat
      /\ Native!End(region, Len(buffers)) \in Nat
  BY <1>2, <1>3 DEF Native!End, Native!Start, Native!Smaller, Native!NativeAssumption
<1> QED BY <1>1, <1>2, <1>4, <1>5, <1>6 DEF Native!NativeAssumption

LEMMA PointerAdded ==
  ASSUME Native!NativeAssumption, NativeInv, NEW region \in Native!Regions,
         NEW address \in Int, NEW element \in Elements,
         region = "allocation" => backing = "buffer",
         Native!CreateNativePointer(region, address, element)
  PROVE  NativeInv'
<1>1. /\ pointers' = Append(pointers,
           [region |-> region, address |-> address, element |-> element])
      /\ UNCHANGED <<backing, buffers, detached, lease, last>>
      /\ view' = Native!bytesOf(region)
      /\ address \in Native!Start(region) .. Native!End(region, Native!bytesOf(region))
  BY DEF Native!CreateNativePointer, Native!RequireAddress, Native!Refresh, Native!backingVars
<1>2. view' = Len(buffers) /\ Len(buffers) \in 1 .. MaxBuffers
  BY <1>1, BytesAreThePresentOnes
<1>3. address \in 0 .. MaxSize /\ address >= Native!Start(region)
  BY <1>1, BytesAreThePresentOnes DEF Native!NativeAssumption
<1> DEFINE new == [region |-> region, address |-> address, element |-> element]
<1>4. new \in NativePointers
  BY <1>3 DEF NativePointers
<1>5. pointers \in Seq(NativePointers)
  BY DEF NativeInv, Native!TypeOK, NativePointers
<1>6. /\ pointers' \in Seq(NativePointers)
      /\ \A p \in 1 .. Len(pointers') :
           pointers'[p] = IF p \in 1 .. Len(pointers) THEN pointers[p] ELSE new
  BY <1>1, <1>4, <1>5
<1>7. Native!TypeOK'
  BY <1>1, <1>2, <1>6 DEF NativeInv, Native!TypeOK, NativePointers
<1>8. PointersStand'
  <2> SUFFICES ASSUME NEW p \in 1 .. Len(pointers'), pointers'[p].region = "allocation"
               PROVE  backing' = "buffer" /\ pointers'[p].address >= lease'.start
    BY DEF PointersStand
  <2>1. CASE p \in 1 .. Len(pointers)
    BY <1>1, <1>6, <2>1 DEF NativeInv, PointersStand
  <2>2. CASE p \notin 1 .. Len(pointers)
    BY <1>1, <1>3, <1>6, <2>2 DEF Native!Start
  <2> QED BY <2>1, <2>2
<1> QED BY <1>1, <1>7, <1>8 DEF NativeInv, BuffersStand

\* Where an access that goes through goes.
HitsWhatIsThere ==
  last'.outcome = "hit" =>
    LET end == last'.address + last'.size IN
    /\ last'.buffer = Len(buffers) /\ Len(buffers) \notin detached
    /\ end <= buffers[Len(buffers)]
    /\ \/ /\ backing = "buffer" /\ lease.live
          /\ last'.address >= lease.start /\ end <= lease.start + lease.size
       \/ \E p \in 1 .. Len(pointers) :
            pointers[p].region = "memory" /\ pointers[p].address = last'.address

LEMMA PointerAccess ==
  ASSUME Native!NativeAssumption, NativeInv, NEW p \in 1 .. Len(pointers), Native!Access(p)
  PROVE  NativeInv' /\ HitsWhatIsThere
<1> DEFINE region == pointers[p].region
           address == pointers[p].address
           size == pointers[p].element.size
<1>1. /\ region \in Native!Regions /\ address \in 0 .. MaxSize
      /\ pointers[p].element \in Elements /\ size \in Nat \ {0}
  <2>1. pointers[p] \in NativePointers
    BY BuffersAndPointersTyped
  <2> QED BY <2>1 DEF NativePointers, Native!NativeAssumption
<1>2. region = "allocation" => backing = "buffer" /\ address >= lease.start
  BY DEF NativeInv, PointersStand
<1>3. /\ Native!bytesOf(region) = Len(buffers)
      /\ Len(buffers) \in 1 .. MaxBuffers
      /\ buffers[Len(buffers)] \in 0 .. MaxSize
      /\ backing = "memory" => Len(buffers) \notin detached
      /\ Native!End(region, Len(buffers)) <= buffers[Len(buffers)]
      /\ Native!End(region, Len(buffers)) \in Nat
  BY <1>1, <1>2, BytesAreThePresentOnes DEF Native!IsReadable
<1>4. /\ UNCHANGED <<backing, buffers, detached, lease, pointers>>
      /\ view' = view \/ view' = Len(buffers)
  BY <1>3 DEF Native!Access, Native!Refresh, Native!backingVars
<1>5. \/ /\ last' = [outcome |-> "hit", buffer |-> Len(buffers), address |-> address, size |-> size]
         /\ Len(buffers) \notin detached
         /\ address + size <= Native!End(region, Len(buffers))
         /\ region = "allocation" => lease.live
      \/ /\ last' \in [outcome : {"released", "outside", "engine"}, buffer : {0}, address : {0},
                       size : {0}]
         /\ last'.outcome = "engine" => Len(buffers) \in detached
  <2>1. CASE region = "allocation" /\ ~lease.live
    <3>1. last' = [outcome |-> "released", buffer |-> 0, address |-> 0, size |-> 0]
      BY <2>1 DEF Native!Access, Native!Refused, Native!Ended
    <3> QED BY <3>1
  <2>2. CASE ~(region = "allocation" /\ ~lease.live)
    <3>1. IF Len(buffers) \in detached
          THEN last' = [outcome |-> "engine", buffer |-> 0, address |-> 0, size |-> 0]
          ELSE IF address + size > Native!End(region, Len(buffers))
          THEN last' = [outcome |-> "outside", buffer |-> 0, address |-> 0, size |-> 0]
          ELSE last' = [outcome |-> "hit", buffer |-> Len(buffers), address |-> address,
                        size |-> size]
      BY <1>3, <2>2 DEF Native!Access, Native!Refused, Native!Ended, Native!IsReadable
    <3>2. ~(address + size > Native!End(region, Len(buffers))) =>
             address + size <= Native!End(region, Len(buffers))
      BY <1>1, <1>3
    <3> HIDE DEF address, size, region
    <3>3. CASE last' = [outcome |-> "engine", buffer |-> 0, address |-> 0, size |-> 0]
               /\ Len(buffers) \in detached
      BY <3>3
    <3>4. CASE last' = [outcome |-> "outside", buffer |-> 0, address |-> 0, size |-> 0]
      BY <3>4
    <3> QED BY <2>2, <3>1, <3>2, <3>3, <3>4
  <2> QED BY <2>1, <2>2
<1> HIDE DEF region, address, size
<1>6. last'.outcome = "hit" =>
        /\ last' = [outcome |-> "hit", buffer |-> Len(buffers), address |-> address, size |-> size]
        /\ Len(buffers) \notin detached
        /\ address + size <= Native!End(region, Len(buffers))
        /\ region = "allocation" => lease.live
  BY <1>5
<1>7. last' \in [outcome : Native!Outcomes, buffer : 0 .. MaxBuffers, address : 0 .. MaxSize,
                 size : 0 .. MaxSize]
  <2>1. ASSUME address + size <= Native!End(region, Len(buffers)) PROVE size \in 0 .. MaxSize
    BY <1>1, <1>3, <2>1 DEF Native!NativeAssumption
  <2>2. 0 \in 0 .. MaxSize /\ 0 \in 0 .. MaxBuffers /\ Len(buffers) \in 0 .. MaxBuffers
    BY <1>3 DEF Native!NativeAssumption
  <2> QED BY <1>1, <1>5, <2>1, <2>2 DEF Native!Outcomes
<1>8. Native!TypeOK'
  <2>1. Native!TypeOK /\ view' \in 1 .. Len(buffers)
    BY <1>3, <1>4 DEF NativeInv, Native!TypeOK
  <2> QED BY <1>4, <1>7, <2>1 DEF Native!TypeOK
<1>9. BuffersStand'
  <2>1. backing = "memory" => last'.outcome # "engine"
    BY <1>3, <1>5
  <2>2. backing \in {"memory", "buffer"}
    BY DEF NativeInv, Native!TypeOK
  <2> QED BY <1>4, <2>1, <2>2 DEF NativeInv, BuffersStand
<1>10. PointersStand'
  BY <1>4 DEF NativeInv, PointersStand
<1>11. HitsWhatIsThere
  <2> SUFFICES ASSUME last'.outcome = "hit" PROVE HitsWhatIsThere
    BY DEF HitsWhatIsThere
  <2>1. /\ last'.buffer = Len(buffers) /\ last'.address = address /\ last'.size = size
        /\ Len(buffers) \notin detached
        /\ address + size <= Native!End(region, Len(buffers))
    BY <1>6
  <2>2. address + size <= buffers[Len(buffers)]
    BY <1>1, <1>3, <2>1
  <2>3. CASE region = "memory"
    BY <2>1, <2>2, <2>3 DEF HitsWhatIsThere, region, address
  <2>4. CASE region = "allocation"
    <3>1. address + size <= lease.start + lease.size
      <4>1. lease.start \in Nat /\ lease.size \in Nat
        BY DEF NativeInv, Native!TypeOK
      <4>2. Native!End(region, Len(buffers)) <= lease.start + lease.size
        BY <1>3, <2>4, <4>1 DEF Native!End, Native!Smaller
      <4> QED BY <1>1, <1>3, <2>1, <4>1, <4>2
    <3>2. backing = "buffer" /\ lease.live /\ address >= lease.start
      BY <1>2, <1>6, <2>4 DEF region, address
    <3> QED BY <2>1, <2>2, <3>1, <3>2 DEF HitsWhatIsThere
  <2> QED BY <1>1, <2>3, <2>4 DEF Native!Regions
<1> QED BY <1>8, <1>9, <1>10, <1>11 DEF NativeInv

LEMMA StorageAccessed ==
  ASSUME Native!NativeAssumption, NativeInv, NEW index \in Nat, NEW size \in Nat \ {0},
         NEW hasTypedArray \in BOOLEAN, Native!StorageAccess(index, size, hasTypedArray)
  PROVE  NativeInv' /\ HitsWhatIsThere
<1> DEFINE length == lease.size \div size
           address == lease.start + index * size
<1>1. lease.start \in Nat /\ lease.size \in Nat /\ buffers[1] \in 0 .. MaxSize
      /\ backing = "buffer" /\ Len(buffers) = 1
  <2>1. backing = "buffer"
    BY DEF Native!StorageAccess
  <2>2. lease.start \in Nat /\ lease.size \in Nat
    BY DEF NativeInv, Native!TypeOK
  <2>3. Len(buffers) = 1
    BY <2>1 DEF NativeInv, BuffersStand
  <2> QED BY <2>1, <2>2, <2>3, BuffersAndPointersTyped
<1>2. UNCHANGED <<backing, buffers, detached, view, lease, pointers>>
  BY DEF Native!StorageAccess, Native!backingVars
<1>3. \/ /\ last' = [outcome |-> "hit", buffer |-> 1, address |-> address, size |-> size]
         /\ 1 \notin detached /\ lease.live /\ ~(index >= length)
         /\ \/ lease.start + length * size <= buffers[1]
            \/ lease.start + lease.size <= buffers[1]
      \/ last' \in [outcome : {"released", "outside", "thrown"}, buffer : {0}, address : {0},
                    size : {0}]
  BY DEF Native!StorageAccess, Native!Refused, Native!Ended, Native!IsReadable
<1> HIDE DEF address
<1>4. last'.outcome = "hit" =>
        /\ last' = [outcome |-> "hit", buffer |-> 1, address |-> address, size |-> size]
        /\ 1 \notin detached /\ lease.live
        /\ address \in Nat /\ address >= lease.start
        /\ address + size <= lease.start + lease.size /\ address + size <= buffers[1]
  <2> SUFFICES ASSUME last'.outcome = "hit"
      PROVE /\ last' = [outcome |-> "hit", buffer |-> 1, address |-> address, size |-> size]
            /\ 1 \notin detached /\ lease.live
            /\ address \in Nat /\ address >= lease.start
            /\ address + size <= lease.start + lease.size /\ address + size <= buffers[1]
    OBVIOUS
  <2>1. /\ last' = [outcome |-> "hit", buffer |-> 1, address |-> address, size |-> size]
        /\ 1 \notin detached /\ lease.live /\ ~(index >= length)
        /\ \/ lease.start + length * size <= buffers[1]
           \/ lease.start + lease.size <= buffers[1]
    BY <1>3
  <2>2. length \in Nat
    BY <1>1
  <2>3. index < length
    BY <2>1, <2>2
  <2>4. /\ index * size \in Nat /\ length * size \in Nat
        /\ index * size + size <= length * size
        /\ length * size <= lease.size
    BY <1>1, <2>3, WholeElementsFit
  <2> HIDE DEF length
  <2>5. address \in Nat /\ address >= lease.start /\ address + size <= lease.start + length * size
    BY <1>1, <2>4 DEF address
  <2>6. address + size <= lease.start + lease.size /\ address + size <= buffers[1]
    BY <1>1, <2>1, <2>4, <2>5
  <2> QED BY <2>1, <2>5, <2>6
<1>5. last' \in [outcome : Native!Outcomes, buffer : 0 .. MaxBuffers, address : 0 .. MaxSize,
                 size : 0 .. MaxSize]
  <2>1. 0 \in 0 .. MaxSize /\ 0 \in 0 .. MaxBuffers /\ 1 \in 0 .. MaxBuffers
    BY DEF Native!NativeAssumption
  <2>2. CASE last'.outcome = "hit"
    <3>1. address \in 0 .. MaxSize /\ size \in 0 .. MaxSize
      BY <1>1, <1>4, <2>2 DEF Native!NativeAssumption
    <3> QED BY <1>4, <2>1, <2>2, <3>1 DEF Native!Outcomes
  <2>3. CASE last'.outcome # "hit"
    <3>1. last' \in [outcome : {"released", "outside", "thrown"}, buffer : {0}, address : {0},
                     size : {0}]
      BY <1>3, <2>3
    <3> QED BY <2>1, <3>1 DEF Native!Outcomes
  <2> QED BY <2>2, <2>3
<1>6. NativeInv'
  BY <1>1, <1>2, <1>5 DEF NativeInv, Native!TypeOK, BuffersStand, PointersStand
<1>7. HitsWhatIsThere
  BY <1>1, <1>4 DEF HitsWhatIsThere
<1> QED BY <1>6, <1>7

LEMMA NativeStep ==
  ASSUME Native!NativeAssumption, NativeInv, [Native!Next]_(Native!vars)
  PROVE  NativeInv' /\ backing' = backing /\ (last' # last => HitsWhatIsThere)
<1>0. Native!TypeOK /\ BuffersStand /\ PointersStand
  BY DEF NativeInv
<1>1. ASSUME NEW size \in 0 .. MaxSize, Native!Grow(size)
      PROVE  NativeInv' /\ backing' = backing /\ last' = last
  <2>1. /\ buffers' = Append(buffers, size) /\ Len(buffers) < MaxBuffers
        /\ detached' = detached \cup {Len(buffers)} /\ backing = "memory"
        /\ UNCHANGED <<backing, view, lease, pointers, last>>
    BY <1>1 DEF Native!Grow, Native!now
  <2>2. buffers \in Seq(0 .. MaxSize) /\ Len(buffers) \in Nat /\ view \in 1 .. Len(buffers)
    BY <1>0 DEF Native!TypeOK
  <2>3. buffers' \in Seq(0 .. MaxSize) /\ Len(buffers') = Len(buffers) + 1
    BY <2>1, <2>2
  <2>4. detached = 1 .. (Len(buffers) - 1) /\ last.outcome # "engine"
    BY <1>0, <2>1 DEF BuffersStand
  <2>5. detached' = 1 .. (Len(buffers') - 1) /\ detached' \subseteq 1 .. Len(buffers')
    BY <2>1, <2>2, <2>3, <2>4
  <2>6. Native!TypeOK'
    BY <1>0, <2>1, <2>2, <2>3, <2>5 DEF Native!TypeOK
  <2>7. BuffersStand'
    BY <2>1, <2>2, <2>3, <2>4, <2>5 DEF BuffersStand, Native!NativeAssumption
  <2>8. PointersStand'
    BY <1>0, <2>1 DEF PointersStand
  <2> QED BY <2>1, <2>6, <2>7, <2>8 DEF NativeInv
<1>2. ASSUME NEW size \in 0 .. MaxSize, Native!Resize(size)
      PROVE  NativeInv' /\ backing' = backing /\ last' = last
  <2>1. /\ buffers' = <<size>> /\ backing = "buffer"
        /\ UNCHANGED <<backing, detached, view, lease, pointers, last>>
    BY <1>2 DEF Native!Resize
  <2>2. buffers' \in Seq(0 .. MaxSize) /\ Len(buffers') = 1
    BY <2>1
  <2>3. Len(buffers) = 1
    BY <1>0, <2>1 DEF BuffersStand
  <2> QED BY <1>0, <2>1, <2>2, <2>3 DEF NativeInv, Native!TypeOK, BuffersStand, PointersStand
<1>3. ASSUME Native!Transfer PROVE NativeInv' /\ backing' = backing /\ last' = last
  BY <1>0, <1>3 DEF Native!Transfer, NativeInv, Native!TypeOK, BuffersStand, PointersStand
<1>4. ASSUME Native!Release PROVE NativeInv' /\ backing' = backing /\ last' = last
  <2>1. /\ lease' \in [start : 0 .. MaxSize, size : 0 .. MaxSize, live : BOOLEAN]
        /\ lease'.start = lease.start
        /\ UNCHANGED <<backing, buffers, detached, view, pointers, last>>
    BY <1>0, <1>4 DEF Native!Release, Native!TypeOK
  <2> QED BY <1>0, <2>1 DEF NativeInv, Native!TypeOK, BuffersStand, PointersStand
<1>5. ASSUME NEW region \in Native!Regions, NEW address \in 0 .. MaxSize, NEW element \in Elements,
             Native!NativePointerTo(region, address, element)
      PROVE  NativeInv' /\ backing' = backing /\ last' = last
  <2>1. /\ Native!CreateNativePointer(region, address, element)
        /\ region = "allocation" => backing = "buffer"
    BY <1>5 DEF Native!NativePointerTo
  <2>2. backing' = backing /\ last' = last
    BY <2>1 DEF Native!CreateNativePointer, Native!backingVars
  <2>3. address \in Int
    BY DEF Native!NativeAssumption
  <2> QED BY <2>1, <2>2, <2>3, PointerAdded
<1>6. ASSUME NEW p \in 1 .. Len(pointers), NEW byteOffset \in (-MaxSize) .. MaxSize,
             NEW element \in Elements, Native!At(p, byteOffset, element)
      PROVE  NativeInv' /\ backing' = backing /\ last' = last
  <2>1. pointers[p] \in NativePointers
    BY BuffersAndPointersTyped
  <2>2. pointers[p].region \in Native!Regions /\ pointers[p].address + byteOffset \in Int
    BY <2>1 DEF NativePointers, Native!NativeAssumption
  <2>3. pointers[p].region = "allocation" => backing = "buffer"
    BY <1>0 DEF PointersStand
  <2>4. Native!CreateNativePointer(pointers[p].region, pointers[p].address + byteOffset, element)
    BY <1>6 DEF Native!At
  <2>5. backing' = backing /\ last' = last
    BY <2>4 DEF Native!CreateNativePointer, Native!backingVars
  <2> QED BY <2>2, <2>3, <2>4, <2>5, PointerAdded
<1>7. ASSUME NEW p \in 1 .. Len(pointers), Native!Access(p)
      PROVE  NativeInv' /\ backing' = backing /\ HitsWhatIsThere
  <2>1. backing' = backing
    BY <1>7 DEF Native!Access, Native!backingVars
  <2> QED BY <1>7, <2>1, PointerAccess
<1>8. ASSUME NEW index \in 0 .. MaxSize, NEW element \in Elements, NEW hasTypedArray \in BOOLEAN,
             Native!StorageAccess(index, element.size, hasTypedArray)
      PROVE  NativeInv' /\ backing' = backing /\ HitsWhatIsThere
  <2>1. index \in Nat /\ element.size \in Nat \ {0}
    BY DEF Native!NativeAssumption
  <2>2. backing' = backing
    BY <1>8 DEF Native!StorageAccess, Native!backingVars
  <2> QED BY <1>8, <2>1, <2>2, StorageAccessed
<1>9. CASE UNCHANGED Native!vars
  BY <1>0, <1>9 DEF Native!vars, NativeInv, Native!TypeOK, BuffersStand, PointersStand
<1> QED BY <1>1, <1>2, <1>3, <1>4, <1>5, <1>6, <1>7, <1>8, <1>9 DEF Native!Next

\* An access that goes through, and one refused, by what the run says of them.
LEMMA NativeStepHits ==
  ASSUME Native!NativeAssumption, NativeInv, [Native!Next]_(Native!vars)
  PROVE  /\ backing = "memory" => last'.outcome # "engine"
         /\ last' # last /\ last'.outcome = "hit" =>
           LET end == last'.address + last'.size IN
           /\ last'.buffer = Native!now /\ Native!now \notin detached
           /\ end <= buffers[Native!now]
           /\ \/ /\ backing = "buffer" /\ lease.live
                 /\ last'.address >= lease.start /\ end <= lease.start + lease.size
              \/ \E p \in 1 .. Len(pointers) :
                   pointers[p].region = "memory" /\ pointers[p].address = last'.address
<1>1. NativeInv' /\ backing' = backing /\ (last' # last => HitsWhatIsThere)
  BY NativeStep
<1>2. backing = "memory" => last'.outcome # "engine"
  BY <1>1 DEF NativeInv, BuffersStand
<1> QED BY <1>1, <1>2 DEF HitsWhatIsThere, Native!now

\* A typed pointer or a storage that goes through reads bytes that the backing has
\* now, its own and not given back; a memory that grew is read where its bytes are,
\* for any sizes, layouts and numbers of buffers.
THEOREM HitsTheBytesThereAreHolds ==
  Native!NativeAssumption =>
    (Native!Spec => []Native!TypeOK /\ Native!HitsTheBytesThereAre)
<1> SUFFICES ASSUME Native!NativeAssumption
    PROVE  Native!Spec => []Native!TypeOK /\ Native!HitsTheBytesThereAre
  OBVIOUS
<1>1. Native!Init => NativeInv
  BY NativeInit
<1>2. NativeInv /\ [Native!Next]_(Native!vars) => NativeInv'
  BY NativeStep
<1>3. NativeInv => Native!TypeOK
  BY DEF NativeInv
<1> QED
  BY <1>1, <1>2, <1>3, NativeStepHits, PTL DEF Native!Spec, Native!HitsTheBytesThereAre

-----------------------------------------------------------------------------
(* For any lengths, and any number of views and pointers: an access stays  *)
(* inside.                                                                 *)

\* What was made before the thing t, and can be what it was made of.
Earlier(t) == Viewing!Roots \cup 1 .. (t - 1)

\* A view is cut from what it reads, where it begins, or from a view of the same
\* source, moved by where that begins, and within it.
IsCut(t) ==
  \/ things[t].parent = things[t].source /\ things[t].at = things[t].start
  \/ /\ things[t].parent \in 1 .. (t - 1)
     /\ things[t].kind = "view" /\ things[things[t].parent].kind = "view"
     /\ things[t].source = things[things[t].parent].source
     /\ things[t].start = things[things[t].parent].start + things[t].at
     /\ things[t].at + things[t].length <= things[things[t].parent].length

\* Everything is made of what was there before, and writes only if that does.
IsMade(t) ==
  /\ things[t].source \in Earlier(t) /\ things[t].parent \in Earlier(t)
  /\ things[t].writable => Viewing!Writable(things[t].parent)
  /\ things[t].kind = "pointer" => things[t].writable
  /\ IsCut(t)

ViewsInv == Viewing!TypeOK /\ \A t \in 1 .. Len(things) : IsMade(t)

LEMMA LengthsAreNumbers ==
  ASSUME Viewing!ViewsAssumption, Viewing!TypeOK, NEW x, Viewing!Exists(x)
  PROVE  Viewing!LengthOf(x) \in Nat
<1>1. CASE x \in 1 .. Len(things)
  <2>1. things[x] \in Viewing!Thing
    BY <1>1 DEF Viewing!TypeOK
  <2> QED
    BY <1>1, <2>1 DEF Viewing!LengthOf, Viewing!Thing, Viewing!ViewsAssumption, Viewing!Roots
<1>2. CASE x \in Viewing!Roots
  BY <1>2 DEF Viewing!LengthOf, Viewing!TypeOK, Viewing!ViewsAssumption, Viewing!Roots
<1> QED BY <1>1, <1>2 DEF Viewing!Exists

\* Making a thing leaves the others, and what they were made of, as they are.
LEMMA MadeOneMore ==
  ASSUME Viewing!ViewsAssumption, ViewsInv, NEW thing \in Viewing!Thing, Viewing!Make(thing),
         UNCHANGED arrayLength,
         thing.source \in Viewing!Roots \cup 1 .. Len(things),
         thing.parent \in Viewing!Roots \cup 1 .. Len(things),
         thing.writable => Viewing!Writable(thing.parent),
         thing.kind = "pointer" => thing.writable,
         \/ thing.parent = thing.source /\ thing.at = thing.start
         \/ /\ thing.parent \in 1 .. Len(things)
            /\ thing.kind = "view" /\ things[thing.parent].kind = "view"
            /\ thing.source = things[thing.parent].source
            /\ thing.start = things[thing.parent].start + thing.at
            /\ thing.at + thing.length <= things[thing.parent].length
  PROVE  ViewsInv'
<1> DEFINE n == Len(things)
<1>1. /\ things \in Seq(Viewing!Thing) /\ things' \in Seq(Viewing!Thing)
      /\ Len(things') = n + 1 /\ things'[n + 1] = thing /\ n \in Nat
      /\ \A t \in 1 .. n : things'[t] = things[t]
  BY DEF ViewsInv, Viewing!TypeOK, Viewing!Make
<1>2. Viewing!TypeOK'
  BY <1>1 DEF ViewsInv, Viewing!TypeOK, Viewing!Thing
<1>3. ASSUME NEW x \in Viewing!Roots \cup 1 .. n, Viewing!Writable(x) PROVE Viewing!Writable(x)'
  <2>1. CASE x \in 1 .. n
    BY <1>1, <1>3, <2>1 DEF Viewing!Writable
  <2>2. CASE x \in Viewing!Roots
    <3>1. x \notin 1 .. Len(things')
      BY <2>2 DEF Viewing!ViewsAssumption
    <3> QED BY <3>1 DEF Viewing!Writable
  <2> QED BY <2>1, <2>2
<1>4. ASSUME NEW t \in 1 .. n PROVE IsMade(t)'
  <2>1. IsMade(t) /\ things'[t] = things[t] /\ Earlier(t) \subseteq Viewing!Roots \cup 1 .. n
    BY <1>1, <1>4 DEF ViewsInv, Earlier
  <2>2. things[t].parent \in 1 .. (t - 1) => things'[things[t].parent] = things[things[t].parent]
    BY <1>1, <1>4
  <2>3. IsCut(t)'
    BY <2>1, <2>2 DEF IsMade, IsCut
  <2> QED BY <1>3, <2>1, <2>3 DEF IsMade, Earlier
<1>5. ASSUME NEW t, t = n + 1 PROVE IsMade(t)'
  <2>1. Earlier(t)' = Viewing!Roots \cup 1 .. n /\ things'[t] = thing
    BY <1>1, <1>5 DEF Earlier
  <2>2. IsCut(t)'
    <3>1. thing.parent \in 1 .. n => thing.parent \in 1 .. (t - 1) /\ things'[thing.parent] = things[thing.parent]
      BY <1>1, <1>5
    <3> QED BY <2>1, <3>1 DEF IsCut
  <2> QED BY <1>3, <2>1, <2>2 DEF IsMade
<1>6. ASSUME NEW t \in 1 .. Len(things') PROVE IsMade(t)'
  BY <1>1, <1>4, <1>5
<1> QED BY <1>2, <1>6 DEF ViewsInv

\* A pointer is made of what may be written.
LEMMA PointersWrite ==
  ASSUME ViewsInv, NEW p \in 1 .. Len(things), things[p].kind = "pointer"
  PROVE  /\ things[p].source \in Viewing!Roots \cup 1 .. Len(things)
         /\ things[p].source \in Viewing!Sources
         /\ Viewing!Writable(things[p].source)
<1>1. things[p] \in Viewing!Thing /\ IsMade(p) /\ Len(things) \in Nat
  BY DEF ViewsInv, Viewing!TypeOK
<1>2. things[p].parent = things[p].source
  BY <1>1 DEF IsMade, IsCut
<1>3. Viewing!Writable(things[p].source)
  BY <1>1, <1>2 DEF IsMade
<1> QED BY <1>1, <1>3 DEF IsMade, Earlier, Viewing!Thing

LEMMA ViewsStep ==
  ASSUME Viewing!ViewsAssumption, ViewsInv, [Viewing!Next]_(Viewing!vars) PROVE ViewsInv'
<1> DEFINE n == Len(things)
<1>0. /\ Viewing!TypeOK /\ n \in Nat /\ \A t \in 1 .. n : things[t] \in Viewing!Thing /\ IsMade(t)
  BY DEF ViewsInv, Viewing!TypeOK
<1>1. ASSUME UNCHANGED Viewing!vars PROVE ViewsInv'
  <2>1. things' = things /\ arrayLength' = arrayLength
    BY <1>1 DEF Viewing!vars
  <2> QED
    BY <2>1 DEF ViewsInv, Viewing!TypeOK, Viewing!Thing, IsMade, IsCut, Earlier, Viewing!Writable
<1>2. ASSUME NEW l \in 0 .. MaxLength, Viewing!SetArrayLength(l) PROVE ViewsInv'
  <2>1. things' = things /\ arrayLength' \in 0 .. MaxLength
    BY <1>2 DEF Viewing!SetArrayLength
  <2> QED
    BY <2>1 DEF ViewsInv, Viewing!TypeOK, Viewing!Thing, IsMade, IsCut, Earlier, Viewing!Writable
<1>3. ASSUME Len(things) < MaxThings, NEW x \in Viewing!Sources,
             NEW first \in Positions \cup {-1, missing}, NEW second \in Positions \cup {-1, missing},
             NEW isWritable \in BOOLEAN, Viewing!AsView(x, first, second, isWritable)
      PROVE  ViewsInv'
  <2> DEFINE source == Viewing!SourceOf(x)
             start == Viewing!CutStart(x, first)
             length == Viewing!CutLength(x, first, second)
             thing == [kind |-> "view", source |-> source, start |-> start,
                       length |-> length, writable |-> isWritable, parent |-> source, at |-> start]
  <2>1. /\ Viewing!Exists(x) /\ (isWritable => Viewing!Writable(x))
        /\ Viewing!IsPart(start, length, Viewing!LengthOf(source))
        /\ Viewing!Make(thing) /\ UNCHANGED arrayLength
    BY <1>3 DEF Viewing!AsView
  <2>4. /\ source \in Viewing!Roots \cup 1 .. n /\ source \in Viewing!Sources
        /\ isWritable => Viewing!Writable(source)
    <3>1. CASE Viewing!IsPointer(x)
      BY <1>0, <3>1, PointersWrite DEF Viewing!IsPointer, Viewing!SourceOf
    <3>2. CASE ~ Viewing!IsPointer(x)
      BY <2>1, <3>2 DEF Viewing!SourceOf, Viewing!Exists
    <3> QED BY <3>1, <3>2
  <2>5. start \in Nat /\ length \in Nat
    <3>1. Viewing!StartOf(x) \in Int
      BY <1>0 DEF Viewing!StartOf, Viewing!IsPointer, Viewing!Thing
    <3>2. start \in Int
      BY <3>1 DEF Viewing!CutStart, Viewing!ViewsAssumption
    <3>3. Viewing!LengthOf(x) \in Nat
      BY <1>0, <2>1, LengthsAreNumbers
    <3>4. length \in Int
      BY <3>2, <3>3 DEF Viewing!CutLength, Viewing!Clipped, Viewing!ViewsAssumption
    <3> QED BY <2>1, <3>2, <3>4 DEF Viewing!IsPart
  <2>6. thing \in Viewing!Thing
    BY <2>4, <2>5 DEF Viewing!Thing
  <2> HIDE DEF source, start, length
  <2> QED BY <2>1, <2>4, <2>6, MadeOneMore
<1>4. ASSUME Len(things) < MaxThings, NEW v \in Viewing!Sources, NEW first \in Positions \cup {-1},
             NEW second \in Positions \cup {-1, missing}, Viewing!Subview(v, first, second)
      PROVE  ViewsInv'
  <2> DEFINE length == IF second = missing THEN Viewing!Clipped(first, things[v].length) ELSE second
             thing == [things[v] EXCEPT !.start = @ + first, !.length = length,
                                        !.parent = v, !.at = first]
  <2>1. /\ v \in 1 .. n /\ things[v].kind = "view"
        /\ Viewing!IsPart(first, length, things[v].length)
        /\ Viewing!Make(thing) /\ UNCHANGED arrayLength
    BY <1>4 DEF Viewing!Subview, Viewing!IsView
  <2>2. things[v] \in Viewing!Thing /\ IsMade(v)
    BY <1>0, <2>1
  <2>3. first \in Nat /\ length \in Nat /\ first + length <= things[v].length
    <3>1. first \in Int /\ things[v].length \in Nat
      BY <2>2 DEF Viewing!ViewsAssumption, Viewing!Thing
    <3>2. length \in Int
      BY <3>1 DEF Viewing!Clipped, Viewing!ViewsAssumption
    <3> QED BY <2>1, <3>1, <3>2 DEF Viewing!IsPart
  <2>4. /\ thing \in Viewing!Thing
        /\ thing.kind = "view" /\ thing.source = things[v].source /\ thing.parent = v
        /\ thing.start = things[v].start + thing.at /\ thing.at + thing.length <= things[v].length
        /\ thing.writable = things[v].writable
    <3> HIDE DEF length
    <3>1. things[v].start + first \in Nat
      BY <2>2, <2>3 DEF Viewing!Thing
    <3>2. thing = [things[v] EXCEPT !.start = things[v].start + first, !.length = length,
                                    !.parent = v, !.at = first]
      OBVIOUS
    <3> HIDE DEF thing
    <3>3. /\ thing \in Viewing!Thing
          /\ thing.kind = things[v].kind /\ thing.source = things[v].source
          /\ thing.start = things[v].start + first /\ thing.length = length
          /\ thing.writable = things[v].writable /\ thing.parent = v /\ thing.at = first
      BY <1>4, <2>2, <2>3, <3>1, <3>2 DEF Viewing!Thing
    <3> QED BY <2>1, <2>3, <3>3
  <2>5. thing.source \in Viewing!Roots \cup 1 .. n
    BY <1>0, <2>1, <2>2, <2>4 DEF IsMade, Earlier
  <2>6. thing.writable => Viewing!Writable(thing.parent)
    BY <2>4 DEF Viewing!Writable
  <2> HIDE DEF thing, length
  <2> QED BY <2>1, <2>4, <2>5, <2>6, MadeOneMore
<1>5. ASSUME Len(things) < MaxThings, NEW v \in Viewing!Sources, Viewing!ReadOnly(v)
      PROVE  ViewsInv'
  <2> DEFINE thing == [things[v] EXCEPT !.writable = FALSE, !.parent = v, !.at = 0]
  <2>1. v \in 1 .. n /\ things[v].kind = "view" /\ Viewing!Make(thing) /\ UNCHANGED arrayLength
    BY <1>5 DEF Viewing!ReadOnly, Viewing!IsView
  <2>2. things[v] \in Viewing!Thing /\ IsMade(v)
    BY <1>0, <2>1
  <2>3. /\ thing \in Viewing!Thing /\ ~ thing.writable
        /\ thing.kind = "view" /\ thing.source = things[v].source /\ thing.parent = v
        /\ thing.start = things[v].start + thing.at /\ thing.at + thing.length <= things[v].length
    <3>1. thing = [things[v] EXCEPT !.writable = FALSE, !.parent = v, !.at = 0]
      OBVIOUS
    <3> HIDE DEF thing
    <3>2. /\ thing \in Viewing!Thing /\ thing.kind = things[v].kind
          /\ thing.source = things[v].source /\ thing.start = things[v].start
          /\ thing.length = things[v].length /\ ~ thing.writable
          /\ thing.parent = v /\ thing.at = 0
      BY <1>5, <2>2, <3>1 DEF Viewing!Thing
    <3>3. things[v].start \in Nat /\ things[v].length \in Nat
      BY <2>2 DEF Viewing!Thing
    <3> QED BY <2>1, <3>2, <3>3
  <2>4. thing.source \in Viewing!Roots \cup 1 .. n
    BY <1>0, <2>1, <2>2, <2>3 DEF IsMade, Earlier
  <2> HIDE DEF thing
  <2> QED BY <2>1, <2>3, <2>4, MadeOneMore
<1>6. ASSUME NEW source \in Viewing!Roots \cup 1 .. n, source \in Viewing!Sources, NEW index,
             Viewing!MakePointer(source, index), Viewing!Writable(source)
      PROVE  ViewsInv'
  <2> DEFINE thing == [kind |-> "pointer", source |-> source, start |-> index, length |-> 1,
                       writable |-> TRUE, parent |-> source, at |-> index]
  <2>1. index \in 0 .. Viewing!LengthOf(source) /\ Viewing!Make(thing) /\ UNCHANGED arrayLength
    BY <1>6 DEF Viewing!MakePointer
  <2>2. index \in Nat
    BY <1>0, <1>6, <2>1, LengthsAreNumbers DEF Viewing!Exists
  <2>3. thing \in Viewing!Thing
    BY <1>6, <2>2 DEF Viewing!Thing
  <2> QED BY <1>6, <2>1, <2>3, MadeOneMore
<1>7. ASSUME NEW x \in Viewing!Sources, NEW index \in Positions \cup {-1}, Viewing!PointerTo(x, index)
      PROVE  ViewsInv'
  BY <1>6, <1>7 DEF Viewing!PointerTo, Viewing!Exists
<1>8. ASSUME NEW p \in Viewing!Sources, NEW delta \in Positions \cup {-1}, Viewing!Offset(p, delta)
      PROVE  ViewsInv'
  <2>1. p \in 1 .. n /\ things[p].kind = "pointer"
    BY <1>8 DEF Viewing!Offset, Viewing!IsPointer
  <2>2. /\ things[p].source \in Viewing!Roots \cup 1 .. n /\ things[p].source \in Viewing!Sources
        /\ Viewing!Writable(things[p].source)
    BY <2>1, PointersWrite
  <2> QED BY <1>6, <1>8, <2>2 DEF Viewing!Offset
<1> QED
  BY <1>1, <1>2, <1>3, <1>4, <1>5, <1>7, <1>8 DEF Viewing!Next

-----------------------------------------------------------------------------

\* A set of numbers with 0 and, with each, the next one, has all of them.
LEMMA Induction ==
  ASSUME NEW S \in SUBSET Nat, 0 \in S, \A n \in S : n + 1 \in S PROVE Nat \subseteq S
<1> SUFFICES ASSUME NEW m \in Nat, m \notin S PROVE FALSE
  OBVIOUS
<1> DEFINE Missing == {k \in 0 .. m : k \notin S}
           Below(k) == {j \in Missing : j <= k}
           Belows == {Below(k) : k \in Missing}
<1>1. IsFiniteSet(Missing) /\ m \in Missing
  <2>1. IsFiniteSet(0 .. m) /\ Missing \subseteq 0 .. m
    BY FS_Interval
  <2> QED BY <2>1, FS_Subset
<1>2. Belows \subseteq FiniteSubsetsOf(Missing) /\ Belows # {}
  <2>1. \A k \in Missing : Below(k) \subseteq Missing /\ IsFiniteSet(Below(k))
    BY <1>1, FS_Subset
  <2> QED BY <1>1, <2>1 DEF FiniteSubsetsOf
<1>3. PICK X \in Belows : \A Y \in Belows : <<Y, X>> \notin StrictSubsetOrdering(Missing)
  BY <1>2, FS_StrictSubsetOrderingWellFounded, WFMin
<1>4. PICK k \in Missing : X = Below(k)
  BY <1>3
<1>5. k # 0 /\ k - 1 \notin S
  BY <1>4
<1>6. k - 1 \in Missing /\ Below(k - 1) \in Belows
  BY <1>4, <1>5
<1>7. Below(k - 1) \subseteq X /\ Below(k - 1) # X /\ X \subseteq Missing
  BY <1>4, <1>5
<1> QED
  BY <1>3, <1>4, <1>6, <1>7 DEF StrictSubsetOrdering

\* What a source answers at an index, by what the sources below it answer.
Answer(below, x, i) ==
  IF x = array THEN IF i < arrayLength THEN <<array, i>> ELSE Viewing!refused
  ELSE IF x = storage THEN IF i \in 0 .. (StorageLength - 1) THEN <<storage, i>> ELSE Viewing!refused
  ELSE IF x = reference THEN <<reference, 0>>
  ELSE IF i \in 0 .. (things[x].length - 1)
  THEN below[things[x].source][things[x].start + i]
  ELSE Viewing!refused

\* The elements that are read are there: what they are made of was there before.
LEMMA CellsAnswer ==
  ASSUME Viewing!ViewsAssumption, ViewsInv,
         NEW x \in Viewing!Roots \cup 1 .. Len(things), NEW i \in Int
  PROVE  Viewing!Cell[x][i] = Answer(Viewing!Cell, x, i)
<1> DEFINE Upto(k) == Viewing!Roots \cup 1 .. k
           Answers(g, k) == g = [y \in Upto(k) |-> [j \in Int |-> Answer(g, y, j)]]
           n == Len(things)
           S == {k \in Nat : k <= n => \E g : Answers(g, k)}
<1>0. n \in Nat /\ \A t \in 1 .. n : things[t] \in Viewing!Thing /\ IsMade(t)
  BY DEF ViewsInv, Viewing!TypeOK
<1>1. 0 \in S
  <2> DEFINE g == [y \in Upto(0) |-> [j \in Int |-> Answer(things, y, j)]]
  <2>1. \A y \in Upto(0), j \in Int : Answer(things, y, j) = Answer(g, y, j)
    <3>1. Upto(0) = {array, storage, reference}
      BY DEF Viewing!Roots
    <3> HIDE DEF g
    <3> QED BY <3>1 DEF Answer
  <2>2. Answers(g, 0)
    BY <2>1
  <2> QED BY <2>2
<1>2. ASSUME NEW k \in S PROVE k + 1 \in S
  <2> SUFFICES ASSUME k + 1 <= n PROVE \E h : Answers(h, k + 1)
    <3> HIDE DEF Answers
    <3> QED OBVIOUS
  <2>1. PICK g : Answers(g, k)
    <3> HIDE DEF Answers
    <3> QED BY <1>0, <1>2
  <2> DEFINE h == [y \in Upto(k + 1) |-> IF y \in Upto(k) THEN g[y] ELSE [j \in Int |-> Answer(g, y, j)]]
  <2>2. \A y \in Upto(k) : h[y] = g[y]
    OBVIOUS
  <2>3. ASSUME NEW y \in Upto(k + 1), NEW j \in Int PROVE Answer(h, y, j) = Answer(g, y, j)
    <3>1. CASE y \in Viewing!Roots
      <4> HIDE DEF h
      <4> QED BY <3>1 DEF Answer, Viewing!Roots
    <3>2. CASE y \in 1 .. (k + 1)
      <4>1. things[y].source \in Upto(k)
        <5>1. IsMade(y)
          BY <1>0, <3>2
        <5> QED BY <3>2, <5>1 DEF IsMade, Earlier
      <4>2. h[things[y].source] = g[things[y].source]
        BY <2>2, <4>1
      <4> HIDE DEF h
      <4> QED BY <4>2 DEF Answer
    <3> QED BY <3>1, <3>2
  <2>4. ASSUME NEW y \in Upto(k + 1) PROVE h[y] = [j \in Int |-> Answer(h, y, j)]
    <3>1. h[y] = [j \in Int |-> Answer(g, y, j)]
      BY <2>1
    <3> HIDE DEF h
    <3> QED BY <2>3, <3>1
  <2>5. Answers(h, k + 1)
    <3>1. h = [y \in Upto(k + 1) |-> h[y]]
      OBVIOUS
    <3> HIDE DEF h
    <3> QED BY <2>4, <3>1
  <2> QED BY <2>5
<1>3. \E g : Answers(g, n)
  <2> HIDE DEF Answers
  <2>1. Nat \subseteq S
    <3>1. S \in SUBSET Nat
      OBVIOUS
    <3> HIDE DEF S
    <3> QED BY <1>1, <1>2, <3>1, Induction
  <2> QED BY <1>0, <2>1
<1>4. Answers(Viewing!Cell, n)
  <2>1. Viewing!Cell = CHOOSE g : Answers(g, n)
    BY DEF Viewing!Cell, Answer
  <2> HIDE DEF Answers
  <2> QED BY <1>3, <2>1
<1> QED BY <1>4

\* Elements that are read at an index of a source are among those it has.
LEMMA CellsAreInside ==
  ASSUME Viewing!ViewsAssumption, ViewsInv
  PROVE  \A x \in Viewing!Roots \cup 1 .. Len(things), i \in Nat :
           LET cell == Viewing!Cell[x][i] IN
           cell # Viewing!refused => cell[2] \in 0 .. (Viewing!LengthOf(cell[1]) - 1)
<1> DEFINE n == Len(things)
           Inside(x) == \A i \in Nat :
             Viewing!Cell[x][i] # Viewing!refused =>
               Viewing!Cell[x][i][2] \in 0 .. (Viewing!LengthOf(Viewing!Cell[x][i][1]) - 1)
           S == {k \in Nat : k <= n => \A x \in 1 .. k : Inside(x)}
<1>0. n \in Nat /\ \A t \in 1 .. n : things[t] \in Viewing!Thing /\ IsMade(t)
  BY DEF ViewsInv, Viewing!TypeOK
<1>1. ASSUME NEW x \in Viewing!Roots PROVE Inside(x)
  <2> SUFFICES ASSUME NEW i \in Nat, Viewing!Cell[x][i] # Viewing!refused
      PROVE Viewing!Cell[x][i][2] \in 0 .. (Viewing!LengthOf(Viewing!Cell[x][i][1]) - 1)
    OBVIOUS
  <2>1. Viewing!Cell[x][i] = Answer(Viewing!Cell, x, i)
    BY CellsAnswer
  <2>2. arrayLength \in Nat /\ StorageLength \in Nat
    BY DEF ViewsInv, Viewing!TypeOK, Viewing!ViewsAssumption
  <2>3. CASE x = array
    BY <2>1, <2>2, <2>3 DEF Answer, Viewing!LengthOf
  <2>4. CASE x = storage
    BY <2>1, <2>2, <2>4 DEF Answer, Viewing!LengthOf, Viewing!ViewsAssumption
  <2>5. CASE x = reference
    BY <2>1, <2>5 DEF Answer, Viewing!LengthOf, Viewing!ViewsAssumption
  <2> QED BY <2>3, <2>4, <2>5 DEF Viewing!Roots
<1>2. 0 \in S
  OBVIOUS
<1>3. ASSUME NEW k \in S PROVE k + 1 \in S
  <2> SUFFICES ASSUME k + 1 <= n PROVE Inside(k + 1)
    <3>1. \A x \in 1 .. (k + 1) : x \in 1 .. k \/ x = k + 1
      BY <1>3
    <3> HIDE DEF Inside
    <3> QED BY <1>0, <1>3, <3>1
  <2> DEFINE t == k + 1
  <2>1. t \in 1 .. n /\ things[t] \in Viewing!Thing /\ IsMade(t) /\ t \notin Viewing!Roots
    BY <1>0, <1>3 DEF Viewing!ViewsAssumption
  <2>2. things[t].source \in Viewing!Roots \cup 1 .. k
    BY <1>3, <2>1 DEF IsMade, Earlier
  <2>3. Inside(things[t].source)
    <3> HIDE DEF Inside
    <3> QED BY <1>0, <1>1, <1>3, <2>2
  <2> SUFFICES ASSUME NEW i \in Nat, Viewing!Cell[t][i] # Viewing!refused
      PROVE Viewing!Cell[t][i][2] \in 0 .. (Viewing!LengthOf(Viewing!Cell[t][i][1]) - 1)
    OBVIOUS
  <2>4. Viewing!Cell[t][i] = Answer(Viewing!Cell, t, i)
    BY <2>1, CellsAnswer
  <2>5. Viewing!Cell[t][i] = Viewing!Cell[things[t].source][things[t].start + i]
    BY <2>1, <2>4 DEF Answer, Viewing!Roots
  <2>6. things[t].start + i \in Nat
    BY <2>1 DEF Viewing!Thing
  <2> QED BY <2>3, <2>5, <2>6
<1>4. \A x \in 1 .. n : Inside(x)
  <2>1. Nat \subseteq S
    <3> HIDE DEF S
    <3>1. S \in SUBSET Nat
      BY DEF S
    <3> QED BY <1>2, <1>3, <3>1, Induction
  <2> HIDE DEF Inside
  <2> QED BY <1>0, <2>1
<1> QED BY <1>1, <1>4

LEMMA ViewsStayInside ==
  ASSUME Viewing!ViewsAssumption, ViewsInv PROVE Viewing!AccessStaysInside
<1> SUFFICES ASSUME NEW t \in 1 .. Len(things)
    PROVE  /\ things[t].writable => Viewing!Writable(things[t].parent)
           /\ \A i \in -1 .. MaxLength :
                /\ things[t].kind = "view" => Viewing!IsWindow(t, i)
                /\ LET cell == Viewing!Get(t, i) IN
                   cell # Viewing!refused => cell[2] \in 0 .. (Viewing!LengthOf(cell[1]) - 1)
  BY DEF Viewing!AccessStaysInside
<1>0. /\ things[t] \in Viewing!Thing /\ IsMade(t) /\ t \notin Viewing!Roots /\ Len(things) \in Nat
      /\ \A v \in 1 .. Len(things) : things[v] \in Viewing!Thing /\ v \notin Viewing!Roots
  BY DEF ViewsInv, Viewing!TypeOK, Viewing!ViewsAssumption
<1>1. ASSUME NEW v \in 1 .. Len(things), NEW i \in Int
      PROVE  Viewing!Cell[v][i] = IF i \in 0 .. (things[v].length - 1)
                                  THEN Viewing!Cell[things[v].source][things[v].start + i]
                                  ELSE Viewing!refused
  <2>1. Viewing!Cell[v][i] = Answer(Viewing!Cell, v, i)
    BY CellsAnswer
  <2> QED BY <1>0, <2>1 DEF Answer, Viewing!Roots
<1>2. ASSUME NEW i \in -1 .. MaxLength, things[t].kind = "view" PROVE Viewing!IsWindow(t, i)
  <2>1. Viewing!Get(t, i) = Viewing!Cell[t][i] /\ i \in Int
    BY <1>2 DEF Viewing!Get, Viewing!ViewsAssumption
  <2>2. CASE things[t].parent = things[t].source /\ things[t].at = things[t].start
    BY <1>1, <2>1, <2>2 DEF Viewing!IsWindow
  <2>3. CASE ~(things[t].parent = things[t].source /\ things[t].at = things[t].start)
    <3> DEFINE p == things[t].parent
    <3>1. /\ p \in 1 .. (t - 1) /\ things[t].source = things[p].source
          /\ things[t].start = things[p].start + things[t].at
          /\ things[t].at + things[t].length <= things[p].length
      BY <1>0, <2>3 DEF IsMade, IsCut
    <3>2. /\ p \in 1 .. Len(things) /\ things[p] \in Viewing!Thing
          /\ things[t].at \in Nat /\ things[t].length \in Nat /\ things[t].start \in Nat
          /\ things[p].start \in Nat /\ things[p].length \in Nat
      BY <1>0, <3>1 DEF Viewing!Thing
    <3>3. ASSUME i \in 0 .. (things[t].length - 1)
          PROVE  Viewing!Cell[p][things[t].at + i] = Viewing!Cell[things[t].source][things[t].start + i]
      <4>1. things[t].at + i \in 0 .. (things[p].length - 1)
        <5>1. ASSUME NEW at \in Nat, NEW length \in Nat, NEW available \in Nat, i \in Int,
                     at + length <= available, i \in 0 .. (length - 1)
              PROVE  at + i \in 0 .. (available - 1)
          BY <5>1
        <5> HIDE DEF p
        <5> QED BY <2>1, <3>1, <3>2, <3>3, <5>1
      <4>2. things[p].start + (things[t].at + i) = things[t].start + i
        BY <2>1, <3>1, <3>2
      <4>3. Viewing!Cell[p][things[t].at + i] =
              Viewing!Cell[things[p].source][things[p].start + (things[t].at + i)]
        <5> HIDE DEF p
        <5>1. things[t].at + i \in Int
          BY <2>1, <3>2
        <5> QED BY <1>1, <3>2, <4>1, <5>1
      <4> QED BY <3>1, <4>2, <4>3
    <3>4. Viewing!Cell[t][i] = IF i \in 0 .. (things[t].length - 1)
                               THEN Viewing!Cell[things[t].source][things[t].start + i]
                               ELSE Viewing!refused
      BY <1>1, <2>1
    <3> QED BY <2>1, <3>3, <3>4 DEF Viewing!IsWindow
  <2> QED BY <2>2, <2>3
<1>3. ASSUME NEW i \in -1 .. MaxLength, Viewing!Get(t, i) # Viewing!refused
      PROVE  Viewing!Get(t, i)[2] \in 0 .. (Viewing!LengthOf(Viewing!Get(t, i)[1]) - 1)
  <2>1. i \in Int /\ things[t].start \in Nat /\ things[t].source \in Viewing!Roots \cup 1 .. Len(things)
    BY <1>0 DEF Viewing!ViewsAssumption, Viewing!Thing, IsMade, Earlier
  <2>2. CASE things[t].kind = "pointer"
    <3>1. Viewing!Get(t, i) = Viewing!Cell[things[t].source][things[t].start]
      BY <1>3, <2>2 DEF Viewing!Get
    <3> QED BY <1>3, <2>1, <3>1, CellsAreInside
  <2>3. CASE things[t].kind # "pointer"
    <3>1. Viewing!Get(t, i) = Viewing!Cell[t][i]
      BY <2>3 DEF Viewing!Get
    <3>2. i \in Nat
      BY <1>1, <1>3, <2>1, <3>1
    <3> QED BY <1>3, <3>1, <3>2, CellsAreInside
  <2> QED BY <2>2, <2>3
<1> QED BY <1>0, <1>2, <1>3 DEF IsMade

LEMMA ViewsStart ==
  Viewing!ViewsAssumption /\ arrayLength \in 0 .. MaxLength /\ things = <<>> => ViewsInv
BY DEF ViewsInv, Viewing!TypeOK

-----------------------------------------------------------------------------
(* What the runs look at: one of the three moves, the others stand still.  *)

\* However owners, views and typed pointers are used, what was ended is not reached
\* again and an access goes to the bytes there are, or is refused.
THEOREM NothingStaleIsReachedHolds == AllSpec => NothingStaleIsReached
<1> USE MemoryAssumption
<1>1. AllInit => Init /\ NativeInv
  <2>1. ASSUME AllInit, kind # "native" PROVE NativeInv
    <3>1. /\ backing = "memory" /\ buffers = <<1>> /\ detached = {} /\ view = 1
          /\ lease = [start |-> 0, size |-> 0, live |-> TRUE] /\ pointers = <<>>
          /\ last = [outcome |-> "none", buffer |-> 0, address |-> 0, size |-> 0]
      BY <2>1 DEF AllInit
    <3>2. buffers \in Seq(0 .. MaxSize) /\ Len(buffers) = 1 /\ detached = 1 .. (Len(buffers) - 1)
      BY <3>1 DEF Native!NativeAssumption
    <3>3. pointers \in Seq(NativePointers) /\ Len(pointers) = 0
      BY <3>1
    <3>4. Native!TypeOK
      BY <3>1, <3>2, <3>3
         DEF Native!TypeOK, Native!NativeAssumption, Native!Outcomes, NativePointers
    <3> QED
      BY <3>1, <3>2, <3>3, <3>4
         DEF NativeInv, BuffersStand, PointersStand, Native!NativeAssumption
  <2> QED BY <2>1, NativeInit DEF AllInit
<1>2. [AllNext]_<<kind, vars, viewingVars, nativeVars>> =>
        [Next]_vars /\ [Native!Next]_(Native!vars)
  BY DEF AllNext, vars, viewingVars, nativeVars, Native!vars
<1>3. AllSpec => Spec
  BY <1>1, <1>2, PTL DEF AllSpec, Spec
<1>4. NativeInv /\ [Native!Next]_(Native!vars) => NativeInv'
  BY NativeStep
<1>5. NativeInv => Native!TypeOK
  BY DEF NativeInv
<1>6. AllSpec => []Native!TypeOK /\ Native!HitsTheBytesThereAre
  BY <1>1, <1>2, <1>4, <1>5, NativeStepHits, PTL DEF AllSpec, Native!HitsTheBytesThereAre
<1>7. Spec => WhatEndedStaysEnded
  BY WhatEndedStaysEndedHolds
<1>8. Spec => []TypeOK
  <2>1. Spec => [](TypeOK /\ OwnershipIsSound)
    BY OwnershipIsSoundHolds
  <2> QED BY <2>1, PTL
<1> QED BY <1>3, <1>6, <1>7, <1>8 DEF NothingStaleIsReached

\* A view is a window on what it was cut from, however deep, and nothing is reached
\* that is not there, whatever becomes of the array.
THEOREM AccessStaysInsideHolds == AllSpec => []AccessStaysInside
<1> USE MemoryAssumption
<1>1. AllInit => ViewsInv
  <2>1. 0 \in 0 .. MaxLength
    BY DEF Viewing!ViewsAssumption
  <2> QED BY <2>1, ViewsStart DEF AllInit, Viewing!Init
<1>2. ViewsInv /\ [AllNext]_<<kind, vars, viewingVars, nativeVars>> => ViewsInv'
  BY ViewsStep DEF AllNext, viewingVars, Viewing!vars
<1>3. ViewsInv => AccessStaysInside
  BY ViewsStayInside DEF ViewsInv, AccessStaysInside
<1> QED BY <1>1, <1>2, <1>3, PTL DEF AllSpec
=============================================================================

--------------------------- MODULE TaskScopeProofs ---------------------------
(***************************************************************************)
(* For any number of tasks, callers and places: a scope closes over no     *)
(* task, its first failure calls every task off, and is told, and its      *)
(* queue starts the tasks in their order, as soon as there is room.        *)
(***************************************************************************)
EXTENDS TaskScope, FiniteSetTheorems, SequenceTheorems,
        WellFoundedInduction, TLAPS

Endings == {"none", "parked", "woken", "over"}
Reports == {"none", "ok", "failure", "cancelled"}

\* The types the facts rest on; those of the queue are not among them.
Typed ==
  /\ state \in [Tasks -> States]
  /\ cancelled \subseteq Tasks
  /\ scopeCancelled \in BOOLEAN /\ reported \in BOOLEAN /\ closed \in BOOLEAN
  /\ failure \in Tasks \cup {NoTask}
  /\ ending \in Endings
  /\ awaiting \in Seq(Callers)
  /\ report \in [Callers -> Reports]

\* The counter is the number of tasks that it stands for.
Counted == outstanding = Cardinality(Unsettled)

\* The scope closes when its wait is over, with nothing left, and answers then.
Ends ==
  /\ closed <=> ending = "over"
  /\ closed => outstanding = 0
  /\ \A c \in Callers : report[c] # "none" => closed

\* A failure calls the scope off, and that every task there is or will be.
CalledOff ==
  /\ failure # NoTask => scopeCancelled
  /\ scopeCancelled => Unsettled \subseteq cancelled

\* Who waits was told nothing, and waits once.  Who was told heard of the
\* failure, the first of them and every join.
Told ==
  /\ \A i \in 1 .. Len(awaiting) : report[awaiting[i]] = "none"
  /\ \A i, j \in 1 .. Len(awaiting) : awaiting[i] = awaiting[j] => i = j
  /\ reported <=> \E c \in Callers : report[c] # "none"
  /\ failure # NoTask =>
       /\ \A c \in Joins : report[c] \in {"none", "failure"}
       /\ reported => \E c \in Callers : report[c] = "failure"

IInv == Typed /\ Counted /\ Ends /\ CalledOff /\ Told

\* What a step does to the failure, to the works and to the answers.
Stands == failure' # failure => failure = NoTask /\ failure' \notin cancelled
BeginsNone ==
  \A t \in Tasks : state[t] # "working" /\ state'[t] = "working" => ~scopeCancelled
TellsOnce ==
  \A d \in Disposals : report[d] # "failure" /\ report'[d] = "failure" =>
    \A c \in Callers : report[c] = "none"

Kept == IInv' /\ Stands /\ BeginsNone /\ TellsOnce

-----------------------------------------------------------------------------

LEMMA FiniteUnsettled == IsFiniteSet(Unsettled) /\ Cardinality(Unsettled) \in Nat
<1>1. IsFiniteSet(Tasks)
  BY ScopeAssumption, FS_Interval DEF Tasks
<1>2. Unsettled \in SUBSET Tasks
  BY DEF Unsettled
<1> QED BY <1>1, <1>2, FS_Subset, FS_CardinalityType

LEMMA InitIInv == Init => IInv
<1> SUFFICES ASSUME Init PROVE IInv
  OBVIOUS
<1>1. Typed
  <2>1. state \in [Tasks -> States] /\ report \in [Callers -> Reports]
    BY DEF Init, States, Reports
  <2>2. awaiting \in Seq(Callers)
    BY DEF Init
  <2> QED BY <2>1, <2>2 DEF Init, Typed, Endings
<1>2. Unsettled = {}
  BY DEF Init, Unsettled
<1>3. Counted
  <2>1. outstanding = 0
    BY DEF Init
  <2>2. Cardinality(Unsettled) = 0
    BY <1>2, FS_EmptySet, Zenon
  <2> QED BY <2>1, <2>2 DEF Counted
<1>4. Ends /\ CalledOff /\ Told
  BY <1>2 DEF Init, Ends, CalledOff, Told
<1> QED BY <1>1, <1>3, <1>4 DEF IInv

\* Counting out tasks that settled counts them out.
LEMMA CountedOut ==
  ASSUME IInv, NEW gone \in SUBSET Unsettled,
         Unsettled' = Unsettled \ gone, outstanding' = outstanding - Cardinality(gone)
  PROVE  /\ Counted'
         /\ outstanding = 0 => gone = {} /\ outstanding' = 0
         /\ outstanding \in Nat /\ outstanding' \in Nat
<1>1. /\ IsFiniteSet(Unsettled) /\ Cardinality(Unsettled) \in Nat
      /\ outstanding = Cardinality(Unsettled)
  BY FiniteUnsettled DEF IInv, Counted
<1>2. Unsettled \cap gone = gone
  OBVIOUS
<1>3. /\ IsFiniteSet(Unsettled \ gone)
      /\ Cardinality(Unsettled \ gone) = Cardinality(Unsettled) - Cardinality(gone)
  BY <1>1, <1>2, FS_Difference
<1>4. Counted'
  BY <1>1, <1>3 DEF Counted
<1>5. ASSUME outstanding = 0 PROVE gone = {} /\ outstanding' = 0
  <2>1. Unsettled = {}
    BY <1>1, <1>5, FS_EmptySet
  <2>2. gone = {}
    BY <2>1
  <2>3. Cardinality(gone) = 0
    BY <2>2, FS_EmptySet
  <2> QED BY <1>5, <2>2, <2>3
<1>6. outstanding' \in Nat
  BY <1>3, <1>1, FS_CardinalityType
<1> QED BY <1>1, <1>4, <1>5, <1>6

\* The tasks that give their place up, and nothing else, settle.
LEMMA WithdrawnSettle ==
  ASSUME IInv, NEW called,
         state' = [t \in Tasks |-> IF t \in Withdrawn(called) THEN "done" ELSE state[t]]
  PROVE  /\ state' \in [Tasks -> States]
         /\ Withdrawn(called) \cap Tasks \in SUBSET Unsettled
         /\ Unsettled' = Unsettled \ (Withdrawn(called) \cap Tasks)
         /\ BeginsNone
<1>1. state \in [Tasks -> States]
  BY DEF IInv, Typed
<1>2. state' \in [Tasks -> States]
  BY <1>1 DEF States
<1>3. BeginsNone
  BY <1>1 DEF BeginsNone
<1>4. Withdrawn(called) \cap Tasks \in SUBSET Unsettled
  BY DEF Withdrawn, Unsettled
<1>5. Unsettled' = Unsettled \ (Withdrawn(called) \cap Tasks)
  BY <1>1, <1>4 DEF Unsettled
<1> QED BY <1>2, <1>3, <1>4, <1>5

\* Tasks are called off, by the scope or one by one.
LEMMA CallOffKeeps ==
  ASSUME IInv, NEW called \in SUBSET Tasks, CallOff(called),
         UNCHANGED <<failure, reported, closed, awaiting, report>>,
         \/ scopeCancelled' = scopeCancelled
         \/ scopeCancelled' = TRUE /\ called = Unsettled
  PROVE  Kept
<1> DEFINE gone == Withdrawn(called)
<1>1. /\ cancelled' = cancelled \cup called
      /\ state' = [t \in Tasks |-> IF t \in gone THEN "done" ELSE state[t]]
      /\ outstanding' = outstanding - Cardinality(gone)
      /\ ending' = IF Cardinality(gone) > 0 /\ outstanding = Cardinality(gone) /\ ending = "parked"
                   THEN "woken" ELSE ending
  BY DEF CallOff, Settle
<1>2. gone \cap Tasks = gone
  BY DEF Withdrawn
<1>3. /\ state' \in [Tasks -> States] /\ gone \in SUBSET Unsettled
      /\ Unsettled' = Unsettled \ gone /\ BeginsNone
  BY <1>1, <1>2, WithdrawnSettle
<1>4. /\ Counted' /\ outstanding \in Nat
      /\ outstanding = 0 => gone = {} /\ outstanding' = 0
  BY <1>1, <1>3, CountedOut
<1> HIDE DEF gone
<1>5. Typed'
  BY <1>1, <1>3 DEF IInv, Typed, Endings
<1>6. Ends'
  BY <1>1, <1>4 DEF IInv, Ends
<1>7. CalledOff'
  BY <1>1, <1>3 DEF IInv, CalledOff
<1>8. Told'
  BY DEF IInv, Told
<1>9. Stands /\ TellsOnce
  BY DEF Stands, TellsOnce
<1> QED BY <1>3, <1>4, <1>5, <1>6, <1>7, <1>8, <1>9 DEF IInv, Kept

LEMMA CancelScopeKeeps == ASSUME IInv, CancelScope PROVE Kept
<1>1. /\ CallOff(Unsettled) /\ scopeCancelled' = TRUE
      /\ UNCHANGED <<failure, reported, closed, awaiting, report>>
  BY DEF CancelScope, CancelSource, Following, Unsettled, endVars
<1>2. Unsettled \in SUBSET Tasks
  BY DEF Unsettled
<1> QED BY <1>1, <1>2, CallOffKeeps

LEMMA CancelTaskKeeps == ASSUME IInv, NEW t \in Tasks, CancelTask(t) PROVE Kept
<1>1. /\ CallOff({t}) /\ scopeCancelled' = scopeCancelled
      /\ UNCHANGED <<failure, reported, closed, awaiting, report>>
  BY DEF CancelTask, endVars
<1>2. {t} \in SUBSET Tasks
  OBVIOUS
<1> QED BY <1>1, <1>2, CallOffKeeps

\* A task comes, and what has room is started.
LEMMA SpawnKeeps == ASSUME IInv, NEW t \in Tasks, Spawn(t) PROVE Kept
<1> DEFINE begun == {Append(entries, t)[i] :
                       i \in Started(Append(entries, t), head, [state EXCEPT ![t] = "waiting"], running)}
<1>1. /\ state[t] = "unborn" /\ ~closed
      /\ state' = [u \in Tasks |-> IF u \in begun THEN "begun" ELSE [state EXCEPT ![t] = "waiting"][u]]
      /\ outstanding' = outstanding + 1
      /\ cancelled' = IF scopeCancelled THEN cancelled \cup {t} ELSE cancelled
      /\ UNCHANGED <<scopeCancelled, failure, ending, reported, closed, awaiting, report>>
  BY DEF Spawn, Pump, endVars
<1>2. state \in [Tasks -> States]
  BY DEF IInv, Typed
<1>3. \A u \in Tasks : u \in begun => [state EXCEPT ![t] = "waiting"][u] = "waiting"
  BY DEF Started, Live
<1> HIDE DEF begun
<1>4. \A u \in Tasks :
        state'[u] = IF u \in begun THEN "begun" ELSE IF u = t THEN "waiting" ELSE state[u]
  BY <1>1, <1>2
<1>5. \A u \in Tasks : u \in begun => u = t \/ state[u] = "waiting"
  BY <1>2, <1>3
<1>6. state' \in [Tasks -> States]
  BY <1>1, <1>2, <1>4 DEF States
<1>7. Unsettled' = Unsettled \cup {t} /\ t \notin Unsettled
  BY <1>1, <1>4, <1>5 DEF Unsettled
<1>8. Counted'
  <2>1. outstanding = Cardinality(Unsettled)
    BY DEF IInv, Counted
  <2> QED BY <1>1, <1>7, <2>1, FiniteUnsettled, FS_AddElement DEF Counted
<1>9. Typed'
  BY <1>1, <1>6 DEF IInv, Typed
<1>10. Ends' /\ Told'
  BY <1>1 DEF IInv, Ends, Told
<1>11. CalledOff'
  BY <1>1, <1>7 DEF IInv, CalledOff
<1>12. BeginsNone
  BY <1>4 DEF BeginsNone
<1> QED BY <1>1, <1>8, <1>9, <1>10, <1>11, <1>12 DEF IInv, Kept, Stands, TellsOnce

\* A task goes on, and nothing else happens.
LEMMA GoesOnKeeps ==
  ASSUME IInv, NEW t \in Tasks, NEW s \in States \ {"unborn", "done"}, t \in Unsettled,
         state' = [state EXCEPT ![t] = s], s = "working" => ~scopeCancelled,
         UNCHANGED <<cancelled, outstanding, scopeCancelled, failure, ending,
                     reported, closed, awaiting, report>>
  PROVE  Kept
<1>1. state \in [Tasks -> States]
  BY DEF IInv, Typed
<1>2. state' \in [Tasks -> States] /\ BeginsNone
  BY <1>1 DEF BeginsNone
<1>3. Unsettled' = Unsettled
  BY <1>1 DEF Unsettled
<1>4. Typed'
  BY <1>2 DEF IInv, Typed
<1>5. Counted' /\ Ends' /\ CalledOff' /\ Told'
  BY <1>3 DEF IInv, Counted, Ends, CalledOff, Told
<1> QED BY <1>2, <1>4, <1>5 DEF IInv, Kept, Stands, TellsOnce

LEMMA BeginKeeps == ASSUME IInv, NEW t \in Tasks, Begin(t) PROVE Kept
<1> DEFINE s == IF t \in cancelled THEN "threw" ELSE "working"
<1>1. /\ state[t] = "begun" /\ state' = [state EXCEPT ![t] = s]
      /\ UNCHANGED <<cancelled, outstanding, scopeCancelled, failure, ending,
                     reported, closed, awaiting, report>>
  BY DEF Begin, endVars
<1>2. t \in Unsettled
  BY <1>1 DEF Unsettled
<1>3. s = "working" => ~scopeCancelled
  BY <1>2 DEF IInv, CalledOff
<1>4. s \in States \ {"unborn", "done"}
  BY DEF States
<1> HIDE DEF s
<1> QED BY <1>1, <1>2, <1>3, <1>4, GoesOnKeeps

LEMMA WorkKeeps == ASSUME IInv, NEW t \in Tasks, Work(t) PROVE Kept
<1>1. /\ state[t] = "working"
      /\ UNCHANGED <<cancelled, outstanding, scopeCancelled, failure, ending,
                     reported, closed, awaiting, report>>
  BY DEF Work, endVars
<1>2. PICK s \in {"resolved", "threw"} : state' = [state EXCEPT ![t] = s]
  BY DEF Work
<1>3. s \in States \ {"unborn", "done"} /\ s # "working" /\ t \in Unsettled
  BY <1>1 DEF States, Unsettled
<1> QED BY <1>1, <1>2, <1>3, GoesOnKeeps

LEMMA ReadValueKeeps == ASSUME IInv, NEW t \in Tasks, ReadValue(t) PROVE Kept
<1>1. /\ state[t] = "resolved" /\ state' = [state EXCEPT ![t] = "read"]
      /\ UNCHANGED <<cancelled, outstanding, scopeCancelled, failure, ending,
                     reported, closed, awaiting, report>>
  BY DEF ReadValue, endVars
<1>2. "read" \in States \ {"unborn", "done"} /\ t \in Unsettled
  BY <1>1 DEF States, Unsettled
<1> QED BY <1>1, <1>2, GoesOnKeeps

\* Nobody was answered while a task is unsettled.
LEMMA NobodyAnswered ==
  ASSUME IInv, NEW t \in Unsettled
  PROVE  ~closed /\ ~reported /\ \A c \in Callers : report[c] = "none"
<1>1. outstanding # 0
  <2>1. Unsettled # {}
    OBVIOUS
  <2>2. Cardinality(Unsettled) # 0
    BY <2>1, FiniteUnsettled, FS_EmptySet
  <2> QED BY <2>2 DEF IInv, Counted
<1> QED BY <1>1 DEF IInv, Ends, Told

LEMMA ReadErrorKeeps == ASSUME IInv, NEW t \in Tasks, ReadError(t) PROVE Kept
<1> DEFINE rest == IF Fails(t) /\ ~scopeCancelled THEN Unsettled ELSE {}
           gone == Withdrawn(rest)
<1>1. /\ state[t] = "threw"
      /\ failure' = IF Fails(t) THEN t ELSE failure
      /\ scopeCancelled' = (scopeCancelled \/ Fails(t))
      /\ cancelled' = cancelled \cup rest
      /\ state' = [u \in Tasks |-> IF u = t THEN "read" ELSE IF u \in gone THEN "done" ELSE state[u]]
      /\ outstanding' = outstanding - Cardinality(gone)
      /\ ending' = IF Cardinality(gone) > 0 /\ outstanding = Cardinality(gone) /\ ending = "parked"
                   THEN "woken" ELSE ending
      /\ UNCHANGED <<reported, closed, awaiting, report>>
  BY DEF ReadError, Settle, endVars, Following, Unsettled
<1>2. t \in Unsettled
  BY <1>1 DEF Unsettled
<1>3. state \in [Tasks -> States]
  BY DEF IInv, Typed
<1>4. gone \in SUBSET Unsettled /\ t \notin gone /\ rest \in SUBSET Unsettled
  BY <1>1 DEF Withdrawn, Unsettled
<1> HIDE DEF gone
<1>5. state' \in [Tasks -> States] /\ BeginsNone
  BY <1>1, <1>3 DEF States, BeginsNone
<1>6. Unsettled' = Unsettled \ gone
  BY <1>1, <1>2, <1>3, <1>4 DEF Unsettled
<1>7. Counted'
  BY <1>1, <1>4, <1>6, CountedOut
<1>8. ~closed /\ ~reported /\ \A c \in Callers : report[c] = "none"
  BY <1>2, NobodyAnswered
<1>9. Typed'
  <2>1. cancelled' \subseteq Tasks
    BY <1>1, <1>4 DEF IInv, Typed, Unsettled
  <2>2. failure' \in Tasks \cup {NoTask} /\ ending' \in Endings /\ scopeCancelled' \in BOOLEAN
    BY <1>1 DEF IInv, Typed, Endings, Fails
  <2> QED BY <1>1, <1>5, <2>1, <2>2 DEF IInv, Typed
<1>10. Ends'
  BY <1>1, <1>8 DEF IInv, Ends
<1>11. CalledOff'
  <2>1. CASE Fails(t) /\ ~scopeCancelled
    BY <1>1, <1>6, <2>1 DEF CalledOff
  <2>2. CASE scopeCancelled
    BY <1>1, <1>6, <2>2 DEF IInv, CalledOff
  <2>3. CASE ~Fails(t) /\ ~scopeCancelled
    BY <1>1, <2>3 DEF IInv, CalledOff
  <2> QED BY <2>1, <2>2, <2>3
<1>12. Told'
  BY <1>1, <1>8 DEF IInv, Told, Callers
<1>13. Stands
  BY <1>1 DEF Stands, Fails
<1> QED
  BY <1>1, <1>5, <1>7, <1>9, <1>10, <1>11, <1>12, <1>13 DEF IInv, Kept, TellsOnce

LEMMA FinishKeeps == ASSUME IInv, NEW t \in Tasks, Finish(t) PROVE Kept
<1> DEFINE begun == {entries[i] :
                       i \in Started(entries, head, [state EXCEPT ![t] = "done"], running - 1)}
<1>1. /\ state[t] = "read"
      /\ state' = [u \in Tasks |-> IF u \in begun THEN "begun" ELSE [state EXCEPT ![t] = "done"][u]]
      /\ outstanding' = outstanding - 1
      /\ ending' = IF 1 > 0 /\ outstanding = 1 /\ ending = "parked" THEN "woken" ELSE ending
      /\ UNCHANGED <<cancelled, scopeCancelled, failure, reported, closed, awaiting, report>>
  BY DEF Finish, Pump, Settle, endVars
<1>2. state \in [Tasks -> States]
  BY DEF IInv, Typed
<1>3. \A u \in Tasks : u \in begun => [state EXCEPT ![t] = "done"][u] = "waiting"
  BY DEF Started, Live
<1> HIDE DEF begun
<1>4. \A u \in Tasks :
        state'[u] = IF u \in begun THEN "begun" ELSE IF u = t THEN "done" ELSE state[u]
  BY <1>1, <1>2
<1>5. \A u \in Tasks : u \in begun => u # t /\ state[u] = "waiting"
  BY <1>2, <1>3
<1>6. state' \in [Tasks -> States] /\ BeginsNone
  BY <1>1, <1>2, <1>4 DEF States, BeginsNone
<1>7. Unsettled' = Unsettled \ {t} /\ {t} \in SUBSET Unsettled
  BY <1>1, <1>4, <1>5 DEF Unsettled
<1>8. outstanding' = outstanding - Cardinality({t})
  <2>1. Cardinality({t}) = 1
    BY FS_Singleton
  <2> QED BY <1>1, <2>1
<1>9. Counted' /\ outstanding # 0
  BY <1>7, <1>8, CountedOut
<1>10. Typed'
  BY <1>1, <1>6 DEF IInv, Typed, Endings
<1>11. Ends'
  BY <1>1, <1>9 DEF IInv, Ends
<1>12. CalledOff' /\ Told'
  BY <1>1, <1>7 DEF IInv, CalledOff, Told
<1> QED BY <1>1, <1>6, <1>9, <1>10, <1>11, <1>12 DEF IInv, Kept, Stands, TellsOnce

\* What a caller that asks changes of the end.
LEMMA AsksKeeps ==
  ASSUME IInv, NEW c \in Callers, Asks(c)
  PROVE  /\ awaiting' \in Seq(Callers)
         /\ UNCHANGED <<failure, reported, report>>
         /\ Told'
<1>1. /\ awaiting \in Seq(Callers) /\ awaiting' = Append(awaiting, c)
      /\ report[c] = "none" /\ \A i \in 1 .. Len(awaiting) : awaiting[i] # c
      /\ UNCHANGED <<failure, reported, report>>
  BY DEF Asks, IInv, Typed
<1>2. /\ awaiting' \in Seq(Callers) /\ Len(awaiting') = Len(awaiting) + 1
      /\ \A i \in 1 .. Len(awaiting) : awaiting'[i] = awaiting[i]
      /\ awaiting'[Len(awaiting) + 1] = c /\ Len(awaiting) \in Nat
  BY <1>1
<1>3. \A i \in 1 .. Len(awaiting') : i \in 1 .. Len(awaiting) \/ i = Len(awaiting) + 1
  BY <1>2
<1>4. Told'
  BY <1>1, <1>2, <1>3 DEF IInv, Told
<1> QED BY <1>1, <1>2, <1>4

LEMMA EndKeeps ==
  ASSUME IInv, NEW n \in Nat, End(n), outstanding = 0 => n = 0, outstanding' = n,
         UNCHANGED report
  PROVE  ending' \in Endings /\ closed' \in BOOLEAN /\ Ends'
<1>1. CASE ending # "none"
  BY <1>1 DEF End, IInv, Typed, Ends, Endings
<1>2. CASE ending = "none" /\ n > 0
  BY <1>2 DEF End, IInv, Typed, Ends, Endings
<1>3. CASE ending = "none" /\ n = 0
  BY <1>3 DEF End, IInv, Typed, Ends, Endings
<1> QED BY <1>1, <1>2, <1>3

LEMMA JoinKeeps == ASSUME IInv, NEW c \in Callers, Join(c) PROVE Kept
<1>1. Asks(c) /\ End(outstanding) /\ UNCHANGED <<state, cancelled, outstanding, scopeCancelled>>
  BY DEF Join
<1>2. outstanding \in Nat
  BY FiniteUnsettled DEF IInv, Counted
<1>3. ending' \in Endings /\ closed' \in BOOLEAN /\ Ends' /\ awaiting' \in Seq(Callers)
      /\ Told' /\ UNCHANGED <<failure, reported, report>>
  BY <1>1, <1>2, AsksKeeps, EndKeeps
<1>4. Typed'
  BY <1>1, <1>3 DEF IInv, Typed
<1>5. Counted' /\ CalledOff'
  BY <1>1, <1>3 DEF IInv, Counted, CalledOff, Unsettled
<1> QED BY <1>1, <1>3, <1>4, <1>5 DEF IInv, Kept, Stands, BeginsNone, TellsOnce

LEMMA DisposeKeeps == ASSUME IInv, NEW c \in Callers, Dispose(c) PROVE Kept
<1> DEFINE called == IF outstanding > 0 /\ ~scopeCancelled THEN Unsettled ELSE {}
           gone == Withdrawn(called)
<1>1. /\ Asks(c)
      /\ scopeCancelled' = (scopeCancelled \/ outstanding > 0)
      /\ cancelled' = cancelled \cup called
      /\ state' = [t \in Tasks |-> IF t \in gone THEN "done" ELSE state[t]]
      /\ outstanding' = outstanding - Cardinality(gone)
      /\ IF ending = "parked" /\ gone # {} /\ outstanding' = 0
         THEN ending' = "woken" /\ closed' = closed
         ELSE End(outstanding')
  BY DEF Dispose, Following, Unsettled
<1>2. called \in SUBSET Unsettled /\ gone \cap Tasks = gone
  BY DEF Withdrawn, Unsettled
<1>3. /\ state' \in [Tasks -> States] /\ gone \in SUBSET Unsettled
      /\ Unsettled' = Unsettled \ gone /\ BeginsNone
  BY <1>1, <1>2, WithdrawnSettle
<1> HIDE DEF gone
<1>4. /\ Counted' /\ outstanding \in Nat /\ outstanding' \in Nat
      /\ outstanding = 0 => gone = {} /\ outstanding' = 0
  BY <1>1, <1>3, CountedOut
<1>5. awaiting' \in Seq(Callers) /\ Told' /\ UNCHANGED <<failure, reported, report>>
  BY <1>1, AsksKeeps
<1>6. ending' \in Endings /\ closed' \in BOOLEAN /\ Ends'
  <2>1. CASE ending = "parked" /\ gone # {} /\ outstanding' = 0
    BY <1>1, <1>5, <2>1 DEF IInv, Typed, Ends, Endings
  <2>2. CASE ~(ending = "parked" /\ gone # {} /\ outstanding' = 0)
    <3>1. End(outstanding')
      BY <1>1, <2>2
    <3> QED BY <1>4, <1>5, <3>1, EndKeeps
  <2> QED BY <2>1, <2>2
<1>7. Typed'
  <2>1. cancelled' \subseteq Tasks
    BY <1>1, <1>2 DEF IInv, Typed, Unsettled
  <2>2. scopeCancelled' \in BOOLEAN
    BY <1>1 DEF IInv, Typed
  <2> QED BY <1>3, <1>5, <1>6, <2>1, <2>2 DEF IInv, Typed
<1>8. CalledOff'
  <2>1. failure' # NoTask => scopeCancelled'
    BY <1>1, <1>5 DEF IInv, CalledOff
  <2>2. CASE scopeCancelled
    BY <1>1, <1>3, <2>1, <2>2 DEF IInv, CalledOff
  <2>3. CASE ~scopeCancelled /\ outstanding > 0
    BY <1>1, <1>3, <2>1, <2>3 DEF CalledOff
  <2>4. CASE ~scopeCancelled /\ ~(outstanding > 0)
    BY <1>1, <2>1, <2>4 DEF CalledOff
  <2> QED BY <2>2, <2>3, <2>4
<1> QED BY <1>3, <1>4, <1>5, <1>6, <1>7, <1>8 DEF IInv, Kept, Stands, TellsOnce

LEMMA WakeKeeps == ASSUME IInv, Wake PROVE Kept
<1>1. /\ UNCHANGED <<state, cancelled, outstanding, scopeCancelled, failure, reported, awaiting, report>>
      /\ ending = "woken"
      /\ \/ outstanding > 0 /\ ending' = "parked" /\ closed' = closed
         \/ ~(outstanding > 0) /\ ending' = "over" /\ closed' = TRUE
  BY DEF Wake
<1>2. outstanding \in Nat
  BY FiniteUnsettled DEF IInv, Counted
<1>3. Typed'
  BY <1>1 DEF IInv, Typed, Endings
<1>4. Counted' /\ CalledOff' /\ Told'
  BY <1>1 DEF IInv, Counted, CalledOff, Told, Unsettled
<1>5. Ends'
  BY <1>1, <1>2 DEF IInv, Ends
<1> QED BY <1>1, <1>3, <1>4, <1>5 DEF IInv, Kept, Stands, BeginsNone, TellsOnce

LEMMA ReturnKeeps == ASSUME IInv, Return PROVE Kept
<1> DEFINE c == Head(awaiting)
<1>1. /\ ending = "over" /\ awaiting # <<>>
      /\ report' = [report EXCEPT ![c] = Answer(c)]
      /\ reported' = TRUE /\ awaiting' = Tail(awaiting)
      /\ UNCHANGED <<state, cancelled, outstanding, scopeCancelled, failure, closed, ending>>
  BY DEF Return
<1>2. c \in Callers /\ awaiting' \in Seq(Callers)
  BY <1>1, HeadTailProperties DEF IInv, Typed
<1>3. Answer(c) \in Reports \ {"none"}
  <2> HIDE DEF c
  <2> QED BY DEF Answer, Reports
<1>4. \A i \in 1 .. Len(awaiting') :
         /\ i + 1 \in 1 .. Len(awaiting) /\ awaiting'[i] = awaiting[i + 1]
         /\ awaiting'[i] # c /\ awaiting'[i] \in Callers
  <2>1. awaiting \in Seq(Callers) /\ 1 \in 1 .. Len(awaiting) /\ c = awaiting[1]
    BY <1>1 DEF IInv, Typed
  <2>2. \A i \in 1 .. Len(awaiting') :
          i + 1 \in 1 .. Len(awaiting) /\ awaiting'[i] = awaiting[i + 1]
    BY <1>1, <2>1
  <2> HIDE DEF c
  <2> QED BY <2>1, <2>2 DEF IInv, Told
<1>5. c \in Callers /\ report[c] = "none"
  BY <1>1 DEF IInv, Typed, Told
<1> HIDE DEF c
<1>6. /\ report' \in [Callers -> Reports] /\ report'[c] = Answer(c)
      /\ \A d \in Callers \ {c} : report'[d] = report[d]
  BY <1>1, <1>2, <1>3 DEF IInv, Typed
<1>7. Typed'
  BY <1>1, <1>2, <1>6 DEF IInv, Typed
<1>8. Ends'
  BY <1>1, <1>6 DEF IInv, Ends
<1>9. Counted' /\ CalledOff'
  BY <1>1 DEF IInv, Counted, CalledOff, Unsettled
<1>10. Told'
  <2>1. \E d \in Callers : report'[d] # "none"
    BY <1>2, <1>3, <1>6
  <2>2. ASSUME failure # NoTask
        PROVE  /\ \A d \in Joins : report'[d] \in {"none", "failure"}
               /\ \E d \in Callers : report'[d] = "failure"
    <3>1. CASE reported
      <4>1. PICK d \in Callers : report[d] = "failure"
        BY <2>2, <3>1 DEF IInv, Told
      <4>2. report'[d] = "failure"
        BY <1>6, <1>5, <4>1
      <4> QED BY <1>6, <2>2, <4>2 DEF IInv, Told, Answer, Callers
    <3>2. CASE ~reported
      BY <1>2, <1>6, <2>2, <3>2 DEF IInv, Told, Answer, Callers
    <3> QED BY <3>1, <3>2
  <2>3. /\ \A i \in 1 .. Len(awaiting') : report'[awaiting'[i]] = "none"
        /\ \A i, j \in 1 .. Len(awaiting') : awaiting'[i] = awaiting'[j] => i = j
    BY <1>6, <1>4 DEF IInv, Told
  <2> QED BY <1>1, <2>1, <2>2, <2>3 DEF Told
<1>11. TellsOnce
  <2> SUFFICES ASSUME NEW d \in Disposals, report[d] # "failure", report'[d] = "failure"
               PROVE  \A e \in Callers : report[e] = "none"
    BY DEF TellsOnce
  <2>1. d = c
    BY <1>6 DEF Callers
  <2>2. ~reported
    BY <1>6, <2>1, ScopeAssumption DEF Answer
  <2> QED BY <2>2 DEF IInv, Told
<1> QED BY <1>1, <1>7, <1>8, <1>9, <1>10, <1>11 DEF IInv, Kept, Stands, BeginsNone

-----------------------------------------------------------------------------

LEMMA NextKeeps == IInv /\ [Next]_vars => Kept
<1> SUFFICES ASSUME IInv, [Next]_vars PROVE Kept
  OBVIOUS
<1>1. CASE CancelScope
  BY <1>1, CancelScopeKeeps
<1>2. CASE Wake
  BY <1>2, WakeKeeps
<1>3. CASE Return
  BY <1>3, ReturnKeeps
<1>4. ASSUME NEW t \in Tasks, Spawn(t) \/ CancelTask(t) \/ Work(t) \/ Reaction(t)
      PROVE  Kept
  BY <1>4, SpawnKeeps, CancelTaskKeeps, WorkKeeps, BeginKeeps, ReadValueKeeps,
     ReadErrorKeeps, FinishKeeps DEF Reaction
<1>5. ASSUME NEW c \in Callers, Join(c) \/ Dispose(c) PROVE Kept
  BY <1>5, JoinKeeps, DisposeKeeps
<1>6. CASE UNCHANGED vars
  <2>1. UNCHANGED <<state, cancelled, outstanding, scopeCancelled, failure, ending,
                    reported, closed, awaiting, report>>
    BY <1>6 DEF vars, endVars
  <2>2. Typed' /\ Counted' /\ Ends' /\ CalledOff' /\ Told'
    BY <2>1 DEF IInv, Typed, Counted, Ends, CalledOff, Told, Unsettled
  <2>3. Stands /\ BeginsNone /\ TellsOnce
    BY <2>1 DEF Stands, BeginsNone, TellsOnce
  <2> QED BY <2>2, <2>3 DEF IInv, Kept
<1> QED BY <1>1, <1>2, <1>3, <1>4, <1>5, <1>6 DEF Next

LEMMA AlwaysIInv == Spec => []IInv
<1>1. IInv /\ [Next]_vars => IInv'
  BY NextKeeps DEF Kept
<1> QED BY <1>1, InitIInv, PTL DEF Spec

\* For any number of tasks and callers, a scope that has closed has nothing
\* left, and nobody is answered before: end, of src/task/index.ts.
THEOREM NoTaskOutlivesTheScopeHolds == Spec => []NoTaskOutlivesTheScope
<1>1. IInv => NoTaskOutlivesTheScope
  <2> SUFFICES ASSUME IInv PROVE NoTaskOutlivesTheScope
    OBVIOUS
  <2>1. outstanding = 0 => Unsettled = {}
    BY FiniteUnsettled, FS_EmptySet DEF IInv, Counted
  <2> QED BY <2>1 DEF IInv, Ends, NoTaskOutlivesTheScope
<1> QED BY <1>1, AlwaysIInv, PTL

\* For any number of tasks and callers, the first failure stands, calls every
\* other task off and keeps later ones from beginning, and is told to the first
\* who hears of the end and to every join: begin and end, of src/task/index.ts.
THEOREM FailureEndsTheScopeHolds == Spec => FailureEndsTheScope
<1>1. IInv /\ [Next]_vars =>
        /\ failure' # failure => failure = NoTask /\ failure' \notin cancelled
        /\ failure' # NoTask => Unsettled' \subseteq cancelled'
  BY NextKeeps DEF Kept, Stands, IInv, CalledOff
<1>2. IInv /\ [Next]_vars =>
        \A t \in Tasks : state[t] # "working" /\ state'[t] = "working" => ~scopeCancelled
  BY NextKeeps DEF Kept, BeginsNone
<1>3. IInv /\ [Next]_vars =>
        /\ \A c \in Callers : report'[c] # "none" /\ failure # NoTask =>
             /\ c \in Joins => report'[c] = "failure"
             /\ \E d \in Callers : report'[d] = "failure"
        /\ \A d \in Disposals : report[d] # "failure" /\ report'[d] = "failure" =>
             \A c \in Callers : report[c] = "none"
  <2> SUFFICES ASSUME IInv, [Next]_vars,
                      NEW c \in Callers, report'[c] # "none", failure # NoTask
               PROVE  /\ c \in Joins => report'[c] = "failure"
                      /\ \E d \in Callers : report'[d] = "failure"
    BY NextKeeps DEF Kept, TellsOnce
  <2>1. failure' # NoTask
    BY NextKeeps DEF Kept, Stands
  <2> QED BY <2>1, NextKeeps DEF Kept, IInv, Told
<1>4. FailureEndsTheScope <=>
        FirstFailureStands /\ NoWorkOnceCalledOff /\ FailureIsTold
  BY DEF FailureEndsTheScope
<1>5. Spec => FirstFailureStands
  BY <1>1, AlwaysIInv, PTL DEF Spec, FirstFailureStands
<1>6. Spec => NoWorkOnceCalledOff
  BY <1>2, AlwaysIInv, PTL DEF Spec, NoWorkOnceCalledOff
<1>7. Spec => FailureIsTold
  BY <1>3, AlwaysIInv, PTL DEF Spec, FailureIsTold
<1> QED BY <1>4, <1>5, <1>6, <1>7, PTL

-----------------------------------------------------------------------------
(* The queue, as a pure function of what it is given.                      *)

\* A set of numbers has a least one, and a greatest if it is bounded.
LEMMA LeastOf ==
  ASSUME NEW S \in SUBSET Nat, S # {} PROVE \E m \in S : \A k \in S : m <= k
<1> DEFINE Below(m) == {k \in S : k <= m}
           Belows == {Below(m) : m \in S}
<1>1. Belows \subseteq FiniteSubsetsOf(S) /\ Belows # {}
  <2>1. ASSUME NEW m \in S PROVE IsFiniteSet(Below(m))
    <3>1. Below(m) \in SUBSET Nat /\ \A k \in Below(m) : k <= m
      OBVIOUS
    <3> QED BY <3>1, FS_BoundedSetOfNaturals
  <2> QED BY <2>1 DEF FiniteSubsetsOf
<1>2. PICK X \in Belows : \A Y \in Belows : <<Y, X>> \notin StrictSubsetOrdering(S)
  BY <1>1, FS_StrictSubsetOrderingWellFounded, WFMin
<1>3. PICK m \in S : X = Below(m)
  BY <1>2
<1>4. ASSUME NEW k \in S, k < m PROVE FALSE
  <2>1. Below(k) \in Belows /\ Below(k) \in SUBSET S /\ X \in SUBSET S
    BY <1>3
  <2>2. k \in Nat /\ m \in Nat /\ S \subseteq Nat
    OBVIOUS
  <2>3. Below(k) \subseteq Below(m) /\ m \in Below(m) /\ m \notin Below(k)
    <3>1. \A j \in S : j <= k => j <= m
      BY <2>2, <1>4
    <3>2. m <= m /\ ~(m <= k)
      BY <2>2, <1>4
    <3> QED BY <3>1, <3>2
  <2> QED BY <1>2, <1>3, <2>1, <2>3 DEF StrictSubsetOrdering
<1> QED BY <1>4

LEMMA GreatestOf ==
  ASSUME NEW S \in SUBSET Nat, S # {}, NEW n \in Nat, \A k \in S : k <= n
  PROVE  \E m \in S : \A k \in S : k <= m
<1> DEFINE T == {n - k : k \in S}
<1>1. T \in SUBSET Nat /\ T # {}
  <2>1. \A k \in S : k \in Nat /\ k <= n
    OBVIOUS
  <2>2. \A k \in S : n - k \in Nat
    BY <2>1
  <2> QED BY <2>2
<1>2. PICK d \in T : \A e \in T : d <= e
  <2> HIDE DEF T
  <2> QED BY <1>1, LeastOf
<1>3. PICK m \in S : d = n - m
  BY <1>2
<1>4. \A k \in S : n - k \in T
  OBVIOUS
<1> QED BY <1>2, <1>3, <1>4

\* What is started are the first that live, and all there is room for.
LEMMA Room ==
  ASSUME NEW q \in Seq(Tasks), NEW h \in Nat, NEW st, NEW run \in Nat, run <= Limit
  PROVE  /\ Live(q, h, st) \in SUBSET (1 .. Len(q)) /\ IsFiniteSet(Live(q, h, st))
         /\ Started(q, h, st, run) \in SUBSET Live(q, h, st)
         /\ run + Cardinality(Started(q, h, st, run)) <= Limit
         /\ \A i \in Started(q, h, st, run), j \in Live(q, h, st) \ Started(q, h, st, run) : i < j
         /\ Live(q, h, st) \ Started(q, h, st, run) # {} =>
              run + Cardinality(Started(q, h, st, run)) = Limit
<1> DEFINE live == Live(q, h, st)
           begun == Started(q, h, st, run)
           Before(i) == {j \in live : j < i}
<1>1. live \in SUBSET (1 .. Len(q)) /\ IsFiniteSet(live) /\ live \in SUBSET Nat
  <2>1. Len(q) \in Nat /\ live \in SUBSET (1 .. Len(q))
    BY DEF Live
  <2> HIDE DEF live
  <2>2. IsFiniteSet(1 .. Len(q))
    BY <2>1, FS_Interval
  <2>3. live \in SUBSET Nat
    BY <2>1
  <2> QED BY <2>1, <2>2, <2>3, FS_Subset
<1>2. begun = {i \in live : run + Cardinality(Before(i)) < Limit}
  BY DEF Started
<1>3. Limit \in Nat
  BY ScopeAssumption
<1> HIDE DEF live, begun
<1>4. \A i \in live : IsFiniteSet(Before(i)) /\ Cardinality(Before(i)) \in Nat
  <2>1. \A i \in live : Before(i) \in SUBSET live
    OBVIOUS
  <2> HIDE DEF Before
  <2> QED BY <1>1, <2>1, FS_Subset, FS_CardinalityType
<1>5. \A i, j \in live : i <= j => Cardinality(Before(i)) <= Cardinality(Before(j))
  <2> SUFFICES ASSUME NEW i \in live, NEW j \in live, i <= j
               PROVE  Cardinality(Before(i)) <= Cardinality(Before(j))
    OBVIOUS
  <2>1. Before(i) \in SUBSET Before(j)
    <3>1. \A k \in live : k \in Nat
      BY <1>1
    <3>2. \A k \in live : k < i => k < j
      BY <3>1
    <3> QED BY <3>2
  <2> HIDE DEF Before
  <2> QED BY <1>4, <2>1, FS_Subset
<1> HIDE DEF Before
<1>6. \A i \in begun, j \in live \ begun : i < j
  BY <1>1, <1>2, <1>3, <1>4, <1>5
<1>7. begun \in SUBSET live /\ IsFiniteSet(begun) /\ Cardinality(begun) \in Nat
  <2>1. begun \in SUBSET live
    BY <1>2
  <2> QED BY <1>1, <2>1, FS_Subset, FS_CardinalityType
<1>8. run + Cardinality(begun) <= Limit
  <2>1. CASE begun = {}
    <3>1. Cardinality(begun) = 0
      BY <2>1, FS_EmptySet
    <3> QED BY <3>1, <1>3
  <2>2. CASE begun # {}
    <3>1. begun \in SUBSET Nat /\ Len(q) \in Nat /\ \A k \in begun : k <= Len(q)
      BY <1>1, <1>7
    <3>2. PICK m \in begun : \A k \in begun : k <= m
      BY <2>2, <3>1, GreatestOf
    <3>3. begun \in SUBSET (Before(m) \cup {m})
      BY <1>1, <1>7, <3>2 DEF Before
    <3>4. /\ IsFiniteSet(Before(m)) /\ Cardinality(Before(m)) \in Nat
          /\ run + Cardinality(Before(m)) < Limit
      BY <1>2, <1>4, <1>7
    <3>5. m \notin Before(m)
      BY <1>1, <1>7 DEF Before
    <3>6. /\ IsFiniteSet(Before(m) \cup {m})
          /\ Cardinality(Before(m) \cup {m}) = Cardinality(Before(m)) + 1
      BY <3>4, <3>5, FS_AddElement
    <3>7. Cardinality(begun) <= Cardinality(Before(m) \cup {m})
      BY <3>3, <3>6, FS_Subset
    <3> QED BY <1>3, <1>7, <3>4, <3>6, <3>7
  <2> QED BY <2>1, <2>2
<1>9. ASSUME live \ begun # {} PROVE run + Cardinality(begun) = Limit
  <2>1. live \ begun \in SUBSET Nat
    BY <1>1
  <2>2. PICK m \in live \ begun : \A k \in live \ begun : m <= k
    BY <1>9, <2>1, LeastOf
  <2>3. begun = Before(m)
    <3>1. begun \subseteq Before(m)
      BY <1>6, <1>7 DEF Before
    <3>2. ASSUME NEW k \in live, k < m PROVE k \in begun
      BY <1>1, <2>2, <3>2
    <3> QED BY <3>1, <3>2 DEF Before
  <2>4. ~(run + Cardinality(Before(m)) < Limit)
    BY <1>2
  <2> QED BY <1>3, <1>7, <1>8, <2>3, <2>4
<1> QED BY <1>1, <1>6, <1>7, <1>8, <1>9 DEF live, begun

\* The head stops before whatever is left.
LEMMA HeadStops ==
  ASSUME NEW q \in Seq(Tasks), NEW h \in Nat, NEW st, NEW run
  PROVE  /\ HeadAfter(q, h, st, run) \in 0 .. Len(q)
         /\ \A i \in Live(q, h, st) \ Started(q, h, st, run) : HeadAfter(q, h, st, run) < i
<1> DEFINE left == Live(q, h, st) \ Started(q, h, st, run)
<1>1. /\ HeadAfter(q, h, st, run) = IF left = {} THEN Len(q)
                                    ELSE (CHOOSE i \in left : \A j \in left : i <= j) - 1
      /\ Len(q) \in Nat
  BY DEF HeadAfter
<1>2. left \in SUBSET (1 .. Len(q)) /\ left \in SUBSET Nat
  BY <1>1 DEF Live
<1> HIDE DEF left
<1>3. CASE left = {}
  BY <1>1, <1>3 DEF left
<1>4. CASE left # {}
  <2> DEFINE m == CHOOSE i \in left : \A j \in left : i <= j
  <2>1. \E i \in left : \A j \in left : i <= j
    BY <1>2, <1>4, LeastOf
  <2>2. m \in left /\ \A j \in left : m <= j
    BY <2>1
  <2>3. HeadAfter(q, h, st, run) = m - 1
    BY <1>1, <1>4
  <2> HIDE DEF m
  <2>4. m \in 1 .. Len(q) /\ \A i \in left : i \in Nat /\ m <= i
    BY <1>2, <2>2
  <2>5. m - 1 \in 0 .. Len(q)
    BY <1>1, <2>4
  <2>6. \A i \in left : m - 1 < i
    BY <1>1, <2>4
  <2> QED BY <2>3, <2>5, <2>6 DEF left
<1> QED BY <1>3, <1>4

-----------------------------------------------------------------------------
(* The queue is served.                                                    *)

Busy == {"begun", "working", "resolved", "threw", "read"}
RunningIn(st) == {t \in Tasks : st[t] \in Busy}

Rising(q) == \A i, j \in 1 .. Len(q) : i < j => q[i] < q[j]

\* The tasks are in the queue in the order they were spawned, each once.
InOrder ==
  /\ Rising(entries)
  /\ \A i \in 1 .. Len(entries) : state[entries[i]] # "unborn"
  /\ \A t, u \in Tasks : t < u /\ state[t] = "unborn" => state[u] = "unborn"

QueueTyped ==
  /\ entries \in Seq(Tasks)
  /\ head \in 0 .. Len(entries)
  /\ running \in Nat
  /\ outcome \in [Tasks -> {"pending", "value", "error", "cancelled"}]

Served == QueueTyped /\ InOrder /\ FullWhileAnyoneWaits /\ NobodyOvertakes

LEMMA FiniteRunning ==
  ASSUME NEW st
  PROVE  IsFiniteSet(RunningIn(st)) /\ Cardinality(RunningIn(st)) \in Nat
<1>1. IsFiniteSet(Tasks)
  BY ScopeAssumption, FS_Interval DEF Tasks
<1>2. RunningIn(st) \in SUBSET Tasks
  BY DEF RunningIn
<1> QED BY <1>1, <1>2, FS_Subset, FS_CardinalityType

\* Letting the front go loses nothing that is behind it, nor its order.
LEMMA CompactKeeps ==
  ASSUME NEW q \in Seq(Tasks), NEW h \in 0 .. Len(q), NEW k,
         k = IF Compact(q, h) = q THEN h ELSE 0, NEW e, e = Compact(q, h)
  PROVE  /\ e \in Seq(Tasks) /\ k \in 0 .. Len(e)
         /\ Rising(q) => Rising(e)
         /\ \A i \in 1 .. Len(e) : \E j \in 1 .. Len(q) : e[i] = q[j]
         /\ \A j \in (h + 1) .. Len(q) : \E i \in (k + 1) .. Len(e) : e[i] = q[j]
<1>1. Len(q) \in Nat /\ h \in Nat /\ h <= Len(q) /\ CompactAfter \in Nat
  BY ScopeAssumption
<1>2. CASE e = q
  BY <1>1, <1>2
<1>3. CASE e # q /\ h = Len(q)
  <2>1. e = <<>> /\ k = 0
    BY <1>3 DEF Compact
  <2>2. e \in Seq(Tasks) /\ Len(e) = 0
    BY <2>1
  <2>3. \A j \in (h + 1) .. Len(q) : FALSE
    BY <1>1, <1>3
  <2> QED BY <2>1, <2>2, <2>3 DEF Rising
<1>4. CASE e # q /\ h # Len(q)
  <2>1. e = SubSeq(q, h + 1, Len(q)) /\ k = 0
    BY <1>4 DEF Compact
  <2>2. \A i \in (h + 1) .. Len(q) : q[i] \in Tasks
    BY <1>1
  <2>3. /\ e \in Seq(Tasks) /\ Len(e) = Len(q) - h
        /\ \A i \in 1 .. Len(e) : e[i] = q[i + h]
    <3>1. h + 1 \in Int /\ Len(q) \in Int
      BY <1>1
    <3>2. /\ e \in Seq(Tasks)
          /\ Len(e) = IF h + 1 <= Len(q) THEN Len(q) - (h + 1) + 1 ELSE 0
          /\ \A i \in 1 .. Len(q) - (h + 1) + 1 : e[i] = q[(h + 1) + i - 1]
      BY <2>1, <2>2, <3>1, SubSeqProperties
    <3>3. Len(e) = Len(q) - h /\ Len(q) - (h + 1) + 1 = Len(q) - h
      BY <1>1, <3>2
    <3>4. \A i \in 1 .. Len(e) : (h + 1) + i - 1 = i + h
      BY <1>1
    <3> QED BY <3>2, <3>3, <3>4
  <2>4. \A i \in 1 .. Len(e) : i + h \in 1 .. Len(q) /\ e[i] = q[i + h]
    BY <1>1, <2>3
  <2>5. \A j \in (h + 1) .. Len(q) : j - h \in (k + 1) .. Len(e) /\ e[j - h] = q[j]
    <3>1. \A j \in (h + 1) .. Len(q) :
            j - h \in (k + 1) .. Len(e) /\ j - h \in 1 .. Len(e) /\ (j - h) + h = j
      BY <1>1, <2>1, <2>3
    <3> QED BY <2>4, <3>1
  <2>6. ASSUME Rising(q), NEW i \in 1 .. Len(e), NEW j \in 1 .. Len(e), i < j
        PROVE  e[i] < e[j]
    <3>1. i + h < j + h
      BY <1>1, <2>6
    <3> QED BY <2>4, <2>6, <3>1 DEF Rising
  <2>7. k \in 0 .. Len(e)
    BY <1>1, <2>1, <2>3
  <2> QED BY <2>3, <2>4, <2>5, <2>6, <2>7 DEF Rising
<1> QED BY <1>2, <1>3, <1>4

\* What a pump does to a queue that holds whoever waits, in order.
LEMMA PumpServes ==
  ASSUME NEW q \in Seq(Tasks), head \in 0 .. Len(q), Rising(q),
         NEW st \in [Tasks -> States], NEW run \in Nat, run <= Limit,
         run = Cardinality(RunningIn(st)),
         \A t \in Tasks : st[t] = "waiting" => \E i \in (head + 1) .. Len(q) : q[i] = t,
         Pump(q, st, run)
  PROVE  /\ entries' \in Seq(Tasks) /\ head' \in 0 .. Len(entries') /\ running' \in Nat
         /\ Rising(entries')
         /\ \A i \in 1 .. Len(entries') : \E j \in 1 .. Len(q) : entries'[i] = q[j]
         /\ FullWhileAnyoneWaits'
         /\ \A t \in Tasks : state'[t] = st[t] \/ (st[t] = "waiting" /\ state'[t] = "begun")
         /\ \A t, u \in Tasks : t < u /\ state'[t] = "waiting" => state'[u] = st[u]
<1> DEFINE live == Live(q, head, st)
           S == Started(q, head, st, run)
           B == {q[i] : i \in S}
           h == HeadAfter(q, head, st, run)
<1>1. /\ state' = [t \in Tasks |-> IF t \in B THEN "begun" ELSE st[t]]
      /\ running' = run + Cardinality(B)
      /\ entries' = Compact(q, h)
      /\ head' = IF entries' = q THEN h ELSE 0
  BY DEF Pump
<1>2. /\ live \in SUBSET (1 .. Len(q)) /\ IsFiniteSet(live) /\ S \in SUBSET live
      /\ run + Cardinality(S) <= Limit
      /\ \A i \in S, j \in live \ S : i < j
      /\ live \ S # {} => run + Cardinality(S) = Limit
  BY Room
<1>3. h \in 0 .. Len(q) /\ \A i \in live \ S : h < i
  BY HeadStops
<1>4. \A i \in live : q[i] \in Tasks /\ st[q[i]] = "waiting"
  BY <1>2 DEF Live
<1>5. \A t \in Tasks : st[t] = "waiting" => \E i \in live : q[i] = t
  BY DEF Live
<1> HIDE DEF live, S, h
<1>6. B \in SUBSET Tasks /\ \A t \in B : st[t] = "waiting"
  BY <1>2, <1>4
<1>7. IsFiniteSet(B) /\ Cardinality(B) = Cardinality(S) /\ Cardinality(B) \in Nat
  <2>1. IsFiniteSet(S)
    BY <1>2, FS_Subset
  <2>2. \A i, j \in S : q[i] = q[j] => i = j
    <3>1. \A i \in S : i \in 1 .. Len(q) /\ i \in Nat /\ q[i] \in Nat
      BY <1>2, <1>4 DEF Tasks
    <3>2. \A i, j \in S : i < j => q[i] < q[j]
      BY <3>1 DEF Rising
    <3> QED BY <3>1, <3>2
  <2>3. [i \in S |-> q[i]] \in Bijection(S, B)
    <3> DEFINE f == [i \in S |-> q[i]]
    <3>1. f \in [S -> B] /\ \A i \in S : f[i] = q[i]
      OBVIOUS
    <3>2. \A b \in B : \E i \in S : q[i] = b
      OBVIOUS
    <3> HIDE DEF f, B
    <3>3. f \in Injection(S, B)
      BY <2>2, <3>1 DEF Injection, IsInjective
    <3>4. f \in Surjection(S, B)
      BY <3>1, <3>2 DEF Surjection
    <3>5. f \in Bijection(S, B)
      BY <3>3, <3>4 DEF Bijection
    <3> QED BY <3>5 DEF f
  <2>4. ExistsBijection(S, B)
    BY <2>3 DEF ExistsBijection
  <2> QED BY <2>1, <2>4, FS_Bijection, FS_CardinalityType
<1> HIDE DEF B
<1>8. \A t \in Tasks : state'[t] = IF t \in B THEN "begun" ELSE st[t]
  BY <1>1
<1>9. Cardinality(RunningIn(st) \cup B) = run + Cardinality(B)
  <2>1. RunningIn(st) \cap B = {}
    BY <1>6 DEF RunningIn, Busy
  <2>2. Cardinality(RunningIn(st) \cap B) = 0
    BY <2>1, FS_EmptySet
  <2>3. IsFiniteSet(RunningIn(st)) /\ Cardinality(RunningIn(st)) \in Nat
    BY FiniteRunning
  <2>4. Cardinality(RunningIn(st) \cup B)
          = Cardinality(RunningIn(st)) + Cardinality(B) - Cardinality(RunningIn(st) \cap B)
    BY <1>7, <2>3, FS_Union
  <2> QED BY <1>7, <2>2, <2>3, <2>4
<1>10. Running' = RunningIn(st) \cup B
  BY <1>6, <1>8 DEF Running, RunningIn, Busy
<1>11. running' = Cardinality(Running') /\ running' \in Nat /\ running' <= Limit
  BY <1>1, <1>2, <1>7, <1>9, <1>10
<1>12. /\ entries' \in Seq(Tasks) /\ head' \in 0 .. Len(entries')
       /\ Rising(entries')
       /\ \A i \in 1 .. Len(entries') : \E j \in 1 .. Len(q) : entries'[i] = q[j]
       /\ \A j \in (h + 1) .. Len(q) :
            \E i \in (head' + 1) .. Len(entries') : entries'[i] = q[j]
  <2>1. entries' = Compact(q, h)
    BY <1>1
  <2>2. head' = IF Compact(q, h) = q THEN h ELSE 0
    BY <1>1
  <2>3. h \in 0 .. Len(q)
    BY <1>3
  <2> QED BY <2>1, <2>2, <2>3, CompactKeeps, SMTT(30)
<1>14. ASSUME NEW t \in Tasks, state'[t] = "waiting"
       PROVE  \E i \in live \ S : q[i] = t
  <2>1. st[t] = "waiting" /\ t \notin B
    BY <1>8, <1>14
  <2> QED BY <1>5, <2>1 DEF B
<1>15. ASSUME NEW t \in Tasks, state'[t] = "waiting"
       PROVE  running' = Limit /\ \E i \in (head' + 1) .. Len(entries') : entries'[i] = t
  <2>1. PICK i \in live \ S : q[i] = t
    BY <1>14, <1>15
  <2>2. running' = Limit
    BY <1>1, <1>2, <1>7
  <2>3. i \in (h + 1) .. Len(q)
    BY <1>2, <1>3
  <2> QED BY <1>12, <2>1, <2>2, <2>3
<1>16. FullWhileAnyoneWaits'
  BY <1>11, <1>15 DEF FullWhileAnyoneWaits
<1>17. ASSUME NEW t \in Tasks, NEW u \in Tasks, t < u, state'[t] = "waiting"
       PROVE  state'[u] = st[u]
  <2> SUFFICES ASSUME u \in B PROVE FALSE
    BY <1>8
  <2>1. PICK i \in live \ S : q[i] = t
    BY <1>14, <1>17
  <2>2. PICK j \in S : q[j] = u
    BY DEF B
  <2>3. j < i /\ i \in 1 .. Len(q) /\ j \in 1 .. Len(q)
    BY <1>2
  <2>4. u < t
    BY <2>1, <2>2, <2>3 DEF Rising
  <2> QED BY <1>17, <2>4 DEF Tasks
<1>18. \A t \in Tasks : state'[t] = st[t] \/ (st[t] = "waiting" /\ state'[t] = "begun")
  <2> SUFFICES ASSUME NEW t \in Tasks
               PROVE  state'[t] = st[t] \/ (st[t] = "waiting" /\ state'[t] = "begun")
    OBVIOUS
  <2>1. CASE t \in B
    BY <1>6, <1>8, <2>1
  <2>2. CASE t \notin B
    BY <1>8, <2>2
  <2> QED BY <2>1, <2>2
<1> QED BY <1>11, <1>12, <1>16, <1>17, <1>18

\* Steps that leave the queue alone: nobody comes to wait, and who no longer
\* waits was called off.
LEMMA AloneServes ==
  ASSUME IInv, Served, UNCHANGED <<entries, head, running>>,
         outcome' \in [Tasks -> {"pending", "value", "error", "cancelled"}],
         Running' = Running, cancelled \subseteq cancelled',
         \A t \in Tasks :
           \/ state[t] = state'[t]
           \/ state[t] \in Busy /\ state'[t] \in Busy
           \/ state[t] = "waiting" /\ state'[t] = "done" /\ t \in cancelled'
  PROVE  Served'
<1>1. QueueTyped'
  BY DEF Served, QueueTyped
<1>2. \A t \in Tasks : /\ state'[t] = "waiting" => state[t] = "waiting"
                       /\ state'[t] = "unborn" <=> state[t] = "unborn"
  BY DEF Busy
<1>3. InOrder'
  <2>1. \A i \in 1 .. Len(entries) : entries[i] \in Tasks
    BY DEF Served, QueueTyped
  <2> QED BY <1>2, <2>1 DEF Served, InOrder, Rising
<1>4. FullWhileAnyoneWaits'
  BY <1>2 DEF Served, FullWhileAnyoneWaits
<1>5. NobodyOvertakes'
  <2> SUFFICES ASSUME NEW t \in Tasks, NEW u \in Tasks, t < u, state'[t] = "waiting"
               PROVE  \/ state'[u] \in {"unborn", "waiting"}
                      \/ state'[u] = "done" /\ u \in cancelled'
    BY DEF NobodyOvertakes
  <2>1. \/ state[u] \in {"unborn", "waiting"}
        \/ state[u] = "done" /\ u \in cancelled
    BY <1>2 DEF Served, NobodyOvertakes
  <2> QED BY <2>1 DEF Busy
<1> QED BY <1>1, <1>3, <1>4, <1>5 DEF Served

LEMMA SpawnServes == ASSUME IInv, Served, NEW t \in Tasks, Spawn(t) PROVE Served'
<1> DEFINE q == Append(entries, t)
           st == [state EXCEPT ![t] = "waiting"]
<1>1. /\ state[t] = "unborn" /\ \A u \in 1 .. (t - 1) : state[u] # "unborn"
      /\ Pump(q, st, running) /\ UNCHANGED outcome /\ cancelled \subseteq cancelled'
  BY DEF Spawn
<1>2. state \in [Tasks -> States] /\ entries \in Seq(Tasks) /\ head \in 0 .. Len(entries)
      /\ running \in Nat /\ running <= Limit
  BY DEF IInv, Typed, Served, QueueTyped, FullWhileAnyoneWaits
<1>3. /\ q \in Seq(Tasks) /\ Len(q) = Len(entries) + 1 /\ q[Len(entries) + 1] = t
      /\ \A i \in 1 .. Len(entries) : q[i] = entries[i] /\ entries[i] \in Tasks
      /\ Len(entries) \in Nat
  BY <1>2
<1>4. /\ st \in [Tasks -> States] /\ st[t] = "waiting"
      /\ \A u \in Tasks : u # t => st[u] = state[u]
  BY <1>2 DEF States
<1> HIDE DEF q, st
<1>5. \A i \in 1 .. Len(entries) : entries[i] < t
  <2> SUFFICES ASSUME NEW i \in 1 .. Len(entries) PROVE entries[i] < t
    OBVIOUS
  <2>1. entries[i] \in Tasks /\ state[entries[i]] # "unborn"
    BY <1>3 DEF Served, InOrder
  <2>2. ~(t < entries[i]) /\ entries[i] # t
    BY <1>1, <2>1 DEF Served, InOrder
  <2> QED BY <2>1, <2>2 DEF Tasks
<1>6. Rising(q)
  <2> SUFFICES ASSUME NEW i \in 1 .. Len(q), NEW j \in 1 .. Len(q), i < j
               PROVE  q[i] < q[j]
    BY DEF Rising
  <2>1. i \in 1 .. Len(entries)
    BY <1>3
  <2>2. CASE j \in 1 .. Len(entries)
    BY <1>3, <2>1, <2>2 DEF Served, InOrder, Rising
  <2>3. CASE j = Len(entries) + 1
    BY <1>3, <1>5, <2>1, <2>3
  <2> QED BY <1>3, <2>2, <2>3
<1>7. head \in 0 .. Len(q)
  BY <1>2, <1>3
<1>8. running = Cardinality(RunningIn(st))
  <2>1. RunningIn(st) = Running
    BY <1>1, <1>4 DEF RunningIn, Running, Busy
  <2> QED BY <2>1 DEF Served, FullWhileAnyoneWaits
<1>9. \A u \in Tasks : st[u] = "waiting" => \E i \in (head + 1) .. Len(q) : q[i] = u
  <2> SUFFICES ASSUME NEW u \in Tasks, st[u] = "waiting"
               PROVE  \E i \in (head + 1) .. Len(q) : q[i] = u
    OBVIOUS
  <2>1. CASE u = t
    <3>1. Len(entries) + 1 \in (head + 1) .. Len(q)
      BY <1>2, <1>3
    <3> QED BY <1>3, <2>1, <3>1
  <2>2. CASE u # t
    <3>1. PICK i \in (head + 1) .. Len(entries) : entries[i] = u
      BY <1>4, <2>2 DEF Served, FullWhileAnyoneWaits
    <3>2. i \in 1 .. Len(entries) /\ i \in (head + 1) .. Len(q)
      BY <1>2, <1>3
    <3> QED BY <1>3, <3>1, <3>2
  <2> QED BY <2>1, <2>2
<1>10. /\ entries' \in Seq(Tasks) /\ head' \in 0 .. Len(entries') /\ running' \in Nat
       /\ Rising(entries')
       /\ \A i \in 1 .. Len(entries') : \E j \in 1 .. Len(q) : entries'[i] = q[j]
       /\ FullWhileAnyoneWaits'
       /\ \A u \in Tasks : state'[u] = st[u] \/ (st[u] = "waiting" /\ state'[u] = "begun")
       /\ \A u, v \in Tasks : u < v /\ state'[u] = "waiting" => state'[v] = st[v]
  BY <1>1, <1>2, <1>3, <1>4, <1>6, <1>7, <1>8, <1>9, PumpServes
<1>11. QueueTyped'
  BY <1>1, <1>10 DEF Served, QueueTyped
<1>12. InOrder'
  <2>1. \A j \in 1 .. Len(q) : q[j] \in Tasks /\ st[q[j]] # "unborn"
    <3>1. \A j \in 1 .. Len(q) : j \in 1 .. Len(entries) \/ j = Len(entries) + 1
      BY <1>3
    <3> QED BY <1>3, <1>4, <3>1 DEF Served, InOrder
  <2>2. \A i \in 1 .. Len(entries') : state'[entries'[i]] # "unborn"
    BY <1>10, <2>1
  <2>3. \A u, v \in Tasks : u < v /\ state'[u] = "unborn" => state'[v] = "unborn"
    <3> SUFFICES ASSUME NEW u \in Tasks, NEW v \in Tasks, u < v, state'[u] = "unborn"
                 PROVE  state'[v] = "unborn"
      OBVIOUS
    <3>1. u # t /\ state[u] = "unborn"
      BY <1>4, <1>10
    <3>2. state[v] = "unborn" /\ v # t
      <4>1. ~(u < t)
        BY <1>1, <3>1 DEF Tasks
      <4> QED BY <3>1, <4>1 DEF Served, InOrder
    <3> QED BY <1>4, <1>10, <3>2
  <2> QED BY <1>10, <2>2, <2>3 DEF InOrder
<1>13. NobodyOvertakes'
  <2> SUFFICES ASSUME NEW u \in Tasks, NEW v \in Tasks, u < v, state'[u] = "waiting"
               PROVE  \/ state'[v] \in {"unborn", "waiting"}
                      \/ state'[v] = "done" /\ v \in cancelled'
    BY DEF NobodyOvertakes
  <2>1. state'[v] = st[v] /\ st[u] = "waiting"
    BY <1>10
  <2>2. CASE v = t
    BY <1>4, <2>1, <2>2
  <2>3. CASE v # t /\ u # t
    BY <1>1, <1>4, <2>1, <2>3 DEF Served, NobodyOvertakes
  <2>4. CASE v # t /\ u = t
    BY <1>1, <1>4, <2>1, <2>4 DEF Served, InOrder
  <2> QED BY <2>2, <2>3, <2>4
<1> QED BY <1>10, <1>11, <1>12, <1>13 DEF Served

LEMMA FinishServes == ASSUME IInv, Served, NEW t \in Tasks, Finish(t) PROVE Served'
<1> DEFINE st == [state EXCEPT ![t] = "done"]
<1>1. /\ state[t] = "read" /\ Pump(entries, st, running - 1)
      /\ UNCHANGED <<outcome, cancelled>>
  BY DEF Finish
<1>2. state \in [Tasks -> States] /\ entries \in Seq(Tasks) /\ head \in 0 .. Len(entries)
      /\ running \in Nat /\ running <= Limit /\ running = Cardinality(Running)
  BY DEF IInv, Typed, Served, QueueTyped, FullWhileAnyoneWaits
<1>3. /\ st \in [Tasks -> States] /\ st[t] = "done"
      /\ \A u \in Tasks : u # t => st[u] = state[u]
  BY <1>2 DEF States
<1> HIDE DEF st
<1>4. running - 1 = Cardinality(RunningIn(st)) /\ running - 1 \in Nat
  <2>1. RunningIn(state) = Running /\ RunningIn(st) = Running \ {t} /\ t \in Running
    BY <1>1, <1>3 DEF RunningIn, Running, Busy
  <2>2. IsFiniteSet(Running)
    BY <2>1, FiniteRunning
  <2>3. Cardinality(Running \ {t}) = Cardinality(Running) - 1
    BY <2>1, <2>2, FS_RemoveElement
  <2> QED BY <1>2, <2>1, <2>3, FiniteRunning
<1>5. \A u \in Tasks : st[u] = "waiting" =>
        state[u] = "waiting" /\ \E i \in (head + 1) .. Len(entries) : entries[i] = u
  BY <1>3 DEF Served, FullWhileAnyoneWaits
<1>6. Rising(entries) /\ running - 1 <= Limit
  BY <1>2, ScopeAssumption DEF Served, InOrder
<1>7. /\ entries' \in Seq(Tasks) /\ head' \in 0 .. Len(entries') /\ running' \in Nat
      /\ Rising(entries')
      /\ \A i \in 1 .. Len(entries') : \E j \in 1 .. Len(entries) : entries'[i] = entries[j]
      /\ FullWhileAnyoneWaits'
      /\ \A u \in Tasks : state'[u] = st[u] \/ (st[u] = "waiting" /\ state'[u] = "begun")
      /\ \A u, v \in Tasks : u < v /\ state'[u] = "waiting" => state'[v] = st[v]
  BY <1>1, <1>2, <1>3, <1>4, <1>5, <1>6, PumpServes
<1>8. QueueTyped'
  BY <1>1, <1>7 DEF Served, QueueTyped
<1>9. \A u \in Tasks : state'[u] = "unborn" <=> state[u] = "unborn"
  BY <1>1, <1>3, <1>7
<1>10. InOrder'
  <2>1. \A j \in 1 .. Len(entries) : entries[j] \in Tasks /\ state[entries[j]] # "unborn"
    BY <1>2 DEF Served, InOrder
  <2>2. \A i \in 1 .. Len(entries') : state'[entries'[i]] # "unborn"
    BY <1>7, <1>9, <2>1
  <2>3. \A u, v \in Tasks : u < v /\ state'[u] = "unborn" => state'[v] = "unborn"
    BY <1>9 DEF Served, InOrder
  <2> QED BY <1>7, <2>2, <2>3 DEF InOrder
<1>11. NobodyOvertakes'
  <2> SUFFICES ASSUME NEW u \in Tasks, NEW v \in Tasks, u < v, state'[u] = "waiting"
               PROVE  \/ state'[v] \in {"unborn", "waiting"}
                      \/ state'[v] = "done" /\ v \in cancelled'
    BY DEF NobodyOvertakes
  <2>1. state'[v] = st[v] /\ state[u] = "waiting"
    BY <1>3, <1>7
  <2>2. \/ state[v] \in {"unborn", "waiting"}
        \/ state[v] = "done" /\ v \in cancelled
    BY <2>1 DEF Served, NobodyOvertakes
  <2> QED BY <1>1, <1>3, <2>1, <2>2
<1> QED BY <1>7, <1>8, <1>10, <1>11 DEF Served

\* A task goes on in the place it has.
LEMMA GoesOnServes ==
  ASSUME IInv, Served, NEW t \in Tasks, Begin(t) \/ Work(t) \/ ReadValue(t)
  PROVE  Served'
<1>1. PICK s \in Busy : state[t] \in Busy /\ state' = [state EXCEPT ![t] = s]
  BY DEF Begin, Work, ReadValue, Busy
<1>2. UNCHANGED <<entries, head, running, cancelled>>
  BY DEF Begin, Work, ReadValue, queueVars
<1>3. state \in [Tasks -> States]
  BY DEF IInv, Typed
<1>4. \A u \in Tasks : \/ state[u] = state'[u]
                       \/ state[u] \in Busy /\ state'[u] \in Busy
  BY <1>1, <1>3
<1>5. Running' = Running
  BY <1>4 DEF Running, Busy
<1>6. outcome' \in [Tasks -> {"pending", "value", "error", "cancelled"}]
  BY DEF Begin, Work, ReadValue, Served, QueueTyped
<1> QED BY <1>2, <1>4, <1>5, <1>6, AloneServes

LEMMA ReadErrorServes == ASSUME IInv, Served, NEW t \in Tasks, ReadError(t) PROVE Served'
<1> DEFINE rest == IF Fails(t) /\ ~scopeCancelled THEN Following ELSE {}
           gone == Withdrawn(rest)
<1>1. /\ state[t] = "threw" /\ cancelled' = cancelled \cup rest
      /\ state' = [u \in Tasks |-> IF u = t THEN "read" ELSE IF u \in gone THEN "done" ELSE state[u]]
      /\ outcome' = [u \in Tasks |->
           IF u = t THEN IF t \in cancelled THEN "cancelled" ELSE "error"
           ELSE IF u \in gone THEN "cancelled" ELSE outcome[u]]
      /\ UNCHANGED <<entries, head, running>>
  BY DEF ReadError, queueVars
<1>2. \A u \in gone : u \in rest /\ state[u] = "waiting"
  BY DEF Withdrawn
<1> HIDE DEF gone, rest
<1>3. \A u \in Tasks : \/ state[u] = state'[u]
                       \/ state[u] \in Busy /\ state'[u] \in Busy
                       \/ state[u] = "waiting" /\ state'[u] = "done" /\ u \in cancelled'
  BY <1>1, <1>2 DEF Busy
<1>4. Running' = Running
  BY <1>3 DEF Running, Busy
<1>5. outcome' \in [Tasks -> {"pending", "value", "error", "cancelled"}]
  BY <1>1 DEF Served, QueueTyped
<1>6. cancelled \subseteq cancelled'
  BY <1>1
<1> QED BY <1>1, <1>3, <1>4, <1>5, <1>6, AloneServes

\* Tasks that wait are called off.
LEMMA WithdrawnServe ==
  ASSUME IInv, Served, NEW called, cancelled' = cancelled \cup called,
         state' = [t \in Tasks |-> IF t \in Withdrawn(called) THEN "done" ELSE state[t]],
         outcome' = [t \in Tasks |-> IF t \in Withdrawn(called) THEN "cancelled" ELSE outcome[t]],
         UNCHANGED <<entries, head, running>>
  PROVE  Served'
<1>1. \A u \in Tasks : \/ state[u] = state'[u]
                       \/ state[u] \in Busy /\ state'[u] \in Busy
                       \/ state[u] = "waiting" /\ state'[u] = "done" /\ u \in cancelled'
  BY DEF Withdrawn
<1>2. Running' = Running
  BY <1>1 DEF Running, Busy
<1>3. outcome' \in [Tasks -> {"pending", "value", "error", "cancelled"}]
  BY DEF Served, QueueTyped
<1>4. cancelled \subseteq cancelled'
  OBVIOUS
<1> QED BY <1>1, <1>2, <1>3, <1>4, AloneServes

LEMMA CallOffServes ==
  ASSUME IInv, Served,
         \/ CancelScope
         \/ \E t \in Tasks : CancelTask(t)
         \/ \E c \in Callers : Dispose(c)
  PROVE  Served'
<1>1. PICK called :
        /\ cancelled' = cancelled \cup called
        /\ state' = [u \in Tasks |-> IF u \in Withdrawn(called) THEN "done" ELSE state[u]]
        /\ outcome' = [u \in Tasks |-> IF u \in Withdrawn(called) THEN "cancelled" ELSE outcome[u]]
  <2>1. CASE CancelScope
    <3>1. CallOff(Following)
      BY <2>1 DEF CancelScope, CancelSource
    <3> QED BY <3>1 DEF CallOff
  <2>2. CASE \E t \in Tasks : CancelTask(t)
    <3>1. PICK t \in Tasks : CallOff({t})
      BY <2>2 DEF CancelTask
    <3> QED BY <3>1 DEF CallOff
  <2>3. CASE \E c \in Callers : Dispose(c)
    <3> DEFINE gone == IF outstanding > 0 /\ ~scopeCancelled THEN Following ELSE {}
    <3>1. /\ cancelled' = cancelled \cup gone
          /\ state' = [u \in Tasks |-> IF u \in Withdrawn(gone) THEN "done" ELSE state[u]]
          /\ outcome' = [u \in Tasks |->
                            IF u \in Withdrawn(gone) THEN "cancelled" ELSE outcome[u]]
      BY <2>3 DEF Dispose
    <3> HIDE DEF gone
    <3> QED BY <3>1
  <2> QED BY <2>1, <2>2, <2>3
<1>2. UNCHANGED <<entries, head, running>>
  BY DEF CancelScope, CancelTask, Dispose, Asks, queueVars
<1> QED BY <1>1, <1>2, WithdrawnServe

LEMMA RestServes ==
  ASSUME IInv, Served,
         Wake \/ Return \/ UNCHANGED vars \/ \E c \in Callers : Join(c)
  PROVE  Served'
<1>1. UNCHANGED <<state, outcome, cancelled, entries, head, running>>
  BY DEF Wake, Return, Join, Asks, vars, queueVars
<1>2. Running' = Running
  BY <1>1 DEF Running
<1>3. outcome' \in [Tasks -> {"pending", "value", "error", "cancelled"}]
  BY <1>1 DEF Served, QueueTyped
<1> QED BY <1>1, <1>2, <1>3, AloneServes

LEMMA InitServed == Init => Served
<1> SUFFICES ASSUME Init PROVE Served
  OBVIOUS
<1>1. entries = <<>> /\ head = 0 /\ running = 0 /\ \A t \in Tasks : state[t] = "unborn"
  BY DEF Init
<1>2. QueueTyped
  BY <1>1 DEF Init, QueueTyped
<1>3. InOrder
  BY <1>1 DEF InOrder, Rising
<1>4. Running = {} /\ Cardinality({}) = 0
  BY <1>1, FS_EmptySet DEF Running
<1>5. FullWhileAnyoneWaits /\ NobodyOvertakes
  <2>1. 0 <= Limit
    BY ScopeAssumption
  <2> QED BY <1>1, <1>4, <2>1 DEF FullWhileAnyoneWaits, NobodyOvertakes
<1> QED BY <1>2, <1>3, <1>5 DEF Served

LEMMA NextServes == IInv /\ Served /\ [Next]_vars => Served'
<1> SUFFICES ASSUME IInv, Served, [Next]_vars PROVE Served'
  OBVIOUS
<1>1. ASSUME NEW t \in Tasks, Spawn(t) \/ CancelTask(t) \/ Work(t) \/ Reaction(t)
      PROVE  Served'
  <2>1. CASE Spawn(t)
    BY <2>1, SpawnServes
  <2>2. CASE Begin(t) \/ Work(t) \/ ReadValue(t)
    BY <2>2, GoesOnServes
  <2>3. CASE ReadError(t)
    BY <2>3, ReadErrorServes
  <2>4. CASE Finish(t)
    BY <2>4, FinishServes
  <2>5. CASE CancelTask(t)
    BY <2>5, CallOffServes
  <2> QED BY <1>1, <2>1, <2>2, <2>3, <2>4, <2>5 DEF Reaction
<1>2. ASSUME NEW c \in Callers, Join(c) \/ Dispose(c) PROVE Served'
  BY <1>2, CallOffServes, RestServes
<1>3. CASE CancelScope
  BY <1>3, CallOffServes
<1>4. CASE Wake \/ Return \/ UNCHANGED vars
  BY <1>4, RestServes
<1> QED BY <1>1, <1>2, <1>3, <1>4 DEF Next

\* For any number of tasks and places, the scope's counters agree with what
\* really runs, nobody waits while there is room, whoever waits is still in the
\* queue past its head, and none is started before one spawned earlier that
\* waits: pump of src/task/index.ts and startWhile and compact of src/task/queue.ts.
THEOREM QueueIsServedHolds == Spec => []QueueIsServed
<1>1. IInv /\ Served => QueueIsServed
  <2> SUFFICES ASSUME IInv, Served PROVE QueueIsServed
    OBVIOUS
  <2>1. head \in Nat
    BY DEF Served, QueueTyped
  <2>2. outstanding \in Nat
    BY FiniteUnsettled DEF IInv, Counted
  <2> QED BY <2>1, <2>2 DEF IInv, Typed, Served, QueueTyped, TypeOK, QueueIsServed, Endings, Reports
<1>2. Spec => []Served
  BY InitServed, NextServes, AlwaysIInv, PTL DEF Spec
<1> QED BY <1>1, <1>2, AlwaysIInv, PTL
=============================================================================

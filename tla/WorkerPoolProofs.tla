-------------------------- MODULE WorkerPoolProofs --------------------------
(* Proofs about the worker pool, for any number of runs and workers.       *)
EXTENDS WorkerPool, FiniteSetTheorems, SequenceTheorems, TLAPS

USE DEF chainVars, closeVars, startVars, threadVars, memberVars, loopVars,
        runVars, poolVars, asideVars

-----------------------------------------------------------------------------
(* Type correctness.                                                       *)

LEMMA InitType == Init => TypeOK
<1> SUFFICES ASSUME Init PROVE TypeOK
  OBVIOUS
<1>1. <<>> \in Seq(Runs) /\ <<>> \in Seq(Message) /\ <<>> \in Seq(Jobs)
  OBVIOUS
<1>2. mail \in [Runs -> [Slots -> Seq(Message)]]
  BY <1>1 DEF Init
<1>3. got \in [Runs -> Seq(Jobs)] /\ finished \in [Runs -> Seq(Jobs)]
  BY <1>1 DEF Init
<1> QED BY <1>1, <1>2, <1>3 DEF Init, TypeOK, PCs, Outcomes, ThreadStates

\* The position a free member is given, and how many are given, are numbers.
LEMMA RankIsNat ==
  ASSUME TypeOK, NEW r \in Runs
  PROVE  /\ \A s \in Slots : Rank(r, s) \in Nat
         /\ Cardinality(Given(r)) \in Nat
<1>1. IsFiniteSet(Slots)
  BY PoolAssumption, FS_Interval DEF Slots
<1>2. Free(r) \subseteq Slots /\ Given(r) \subseteq Slots
  BY DEF Free, Given
<1>3. IsFiniteSet(Given(r))
  BY <1>1, <1>2, FS_Subset
<1>4. \A s \in Slots : IsFiniteSet({q \in Free(r) : q < s})
  <2> TAKE s \in Slots
  <2>1. {q \in Free(r) : q < s} \subseteq Slots
    BY <1>2
  <2> QED BY <1>1, <2>1, FS_Subset
<1> QED BY <1>3, <1>4, FS_CardinalityType DEF Rank

LEMMA SendType ==
  ASSUME TypeOK, NEW e \in Runs, NEW s \in Slots, NEW m \in Message,
         Send(e, s, m)
  PROVE  mail' \in [Runs -> [Slots -> Seq(Message)]]
  BY DEF TypeOK, Send

LEMMA ThreadsType ==
  ASSUME TypeOK, NEW e \in Runs, NEW s \in Slots,
         \/ ThreadLoads(e, s) \/ ThreadAnswers(e, s) \/ ThreadDies(e, s)
         \/ ThreadExitsZero(e, s) \/ ThreadStops(e, s)
  PROVE  TypeOK'
<1>1. CASE ThreadLoads(e, s)
  <2>1. PICK k \in {"ready", "broken"} : Send(e, s, Reply(k))
    BY <1>1 DEF ThreadLoads
  <2>2. mail' \in [Runs -> [Slots -> Seq(Message)]]
    BY <2>1, SendType DEF Reply, Message
  <2> QED BY <1>1, <2>2 DEF TypeOK, ThreadLoads, ThreadStates
<1>2. CASE ThreadAnswers(e, s)
  <2>1. job[e][s] \in Jobs
    BY <1>2 DEF ThreadAnswers, TypeOK
  <2>2. PICK k \in {"done", "failed"} : Send(e, s, Answer(k, job[e][s]))
    BY <1>2 DEF ThreadAnswers
  <2>3. Answer(k, job[e][s]) \in Message
    BY <2>1 DEF Answer, Message, Jobs
  <2>4. mail' \in [Runs -> [Slots -> Seq(Message)]]
    BY <2>2, <2>3, SendType
  <2> QED BY <1>2, <2>4 DEF TypeOK, ThreadAnswers
<1>3. ASSUME NEW k \in {"died", "exited", "exitedZero"}, Send(e, s, Reply(k))
      PROVE  mail' \in [Runs -> [Slots -> Seq(Message)]]
  BY <1>3, SendType DEF Reply, Message
<1>4. CASE ThreadDies(e, s)
  <2>1. mail' \in [Runs -> [Slots -> Seq(Message)]]
    BY <1>3, <1>4 DEF ThreadDies
  <2>2. CASE Platform = "node"
    <3>1. /\ th' = [th EXCEPT ![e][s] = "gone"]
          /\ job' = [job EXCEPT ![e][s] = None]
          /\ UNCHANGED <<poolVars, startVars, memberVars, runVars>>
      BY <1>4, <2>2 DEF ThreadDies
    <3> QED BY <2>1, <3>1 DEF TypeOK, ThreadStates
  <2>3. CASE Platform # "node"
    BY <1>4, <2>1, <2>3 DEF TypeOK, ThreadDies
  <2> QED BY <2>2, <2>3
<1>5. CASE ThreadExitsZero(e, s)
  BY <1>3, <1>5 DEF TypeOK, ThreadExitsZero, ThreadStates
<1>6. CASE ThreadStops(e, s)
  BY <1>3, <1>6 DEF TypeOK, ThreadStops, ThreadStates
<1> QED BY <1>1, <1>2, <1>4, <1>5, <1>6

LEMMA RetireType ==
  ASSUME TypeOK, NEW e \in Runs, RetireWith(e)
  PROVE  /\ retiring' \subseteq Runs
         /\ th' \in [Runs -> [Slots -> ThreadStates]]
         /\ mail' \in [Runs -> [Slots -> Seq(Message)]]
  BY DEF TypeOK, RetireWith, StopThreads, StopMail, ThreadStates, Lives

LEMMA SetsType ==
  ASSUME TypeOK, NEW e \in Runs,
         RetireSettles(e) \/ StartFulfils(e) \/ StartFails(e) \/ StartRejects(e)
  PROVE  TypeOK'
<1>1. CASE RetireSettles(e)
  BY <1>1 DEF TypeOK, RetireSettles
<1>2. CASE StartFulfils(e) \/ StartRejects(e)
  <2>1. startState' \in [Runs -> {"none", "pending", "fulfilled", "retiring",
                                  "rejected"}]
    <3>1. startState \in [Runs -> {"none", "pending", "fulfilled", "retiring",
                                   "rejected"}]
      BY DEF TypeOK
    <3> QED BY <1>2, <3>1 DEF StartFulfils, StartRejects
  <2>2. UNCHANGED <<poolVars, loaded, startFailed, threadVars, memberVars,
                    runVars>>
    BY <1>2 DEF StartFulfils, StartRejects
  <2> QED BY <2>1, <2>2 DEF TypeOK
<1>3. CASE StartFails(e)
  BY <1>3, RetireType DEF TypeOK, StartFails
<1> QED BY <1>1, <1>2, <1>3

\* start() types whatever it starts; the caller keeps the rest.
LEMMA StartType ==
  ASSUME TypeOK, NEW r \in Runs, Start(r)
  PROVE  /\ members' \in Runs
         /\ startState' \in [Runs -> {"none", "pending", "retiring",
                                      "fulfilled", "rejected"}]
         /\ th' \in [Runs -> [Slots -> ThreadStates]]
         /\ alive' \in [Runs -> [Slots -> BOOLEAN]]
         /\ uses' \in [Runs -> Runs \cup {None}]
         /\ pc' \in [Runs -> PCs]
         /\ UNCHANGED <<loaded, startFailed, mail, job, busyWith>>
<1>1. CASE SpawnAll(r)
  BY <1>1 DEF TypeOK, Start, SpawnAll, ThreadStates, PCs
<1>2. CASE SpawnSome(r)
  BY <1>2 DEF TypeOK, Start, SpawnSome, ThreadStates, PCs
<1> QED BY <1>1, <1>2 DEF Start

LEMMA EndType ==
  ASSUME TypeOK, NEW r \in Runs, NEW out \in Outcomes, EndWith(r, out)
  PROVE  pc' \in [Runs -> PCs] /\ outcome' \in [Runs -> Outcomes]
  BY DEF TypeOK, EndWith, PCs

LEMMA EndKeepsType ==
  ASSUME TypeOK, NEW r \in Runs, NEW out \in Outcomes, EndWith(r, out),
         UNCHANGED <<poolVars, startVars, threadVars, memberVars, uses, loopVars>>
  PROVE  TypeOK'
  BY EndType DEF TypeOK

LEMMA QueueType ==
  ASSUME TypeOK, NEW r \in Runs,
         Call(r) \/ CalledOff(r) \/ Release(r) \/ TakeTurn(r) \/ Retired(r)
  PROVE  TypeOK'
<1>1. CASE Call(r)
  <2>1. order' \in Seq(Runs) /\ pc' \in [Runs -> PCs]
    BY <1>1 DEF TypeOK, Call, PCs
  <2> QED BY <1>1, <2>1 DEF TypeOK, Call
<1>2. CASE CalledOff(r)
  BY <1>2, EndType DEF TypeOK, CalledOff, Outcomes
<1>3. CASE Release(r)
  BY <1>3 DEF TypeOK, Release
<1>4. CASE TakeTurn(r)
  <2>1. CASE closed
    <3>1. EndWith(r, "refused")
      BY <1>4, <2>1 DEF TakeTurn
    <3>2. UNCHANGED <<poolVars, startVars, threadVars, memberVars, uses,
                      loopVars>>
      BY <1>4, <2>1 DEF TakeTurn
    <3> QED BY <3>1, <3>2, EndKeepsType DEF Outcomes
  <2>2. CASE ~closed /\ members # None
    <3>1. /\ uses' = [uses EXCEPT ![r] = members]
          /\ pc' = [pc EXCEPT ![r] = "awaitMembers"]
          /\ UNCHANGED <<poolVars, startVars, threadVars, memberVars, outcome,
                         loopVars>>
      BY <1>4, <2>2 DEF TakeTurn
    <3>2. members \in Runs
      BY <2>2 DEF TypeOK
    <3> QED BY <3>1, <3>2 DEF TypeOK, PCs
  <2>3. CASE ~closed /\ members = None
    <3>1. Start(r) /\ UNCHANGED outcome
      BY <1>4, <2>3 DEF TakeTurn
    <3> QED BY <1>4, <3>1, StartType DEF TypeOK, TakeTurn
  <2> QED BY <2>1, <2>2, <2>3
<1>5. CASE Retired(r)
  <2>1. CASE closed
    BY <1>5, <2>1, EndType DEF TypeOK, Retired, Outcomes
  <2>2. CASE ~closed
    <3>1. Start(r) /\ UNCHANGED outcome
      BY <1>5, <2>2 DEF Retired
    <3> QED BY <1>5, <3>1, StartType DEF TypeOK, Retired
  <2> QED BY <2>1, <2>2
<1> QED BY <1>1, <1>2, <1>3, <1>4, <1>5

\* What a step of a run's loop changes, and to what: the rest it leaves alone.
LoopTypes ==
  /\ members' \in Runs \cup {None}
  /\ retiring' \subseteq Runs
  /\ th' \in [Runs -> [Slots -> ThreadStates]]
  /\ mail' \in [Runs -> [Slots -> Seq(Message)]]
  /\ discarding' \in [Runs -> BOOLEAN]
  /\ outcome' \in [Runs -> Outcomes]
  /\ pc' \in [Runs -> PCs]
  /\ got' \in [Runs -> Seq(Jobs)]
  /\ finished' \in [Runs -> Seq(Jobs)]

HandingTypes ==
  /\ busyWith' \in [Runs -> [Slots -> Nat \cup {None}]]
  /\ job' \in [Runs -> [Slots -> Jobs \cup {None}]]
  /\ handedOut' \in [Runs -> Nat]

\* What is taken of the members that can be given something can be counted.
LEMMA TakenFinite ==
  ASSUME NEW r \in Runs, NEW taken \in SUBSET Given(r)
  PROVE  IsFiniteSet(taken) /\ Cardinality(taken) \in Nat
<1>1. IsFiniteSet(Slots)
  BY PoolAssumption, FS_Interval DEF Slots
<1>2. taken \subseteq Slots
  BY DEF Given, Free
<1> QED BY <1>1, <1>2, FS_Subset, FS_CardinalityType

LEMMA HandType ==
  ASSUME TypeOK, NEW r \in Runs, uses[r] \in Runs,
         NEW taken \in SUBSET Given(r), NEW posted, Hand(r, taken, posted)
  PROVE  HandingTypes
<1>1. \A s \in Slots : handedOut[r] + Rank(r, s) \in Nat
  <2>1. handedOut[r] \in Nat
    BY DEF TypeOK
  <2> QED BY <2>1, RankIsNat
<1>2. busyWith' \in [Runs -> [Slots -> Nat \cup {None}]]
  BY <1>1 DEF TypeOK, Hand
<1>3. job' \in [Runs -> [Slots -> Jobs \cup {None}]]
  BY <1>1 DEF TypeOK, Hand, Jobs
<1>4. handedOut' \in [Runs -> Nat]
  <2>1. Cardinality(taken) \in Nat /\ handedOut \in [Runs -> Nat]
    BY TakenFinite DEF TypeOK
  <2>2. handedOut' = [handedOut EXCEPT ![r] = @ + Cardinality(taken)]
    BY DEF Hand
  <2>3. handedOut[r] + Cardinality(taken) \in Nat
    BY <2>1
  <2> QED BY <2>1, <2>2, <2>3
<1> QED BY <1>2, <1>3, <1>4 DEF HandingTypes

LEMMA DispatchType ==
  ASSUME TypeOK, NEW r \in Runs, uses[r] \in Runs, Dispatch(r) \/ DispatchThrows(r)
  PROVE  HandingTypes
  BY HandType DEF Dispatch, DispatchThrows

\* A post that throws leaves its member busy, and so the workers are given up.
LEMMA PostThrowsGivesUp ==
  ASSUME TypeOK, NEW r \in Runs, uses[r] \in Runs, PostThrows(r)
  PROVE  /\ outcome' = [outcome EXCEPT ![r] = "failed"]
         /\ members' = None /\ RetireWith(uses[r])
         /\ discarding' = [discarding EXCEPT ![r] = TRUE]
         /\ pc' = [pc EXCEPT ![r] = "cleanup"]
<1>1. PICK bad \in Given(r) :
        Hand(r, {s \in Given(r) : s <= bad}, {s \in Given(r) : s < bad})
  BY DEF PostThrows, DispatchThrows
<1>2. bad \in Slots /\ bad <= bad
  BY DEF Given, Free, Slots
<1>3. busyWith'[uses[r]][bad] = handedOut[r] + Rank(r, bad)
  BY <1>1, <1>2 DEF Hand, TypeOK
<1>4. handedOut[r] + Rank(r, bad) # None
  <2>1. handedOut[r] \in Nat /\ Rank(r, bad) \in Nat
    BY <1>2, RankIsNat DEF TypeOK
  <2>2. handedOut[r] + Rank(r, bad) \in Nat
    BY <2>1
  <2> QED BY <2>2, PoolAssumption
<1>5. {s \in Slots : busyWith'[uses[r]][s] # None} # {}
  BY <1>2, <1>3, <1>4
<1> QED BY <1>5 DEF PostThrows, Leave

LEMMA NoDispatchType == ASSUME TypeOK, NoDispatch PROVE HandingTypes
  BY DEF TypeOK, NoDispatch, HandingTypes

LEMMA FinallyType ==
  ASSUME TypeOK, NEW r \in Runs, uses[r] \in Runs, NEW out \in Outcomes,
         Finally(r, out), UNCHANGED <<got, finished>>
  PROVE  LoopTypes
<1>1. CASE Outstanding(r) # {}
  <2>1. RetireWith(uses[r])
    BY <1>1 DEF Finally, Leave
  <2> QED BY <1>1, <2>1, RetireType DEF TypeOK, Finally, Leave, LoopTypes, PCs
<1>2. CASE Outstanding(r) = {}
  BY <1>2 DEF TypeOK, Finally, Leave, LoopTypes, PCs
<1> QED BY <1>1, <1>2

LEMMA LoopType ==
  ASSUME TypeOK, NEW r \in Runs, uses[r] \in Runs,
         Finish(r) \/ Throw(r) \/ Yield(r) \/ Park(r)
  PROVE  LoopTypes
<1>1. CASE Finish(r)
  BY <1>1, FinallyType DEF Finish, Outcomes
<1>2. CASE Throw(r)
  <2>1. (IF aborted[r] THEN "aborted" ELSE "failed") \in Outcomes
    BY DEF Outcomes
  <2> QED BY <1>2, <2>1, FinallyType DEF Throw
<1>3. CASE Yield(r)
  <2>1. /\ Head(finished[r]) \in Jobs
        /\ Tail(finished[r]) \in Seq(Jobs)
        /\ Append(got[r], Head(finished[r])) \in Seq(Jobs)
    BY <1>3 DEF TypeOK, Yield
  <2> QED BY <1>3, <2>1 DEF TypeOK, Yield, LoopTypes, PCs
<1>4. CASE Park(r)
  BY <1>4 DEF TypeOK, Park, LoopTypes, PCs
<1> QED BY <1>1, <1>2, <1>3, <1>4

LEMMA DispatchAndLoopType ==
  ASSUME TypeOK, NEW r \in Runs, uses[r] \in Runs, DispatchAndLoop(r)
  PROVE  LoopTypes /\ HandingTypes
<1>1. CASE PostThrows(r)
  <2>1. /\ outcome' = [outcome EXCEPT ![r] = "failed"]
        /\ members' = None /\ RetireWith(uses[r])
        /\ discarding' = [discarding EXCEPT ![r] = TRUE]
        /\ pc' = [pc EXCEPT ![r] = "cleanup"]
        /\ UNCHANGED <<got, finished>>
    BY <1>1, PostThrowsGivesUp DEF PostThrows
  <2>2. HandingTypes
    BY <1>1, DispatchType DEF PostThrows
  <2> QED BY <2>1, <2>2, RetireType DEF TypeOK, LoopTypes, PCs, Outcomes
<1>2. CASE ~PostThrows(r)
  <2>1. Finish(r) \/ Throw(r) \/ Yield(r) \/ Park(r)
    BY <1>2 DEF DispatchAndLoop
  <2>2. Dispatch(r) \/ NoDispatch
    BY <1>2 DEF DispatchAndLoop
  <2> QED BY <2>1, <2>2, LoopType, DispatchType, NoDispatchType
<1> QED BY <1>1, <1>2

LEMMA EnterType ==
  ASSUME TypeOK, NEW r \in Runs, uses[r] \in Runs, Enter(r)
  PROVE  LoopTypes /\ HandingTypes
<1>1. CASE DispatchAndLoop(r)
  BY <1>1, DispatchAndLoopType
<1>2. CASE ~DispatchAndLoop(r)
  <2>1. EndWith(r, "ok") /\ NoDispatch
        /\ UNCHANGED <<members, retiring, th, mail, discarding, got, finished>>
    BY <1>2 DEF Enter
  <2> QED BY <2>1, EndType, NoDispatchType DEF TypeOK, LoopTypes, Outcomes
<1> QED BY <1>1, <1>2

\* Together they type the whole state.
LEMMA LoopStepType ==
  ASSUME TypeOK, LoopTypes, HandingTypes,
         UNCHANGED <<asideVars, alive, uses, aborted, failure>>
  PROVE  TypeOK'
  BY DEF TypeOK, LoopTypes, HandingTypes

\* A run that is past its turn has a set; so has a close that waits for one.
WithSet == {"awaitMembers", "awaitRetire", "awaitStart", "parked", "woken",
            "yielded", "cleanup"}

HasSet ==
  /\ \A r \in Runs : pc[r] \in WithSet => uses[r] \in Runs
  /\ closing \in {"awaitStart", "terminating"} => closeSet \in Runs

TypeInv == TypeOK /\ HasSet

LEMMA NotReadyType ==
  ASSUME TypeOK, NEW r \in Runs, NotReady(r), UNCHANGED asideVars
  PROVE  TypeOK'
<1>1. PICK out \in {"failed", "refused"} : EndWith(r, out)
  BY DEF NotReady
<1>2. pc' \in [Runs -> PCs] /\ outcome' \in [Runs -> Outcomes]
  BY <1>1, EndType DEF Outcomes
<1>3. UNCHANGED <<members, retiring, threadVars, memberVars, uses, loopVars>>
  BY DEF NotReady
<1> QED BY <1>2, <1>3 DEF TypeOK

LEMMA RunsType ==
  ASSUME TypeInv, NEW r \in Runs,
         \/ MembersReady(r) \/ Started(r) \/ Resume(r) \/ CleanedUp(r)
         \/ Pull(r) \/ Return(r)
  PROVE  TypeOK'
<1> USE DEF TypeInv
<1>0. ASSUME pc[r] \in {"awaitMembers", "awaitStart", "woken", "yielded"}
      PROVE  uses[r] \in Runs
  BY <1>0 DEF HasSet, WithSet
<1>1. CASE MembersReady(r)
  <2>1. uses[r] \in Runs
    BY <1>0, <1>1 DEF MembersReady
  <2>2. CASE NotReady(r)
    BY <1>1, <2>2, NotReadyType DEF MembersReady
  <2>3. CASE Enter(r) /\ UNCHANGED <<alive, uses, aborted, failure>>
    BY <1>1, <2>1, <2>3, EnterType, LoopStepType DEF MembersReady
  <2>4. CASE /\ members' = IF members = uses[r] THEN None ELSE members
             /\ RetireWith(uses[r])
             /\ pc' = [pc EXCEPT ![r] = "awaitRetire"]
             /\ UNCHANGED <<job, memberVars, outcome, uses, loopVars>>
    <3>1. members' \in Runs \cup {None} /\ pc' \in [Runs -> PCs]
      BY <2>4 DEF TypeOK, PCs
    <3>2. UNCHANGED asideVars
      BY <1>1 DEF MembersReady
    <3> QED BY <2>1, <2>4, <3>1, <3>2, RetireType DEF TypeOK
  <2> QED BY <1>1, <2>2, <2>3, <2>4 DEF MembersReady
<1>2. CASE Started(r)
  <2>1. uses[r] \in Runs
    BY <1>0, <1>2 DEF Started
  <2> QED BY <1>2, <2>1, NotReadyType, EnterType, LoopStepType DEF Started
<1>3. CASE Resume(r)
  <2>1. uses[r] \in Runs
    BY <1>0, <1>3 DEF Resume
  <2> QED BY <1>3, <2>1, LoopType, NoDispatchType, LoopStepType
          DEF Resume, LoopOnly
<1>4. CASE Pull(r)
  <2>1. uses[r] \in Runs
    BY <1>0, <1>4 DEF Pull
  <2> QED BY <1>4, <2>1, DispatchAndLoopType, LoopStepType DEF Pull
<1>5. CASE Return(r)
  <2>1. uses[r] \in Runs
    BY <1>0, <1>5 DEF Return
  <2>2. LoopTypes
    BY <1>5, <2>1, FinallyType DEF Return, Outcomes
  <2> QED BY <1>5, <2>2, NoDispatchType, LoopStepType DEF Return
<1>6. CASE CleanedUp(r)
  BY <1>6 DEF TypeOK, CleanedUp, PCs
<1> QED BY <1>1, <1>2, <1>3, <1>4, <1>5, <1>6

LEMMA AbortType == ASSUME TypeInv, NEW r \in Runs, Abort(r) PROVE TypeOK'
<1>1. pc' \in [Runs -> PCs] /\ aborted' \in [Runs -> BOOLEAN]
  BY DEF TypeInv, TypeOK, Abort, PCs
<1>2. CASE AbortDiscards(r)
  <2>1. uses[r] \in Runs
    BY <1>2 DEF TypeInv, HasSet, WithSet, AbortDiscards, Listening
  <2>2. members' = None /\ RetireWith(uses[r])
        /\ discarding' = [discarding EXCEPT ![r] = TRUE]
    BY <1>2 DEF Abort
  <2> QED BY <1>1, <2>1, <2>2, RetireType DEF TypeInv, TypeOK, Abort
<1>3. CASE ~AbortDiscards(r)
  BY <1>1, <1>3 DEF TypeInv, TypeOK, Abort
<1> QED BY <1>2, <1>3

LEMMA CloseType ==
  ASSUME TypeInv, Close \/ CloseStarted \/ CloseTerminated \/ CloseSettles
  PROVE  TypeOK'
<1> USE DEF TypeInv, AwaitRetiring
<1>1. CASE Close
  BY <1>1 DEF TypeOK, Close
<1>2. CASE CloseStarted
  <2>1. closeSet \in Runs
    BY <1>2 DEF CloseStarted, HasSet
  <2>2. /\ th' \in [Runs -> [Slots -> ThreadStates]]
        /\ mail' \in [Runs -> [Slots -> Seq(Message)]]
    <3>1. \/ th' = StopThreads(closeSet) /\ mail' = StopMail(closeSet)
          \/ UNCHANGED <<th, mail>>
      BY <1>2 DEF CloseStarted
    <3>2. StopThreads(closeSet) \in [Runs -> [Slots -> ThreadStates]]
      BY <2>1 DEF TypeOK, StopThreads, ThreadStates
    <3>3. StopMail(closeSet) \in [Runs -> [Slots -> Seq(Message)]]
      BY <2>1 DEF TypeOK, StopMail
    <3> QED BY <3>1, <3>2, <3>3 DEF TypeOK
  <2> QED BY <1>2, <2>2 DEF TypeOK, CloseStarted
<1>3. CASE CloseTerminated
  <2>1. closeSet \in Runs
    BY <1>3 DEF CloseTerminated, HasSet
  <2> QED BY <1>3, <2>1 DEF TypeOK, CloseTerminated
<1>4. CASE CloseSettles
  BY <1>4 DEF TypeOK, CloseSettles
<1> QED BY <1>1, <1>2, <1>3, <1>4

LEMMA DeliverType ==
  ASSUME TypeOK, NEW e \in Runs, NEW s \in Slots, Deliver(e, s)
  PROVE  TypeOK'
<1> DEFINE m == Head(mail[e][s])
<1>1. /\ mail[e][s] \in Seq(Message) /\ mail[e][s] # <<>>
      /\ m \in Message
      /\ Tail(mail[e][s]) \in Seq(Message)
  BY DEF TypeOK, Deliver
<1>2. mail' \in [Runs -> [Slots -> Seq(Message)]]
  BY <1>1 DEF TypeOK, Deliver
<1>3. alive' \in [Runs -> [Slots -> BOOLEAN]]
  BY DEF TypeOK, Deliver
<1>4. /\ loaded' \in [Runs -> SUBSET Slots]
      /\ startFailed' \in [Runs -> BOOLEAN]
  <2>1. \/ UNCHANGED loaded
        \/ loaded' = [loaded EXCEPT ![e] = @ \cup {s}]
    BY DEF Deliver, StartHears
  <2>2. \/ UNCHANGED startFailed
        \/ startFailed' = [startFailed EXCEPT ![e] = TRUE]
    BY DEF Deliver, StartHears
  <2>3. loaded' \in [Runs -> SUBSET Slots]
    <3>1. loaded[e] \cup {s} \in SUBSET Slots
      BY DEF TypeOK
    <3>2. loaded \in [Runs -> SUBSET Slots]
      BY DEF TypeOK
    <3>3. CASE loaded' = [loaded EXCEPT ![e] = @ \cup {s}]
      BY <3>1, <3>2, <3>3
    <3> QED BY <2>1, <3>2, <3>3
  <2> QED BY <2>2, <2>3 DEF TypeOK
<1>5. /\ failure' \in [Runs -> BOOLEAN]
      /\ finished' \in [Runs -> Seq(Jobs)]
      /\ busyWith' \in [Runs -> [Slots -> Nat \cup {None}]]
      /\ pc' \in [Runs -> PCs]
  <2>1. CASE NobodyHears(e)
    BY <2>1 DEF TypeOK, NobodyHears
  <2>2. CASE RunHears(e, s, m)
    <3>1. m.kind = "done" => Result(m) \in Jobs
      BY <1>1 DEF Message, Result, Jobs
    <3>2. PICK r \in Runs :
            /\ failure' = [failure EXCEPT ![r] =
                             @ \/ m.kind \in Failures \cup {"failed"}]
            /\ finished' = IF m.kind = "done"
                           THEN [finished EXCEPT ![r] = Append(@, Result(m))]
                           ELSE finished
            /\ busyWith' = IF m.kind \in {"done", "failed"}
                           THEN [busyWith EXCEPT ![e][s] = None] ELSE busyWith
            /\ pc' \in {pc, [pc EXCEPT ![r] = "woken"]}
      BY <2>2 DEF RunHears
    <3>3. finished' \in [Runs -> Seq(Jobs)]
      BY <3>1, <3>2 DEF TypeOK
    <3>4. failure' \in [Runs -> BOOLEAN]
      BY <3>2 DEF TypeOK
    <3>5. busyWith' \in [Runs -> [Slots -> Nat \cup {None}]]
      BY <3>2 DEF TypeOK
    <3>6. pc' \in [Runs -> PCs]
      BY <3>2 DEF TypeOK, PCs
    <3> QED BY <3>3, <3>4, <3>5, <3>6
  <2> QED BY <2>1, <2>2 DEF Deliver
<1> QED BY <1>2, <1>3, <1>4, <1>5 DEF TypeOK, Deliver

LEMMA NextType == TypeInv /\ [Next]_vars => TypeOK'
<1> SUFFICES ASSUME TypeInv, [Next]_vars PROVE TypeOK'
  OBVIOUS
<1> USE DEF TypeInv
<1>1. ASSUME NEW r \in Runs, Call(r) \/ Abort(r) PROVE TypeOK'
  BY <1>1, QueueType, AbortType
<1>2. ASSUME NEW r \in Runs, RunStep(r) PROVE TypeOK'
  BY <1>2, QueueType, RunsType DEF RunStep
<1>3. ASSUME NEW r \in Runs, SetStep(r) PROVE TypeOK'
  BY <1>3, SetsType DEF SetStep
<1>4. ASSUME NEW r \in Runs, Consume(r) PROVE TypeOK'
  BY <1>4, RunsType DEF Consume
<1>5. CASE Close \/ CloseStep
  BY <1>5, CloseType DEF CloseStep
<1>6. ASSUME NEW e \in Runs, NEW s \in Slots,
             ThreadDies(e, s) \/ ThreadExitsZero(e, s) \/ ThreadStep(e, s)
      PROVE  TypeOK'
  BY <1>6, ThreadsType, DeliverType DEF ThreadStep
<1>7. CASE UNCHANGED vars
  BY <1>7 DEF TypeOK, vars
<1> QED BY <1>1, <1>2, <1>3, <1>4, <1>5, <1>6, <1>7 DEF Next, Outside

-----------------------------------------------------------------------------
(* Every run past its turn has a set.                                      *)

\* The shape of a step of one run that does not change which set it uses.
Moves(r, to) ==
  /\ pc' = [pc EXCEPT ![r] = to]
  /\ to \in WithSet => pc[r] \in WithSet
  /\ UNCHANGED <<uses, closing, closeSet>>

LEMMA MovesKeepsSet ==
  ASSUME TypeInv, NEW r \in Runs, NEW to, Moves(r, to) PROVE HasSet'
  BY DEF TypeInv, TypeOK, HasSet, Moves

LEMMA StartKeepsSet ==
  ASSUME TypeInv, NEW r \in Runs, Start(r), UNCHANGED closeVars PROVE HasSet'
  BY DEF TypeInv, TypeOK, HasSet, Start

\* Where one pass of the loop, or its finally block, can lead.
LEMMA LoopMoves ==
  ASSUME TypeInv, NEW r \in Runs,
         \/ Finish(r) \/ Throw(r) \/ Yield(r) \/ Park(r) \/ PostThrows(r)
         \/ Finally(r, "abandoned")
  PROVE  \E to \in PCs : pc' = [pc EXCEPT ![r] = to]
  BY DEF Finish, Throw, Yield, Park, PostThrows, Finally, Leave, PCs

LEMMA NotReadyMoves ==
  ASSUME TypeInv, NEW r \in Runs, NotReady(r)
  PROVE  pc' = [pc EXCEPT ![r] = "ended"] /\ uses' = uses
  BY DEF NotReady, EndWith

LEMMA RunKeepsSet ==
  ASSUME TypeInv, NEW r \in Runs,
         \/ MembersReady(r) \/ Started(r) \/ Resume(r) \/ CleanedUp(r)
         \/ Pull(r) \/ Return(r)
  PROVE  HasSet'
<1>1. pc[r] \in WithSet
  BY DEF MembersReady, Started, Resume, CleanedUp, Pull, Return, WithSet
<1>2. UNCHANGED <<uses, closing, closeSet>>
  BY NotReadyMoves
     DEF MembersReady, Started, Resume, CleanedUp, Pull, Return
<1>3. \E to : pc' = [pc EXCEPT ![r] = to]
  <2>1. CASE MembersReady(r) \/ Started(r)
    <3>1. CASE NotReady(r)
      BY <3>1, NotReadyMoves
    <3>2. CASE Enter(r)
      BY <3>2, LoopMoves DEF Enter, DispatchAndLoop, EndWith
    <3>3. CASE pc' = [pc EXCEPT ![r] = "awaitRetire"]
      BY <3>3
    <3> QED BY <2>1, <3>1, <3>2, <3>3 DEF MembersReady, Started
  <2>2. CASE Resume(r) \/ Pull(r) \/ Return(r)
    BY <2>2, LoopMoves DEF Resume, LoopOnly, Pull, DispatchAndLoop, Return
  <2>3. CASE CleanedUp(r)
    BY <2>3 DEF CleanedUp
  <2> QED BY <2>1, <2>2, <2>3
<1>4. PICK to : pc' = [pc EXCEPT ![r] = to]
  BY <1>3
<1> QED BY <1>1, <1>2, <1>4, MovesKeepsSet DEF Moves

LEMMA QueueKeepsSet ==
  ASSUME TypeInv, NEW r \in Runs,
         Call(r) \/ CalledOff(r) \/ Release(r) \/ TakeTurn(r) \/ Retired(r)
         \/ Abort(r)
  PROVE  HasSet'
<1>1. CASE Call(r) \/ CalledOff(r)
  <2>1. \E to \in {"queued", "ended"} : Moves(r, to)
    BY <1>1 DEF Call, CalledOff, EndWith, Moves, WithSet
  <2> QED BY <2>1, MovesKeepsSet
<1>2. CASE Release(r)
  BY <1>2 DEF TypeInv, HasSet, Release
<1>3. CASE TakeTurn(r)
  <2>1. UNCHANGED closeVars
    BY <1>3 DEF TakeTurn
  <2>2. CASE closed
    <3>1. Moves(r, "ended")
      BY <1>3, <2>1, <2>2 DEF TakeTurn, EndWith, Moves, WithSet
    <3> QED BY <3>1, MovesKeepsSet
  <2>3. CASE ~closed /\ members # None
    <3>1. /\ uses' = [uses EXCEPT ![r] = members]
          /\ pc' = [pc EXCEPT ![r] = "awaitMembers"]
      BY <1>3, <2>3 DEF TakeTurn
    <3> QED BY <2>1, <2>3, <3>1 DEF TypeInv, TypeOK, HasSet
  <2>4. CASE ~closed /\ members = None
    BY <1>3, <2>1, <2>4, StartKeepsSet DEF TakeTurn
  <2> QED BY <2>2, <2>3, <2>4
<1>4. CASE Retired(r)
  <2>1. CASE closed
    <3>1. Moves(r, "ended")
      BY <1>4, <2>1 DEF Retired, EndWith, Moves, WithSet
    <3> QED BY <3>1, MovesKeepsSet
  <2>2. CASE ~closed
    BY <1>4, <2>2, StartKeepsSet DEF Retired
  <2> QED BY <2>1, <2>2
<1>5. CASE Abort(r)
  <2>1. CASE pc[r] = "parked"
    <3>1. Moves(r, "woken")
      BY <1>5, <2>1 DEF Abort, Moves, WithSet
    <3> QED BY <3>1, MovesKeepsSet
  <2>2. CASE pc[r] # "parked"
    BY <1>5, <2>2 DEF Abort, TypeInv, HasSet
  <2> QED BY <2>1, <2>2
<1> QED BY <1>1, <1>2, <1>3, <1>4, <1>5

LEMMA DeliverKeepsSet ==
  ASSUME TypeInv, NEW e \in Runs, NEW s \in Slots, Deliver(e, s)
  PROVE  HasSet'
<1>1. UNCHANGED <<uses, closing, closeSet>>
  BY DEF Deliver
<1>2. \/ UNCHANGED pc
      \/ \E r \in Runs : pc[r] = "parked" /\ pc' = [pc EXCEPT ![r] = "woken"]
  BY DEF Deliver, RunHears, NobodyHears
<1>3. CASE UNCHANGED pc
  BY <1>1, <1>3 DEF TypeInv, HasSet
<1>4. ASSUME NEW r \in Runs, pc[r] = "parked",
             pc' = [pc EXCEPT ![r] = "woken"]
      PROVE  HasSet'
  BY <1>1, <1>4, MovesKeepsSet DEF Moves, WithSet
<1> QED BY <1>2, <1>3, <1>4

LEMMA CloseKeepsSet ==
  ASSUME TypeInv, Close \/ CloseStep PROVE HasSet'
<1>1. UNCHANGED <<pc, uses>>
  BY DEF Close, CloseStep, CloseStarted, CloseTerminated, CloseSettles
<1>2. closing' \in {"awaitStart", "terminating"} => closeSet' \in Runs
  <2>1. CASE Close
    BY <2>1 DEF Close, AwaitRetiring, TypeInv, TypeOK
  <2>2. CASE CloseStep
    BY <2>2 DEF CloseStep, CloseStarted, CloseTerminated, CloseSettles,
                AwaitRetiring, TypeInv, HasSet
  <2> QED BY <2>1, <2>2
<1> QED BY <1>1, <1>2 DEF TypeInv, HasSet

LEMMA NextKeepsSet == TypeInv /\ [Next]_vars => HasSet'
<1> SUFFICES ASSUME TypeInv, [Next]_vars PROVE HasSet'
  OBVIOUS
<1>1. ASSUME NEW r \in Runs, Call(r) \/ Abort(r) \/ RunStep(r) \/ Consume(r)
      PROVE  HasSet'
  BY <1>1, QueueKeepsSet, RunKeepsSet DEF RunStep, Consume
<1>2. CASE Close \/ CloseStep
  BY <1>2, CloseKeepsSet
<1>3. ASSUME NEW e \in Runs, NEW s \in Slots, Deliver(e, s) PROVE HasSet'
  BY <1>3, DeliverKeepsSet
<1>4. ASSUME UNCHANGED <<pc, uses, closing, closeSet>> PROVE HasSet'
  BY <1>4 DEF TypeInv, HasSet
<1>5. ASSUME NEW e \in Runs, SetStep(e) PROVE HasSet'
  BY <1>4, <1>5 DEF SetStep, RetireSettles, StartFulfils, StartFails,
                    StartRejects
<1>6. ASSUME NEW e \in Runs, NEW s \in Slots,
             \/ ThreadDies(e, s) \/ ThreadExitsZero(e, s) \/ ThreadLoads(e, s)
             \/ ThreadAnswers(e, s) \/ ThreadStops(e, s)
      PROVE  HasSet'
  BY <1>4, <1>6 DEF ThreadDies, ThreadExitsZero, ThreadLoads, ThreadAnswers,
                    ThreadStops
<1>7. CASE UNCHANGED vars
  BY <1>4, <1>7 DEF vars
<1> QED BY <1>1, <1>2, <1>3, <1>5, <1>6, <1>7 DEF Next, Outside, ThreadStep

\* The pool's state keeps its types whatever the number of runs and workers,
\* whatever fails, and a run past its turn always has a set of workers.
THEOREM TypeCorrect == Spec => []TypeOK
<1>1. Init => TypeInv
  BY InitType DEF Init, TypeInv, HasSet, WithSet
<1>2. TypeInv /\ [Next]_vars => TypeInv'
  BY NextType, NextKeepsSet DEF TypeInv
<1>3. TypeInv => TypeOK
  BY DEF TypeInv
<1> QED BY <1>1, <1>2, <1>3, PTL DEF Spec

-----------------------------------------------------------------------------
(* A closed pool starts no thread.                                         *)

StartsNothing == \A e \in Runs, s \in Slots :
                   th[e][s] = "unborn" => th'[e][s] = "unborn"

LEMMA StopStartsNothing ==
  ASSUME TypeOK, NEW e \in Runs, th' = StopThreads(e)
  PROVE  StartsNothing
  BY DEF TypeOK, StopThreads, Lives, StartsNothing

LEMMA SameStartsNothing == ASSUME th' = th PROVE StartsNothing
  BY DEF StartsNothing

LEMMA LoopStartsNothing ==
  ASSUME TypeInv, NEW r \in Runs,
         \/ MembersReady(r) \/ Started(r) \/ Resume(r) \/ Pull(r) \/ Return(r)
         \/ Abort(r)
  PROVE  StartsNothing
<1>1. \/ th' = th
      \/ th' = StopThreads(uses[r]) /\ pc[r] \in WithSet
  BY DEF MembersReady, Started, Resume, Pull, Return, Abort, NotReady, Enter,
         DispatchAndLoop, LoopOnly, PostThrows, Finish, Throw, Yield, Park,
         Finally, Leave, RetireWith, AbortDiscards, Listening, WithSet
<1>2. CASE th' = StopThreads(uses[r]) /\ pc[r] \in WithSet
  BY <1>2, StopStartsNothing DEF TypeInv, HasSet
<1> QED BY <1>1, <1>2, SameStartsNothing

LEMMA ThreadsStartNothing ==
  ASSUME TypeOK, NEW e \in Runs, NEW s \in Slots,
         \/ ThreadDies(e, s) \/ ThreadExitsZero(e, s) \/ ThreadStep(e, s)
  PROVE  StartsNothing
<1>1. \/ th' = th
      \/ th[e][s] # "unborn" /\ \E x : th' = [th EXCEPT ![e][s] = x]
  BY DEF ThreadDies, ThreadExitsZero, ThreadStep, ThreadLoads, ThreadAnswers,
         ThreadStops, Deliver
<1>2. ASSUME NEW x, th[e][s] # "unborn", th' = [th EXCEPT ![e][s] = x]
      PROVE  StartsNothing
  <2> SUFFICES ASSUME NEW f \in Runs, NEW q \in Slots, th[f][q] = "unborn"
               PROVE  th'[f][q] = "unborn"
    BY DEF StartsNothing
  <2>1. th'[f][q] = th[f][q]
    BY <1>2 DEF TypeOK
  <2> QED BY <2>1
<1> QED BY <1>1, <1>2, SameStartsNothing

LEMMA ClosedStep ==
  TypeInv /\ [Next]_vars => (closed => StartsNothing)
<1> SUFFICES ASSUME TypeInv, [Next]_vars, closed PROVE StartsNothing
  OBVIOUS
<1> USE DEF TypeInv
<1>1. ASSUME NEW r \in Runs,
             \/ Call(r) \/ CalledOff(r) \/ Release(r) \/ TakeTurn(r)
             \/ Retired(r) \/ CleanedUp(r)
      PROVE  StartsNothing
  BY <1>1, SameStartsNothing
     DEF Call, CalledOff, Release, TakeTurn, Retired, CleanedUp
<1>2. ASSUME NEW r \in Runs,
             \/ MembersReady(r) \/ Started(r) \/ Resume(r) \/ Consume(r)
             \/ Abort(r)
      PROVE  StartsNothing
  BY <1>2, LoopStartsNothing DEF Consume
<1>3. ASSUME NEW e \in Runs, SetStep(e) PROVE StartsNothing
  BY <1>3, StopStartsNothing, SameStartsNothing
     DEF SetStep, RetireSettles, StartFulfils, StartFails, StartRejects,
         RetireWith
<1>4. CASE Close \/ CloseStep
  <2>1. \/ th' = th
        \/ th' = StopThreads(closeSet) /\ closing = "awaitStart"
    BY <1>4 DEF Close, CloseStep, CloseStarted, CloseTerminated, CloseSettles
  <2>2. closing = "awaitStart" => closeSet \in Runs
    BY DEF HasSet
  <2> QED BY <2>1, <2>2, StopStartsNothing, SameStartsNothing
<1>5. ASSUME NEW e \in Runs, NEW s \in Slots,
             ThreadDies(e, s) \/ ThreadExitsZero(e, s) \/ ThreadStep(e, s)
      PROVE  StartsNothing
  BY <1>5, ThreadsStartNothing
<1>6. CASE UNCHANGED vars
  BY <1>6, SameStartsNothing DEF vars
<1> QED BY <1>1, <1>2, <1>3, <1>4, <1>5, <1>6
        DEF Next, Outside, RunStep

\* Once close() was called no thread is ever started, whichever run is waiting
\* in ready() and for what (the checks of isClosed in pool/index.ts).
THEOREM ClosedStartsNothingHolds == Spec => ClosedStartsNothing
<1>1. Init => TypeInv
  BY InitType DEF Init, TypeInv, HasSet, WithSet
<1>2. TypeInv /\ [Next]_vars => TypeInv'
  BY NextType, NextKeepsSet DEF TypeInv
<1>3. TypeInv /\ [Next]_vars =>
        [closed => \A e \in Runs, s \in Slots :
           th[e][s] = "unborn" => th'[e][s] = "unborn"]_vars
  BY ClosedStep DEF StartsNothing
<1> QED BY <1>1, <1>2, <1>3, PTL DEF Spec, ClosedStartsNothing
-----------------------------------------------------------------------------
(* The chain of runs: one at a time has, or is getting, a set of workers.  *)

Active(r) == pc[r] \in WithSet

\* A run is in the chain once, from its call on.
ChainListsRuns ==
  /\ \A i, j \in 1 .. Len(order) : order[i] = order[j] => i = j
  /\ \A r \in Runs : pc[r] # "idle" <=> \E i \in 1 .. Len(order) : order[i] = r

\* Whatever stands before a run that has had its turn has given up its place.
ChainReleases ==
  \A i, j \in 1 .. Len(order) :
    i < j /\ (order[j] \in released \/ Active(order[j]))
      => order[i] \in released

ReleasedEnded == \A r \in released : pc[r] = "ended"

Chain == ChainListsRuns /\ ChainReleases /\ ReleasedEnded

OneActive == \A r, q \in Runs : Active(r) /\ Active(q) => r = q

LEMMA ChainOneActive == TypeOK /\ Chain => OneActive
<1> SUFFICES ASSUME TypeOK, Chain, NEW r \in Runs, NEW q \in Runs,
                    Active(r), Active(q)
             PROVE  r = q
  BY DEF OneActive
<1>1. pc[r] # "idle" /\ pc[q] # "idle" /\ pc[r] # "ended" /\ pc[q] # "ended"
  BY DEF Active, WithSet
<1>2. PICK i \in 1 .. Len(order) : order[i] = r
  BY <1>1 DEF Chain, ChainListsRuns
<1>3. PICK j \in 1 .. Len(order) : order[j] = q
  BY <1>1 DEF Chain, ChainListsRuns
<1>4. ~(i < j) /\ ~(j < i)
  BY <1>1, <1>2, <1>3 DEF Chain, ChainReleases, ReleasedEnded
<1> QED BY <1>2, <1>3, <1>4

\* Everything ahead of a run whose turn has come has given up its place.
LEMMA TurnMeansReleased ==
  ASSUME TypeOK, Chain, NEW r \in Runs, pc[r] # "idle", TurnCame(r),
         NEW i \in 1 .. Len(order), NEW j \in 1 .. Len(order),
         order[j] = r, i < j
  PROVE  order[i] \in released
<1>1. order \in Seq(Runs) /\ Len(order) \in Nat
  BY DEF TypeOK
<1>2. CASE order[1] = r
  <2>1. j = 1
    BY <1>1, <1>2 DEF Chain, ChainListsRuns
  <2> QED BY <2>1
<1>3. CASE \E k \in 1 .. (Len(order) - 1) :
             order[k + 1] = r /\ order[k] \in released
  <2>1. PICK k \in 1 .. (Len(order) - 1) :
               order[k + 1] = r /\ order[k] \in released
    BY <1>3
  <2>2. j = k + 1
    <3>1. k + 1 \in 1 .. Len(order)
      BY <1>1
    <3> QED BY <2>1, <3>1 DEF Chain, ChainListsRuns
  <2>3. k \in 1 .. Len(order) /\ (i = k \/ i < k)
    BY <1>1, <2>2
  <2> QED BY <2>1, <2>3 DEF Chain, ChainReleases
<1> QED BY <1>2, <1>3 DEF TurnCame

\* A run that goes on goes on once its turn has come, and is over for good.
GoesOn(r, to) ==
  /\ pc[r] \notin {"idle", "ended"} /\ to # "idle"
  /\ pc' = [pc EXCEPT ![r] = to]
  /\ to \in WithSet => pc[r] \in WithSet \/ TurnCame(r)
  /\ UNCHANGED <<order, released>>

LEMMA GoesOnKeepsChain ==
  ASSUME TypeOK, Chain, NEW r \in Runs, NEW to, GoesOn(r, to) PROVE Chain'
<1>1. /\ pc' = [pc EXCEPT ![r] = to] /\ pc \in [Runs -> PCs]
      /\ order' = order /\ released' = released
      /\ order \in Seq(Runs)
  BY DEF GoesOn, TypeOK
<1>2. ChainListsRuns'
  BY <1>1 DEF Chain, ChainListsRuns, GoesOn
<1>3. ReleasedEnded'
  BY <1>1 DEF Chain, ReleasedEnded, GoesOn, TypeOK
<1>4. ChainReleases'
  <2> SUFFICES ASSUME NEW i \in 1 .. Len(order), NEW j \in 1 .. Len(order),
                      i < j, order[j] \in released \/ Active(order[j])'
               PROVE  order[i] \in released
    BY <1>1 DEF ChainReleases
  <2>1. CASE order[j] \in released \/ Active(order[j])
    BY <2>1 DEF Chain, ChainReleases
  <2>2. CASE ~(order[j] \in released \/ Active(order[j]))
    <3>0. order[j] \in Runs
      BY <1>1
    <3>1. pc'[order[j]] \in WithSet /\ pc[order[j]] \notin WithSet
      BY <1>1, <2>2 DEF Active
    <3>2. order[j] = r /\ to \in WithSet
      BY <1>1, <3>0, <3>1
    <3>3. TurnCame(r) /\ pc[r] # "idle"
      BY <3>1, <3>2 DEF GoesOn
    <3> QED BY <3>2, <3>3, TurnMeansReleased
  <2> QED BY <2>1, <2>2
<1> QED BY <1>2, <1>3, <1>4 DEF Chain

LEMMA CallKeepsChain ==
  ASSUME TypeOK, Chain, NEW r \in Runs, Call(r) PROVE Chain'
<1>1. /\ pc' = [pc EXCEPT ![r] = "queued"] /\ pc \in [Runs -> PCs]
      /\ pc[r] = "idle"
      /\ order' = Append(order, r) /\ released' = released
      /\ order \in Seq(Runs) /\ Len(order) \in Nat
      /\ released \subseteq Runs
  BY DEF Call, Called, TypeOK
<1>2. /\ Len(order') = Len(order) + 1 /\ order'[Len(order) + 1] = r
      /\ \A i \in 1 .. Len(order) : order'[i] = order[i] /\ order[i] \in Runs
  BY <1>1
<1>3. \A i \in 1 .. Len(order) : order[i] # r
  BY <1>1 DEF Chain, ChainListsRuns
<1>4. \A i \in 1 .. Len(order') : i \in 1 .. Len(order) \/ i = Len(order) + 1
  BY <1>1, <1>2
<1>5. ChainListsRuns'
  <2>1. \A i, j \in 1 .. Len(order') : order'[i] = order'[j] => i = j
    BY <1>2, <1>3, <1>4 DEF Chain, ChainListsRuns
  <2>2. \A q \in Runs :
          pc'[q] # "idle" <=> \E i \in 1 .. Len(order') : order'[i] = q
    <3> TAKE q \in Runs
    <3>1. CASE q = r
      <4>1. Len(order) + 1 \in 1 .. Len(order')
        BY <1>1, <1>2
      <4> QED BY <1>1, <1>2, <3>1, <4>1
    <3>2. CASE q # r
      <4>1. pc'[q] = pc[q]
        BY <1>1, <3>2
      <4>2. (\E i \in 1 .. Len(order') : order'[i] = q)
              <=> \E i \in 1 .. Len(order) : order[i] = q
        <5>1. \A i \in 1 .. Len(order) : i \in 1 .. Len(order')
          BY <1>1, <1>2
        <5> QED BY <1>2, <1>4, <3>2, <5>1
      <4> QED BY <4>1, <4>2 DEF Chain, ChainListsRuns
    <3> QED BY <3>1, <3>2
  <2> QED BY <2>1, <2>2 DEF ChainListsRuns
<1>6. ReleasedEnded'
  BY <1>1 DEF Chain, ReleasedEnded
<1>7. r \notin released
  BY <1>1 DEF Chain, ReleasedEnded
<1>8. ChainReleases'
  <2> SUFFICES ASSUME NEW i \in 1 .. Len(order'), NEW j \in 1 .. Len(order'),
                      i < j,
                      order'[j] \in released \/ pc'[order'[j]] \in WithSet
               PROVE  order'[i] \in released
    BY <1>1 DEF ChainReleases, Active
  <2>1. order'[j] # r
    BY <1>1, <1>7 DEF Active, WithSet
  <2>2. j \in 1 .. Len(order) /\ i \in 1 .. Len(order)
    BY <1>1, <1>2, <1>4, <2>1
  <2>3. order[j] \in released \/ Active(order[j])
    BY <1>1, <1>2, <2>1, <2>2 DEF Active
  <2> QED BY <1>2, <2>2, <2>3 DEF Chain, ChainReleases
<1> QED BY <1>5, <1>6, <1>8 DEF Chain

LEMMA ReleaseKeepsChain ==
  ASSUME TypeOK, Chain, NEW r \in Runs, Release(r) PROVE Chain'
<1>1. /\ UNCHANGED <<pc, order>> /\ released' = released \cup {r}
      /\ pc[r] = "ended" /\ TurnCame(r)
  BY DEF Release
<1>2. ChainListsRuns'
  BY <1>1 DEF Chain, ChainListsRuns
<1>3. ReleasedEnded'
  BY <1>1 DEF Chain, ReleasedEnded
<1>4. ChainReleases'
  <2> SUFFICES ASSUME NEW i \in 1 .. Len(order), NEW j \in 1 .. Len(order),
                      i < j, order[j] \in released' \/ Active(order[j])
               PROVE  order[i] \in released'
    BY <1>1 DEF ChainReleases, Active
  <2>1. CASE order[j] = r
    <3>1. order[i] \in released
      BY <1>1, <2>1, TurnMeansReleased
    <3> QED BY <1>1, <3>1
  <2>2. CASE order[j] # r
    BY <1>1, <2>2 DEF Chain, ChainReleases
  <2> QED BY <2>1, <2>2
<1> QED BY <1>2, <1>3, <1>4 DEF Chain

LEMMA SameChain == ASSUME Chain, UNCHANGED <<pc, order, released>> PROVE Chain'
  BY DEF Chain, ChainListsRuns, ChainReleases, ReleasedEnded, Active

\* What a step does to pc: one run goes on, or none does.
LEMMA WhoGoesOn ==
  ASSUME TypeInv, [Next]_vars
  PROVE  \/ \E r \in Runs : Call(r) \/ Release(r)
         \/ \E r \in Runs : \E to \in PCs : GoesOn(r, to)
         \/ UNCHANGED <<pc, order, released>>
<1> DEFINE P == \/ \E r \in Runs : Call(r) \/ Release(r)
                \/ \E r \in Runs : \E to \in PCs : GoesOn(r, to)
                \/ UNCHANGED <<pc, order, released>>
<1> SUFFICES P
  OBVIOUS
<1>1. ASSUME NEW r \in Runs, NEW to \in PCs, GoesOn(r, to) PROVE P
  BY <1>1
<1>2. ASSUME UNCHANGED <<pc, order, released>> PROVE P
  BY <1>2
<1>3. ASSUME NEW r \in Runs, NEW to \in PCs, pc' = [pc EXCEPT ![r] = to],
             pc[r] \in WithSet, to # "idle", UNCHANGED <<order, released>>
      PROVE  P
  <2>1. GoesOn(r, to)
    BY <1>3 DEF GoesOn, WithSet
  <2> QED BY <1>1, <2>1
<1> HIDE DEF P
<1>4. ASSUME NEW r \in Runs, CalledOff(r) \/ TakeTurn(r) PROVE P
  <2>1. pc[r] = "queued" /\ UNCHANGED <<order, released>>
    BY <1>4 DEF CalledOff, TakeTurn
  <2>2. \/ pc' = [pc EXCEPT ![r] = "ended"]
        \/ /\ TurnCame(r)
           /\ \E to \in {"awaitMembers", "awaitStart"} :
                pc' = [pc EXCEPT ![r] = to]
    BY <1>4 DEF CalledOff, TakeTurn, EndWith, Start
  <2>3. \E to \in {"ended", "awaitMembers", "awaitStart"} : GoesOn(r, to)
    BY <2>1, <2>2 DEF GoesOn, WithSet
  <2> QED BY <1>1, <2>3 DEF PCs
<1>5. ASSUME NEW r \in Runs, Retired(r) \/ CleanedUp(r) PROVE P
  <2>1. pc[r] \in WithSet /\ UNCHANGED <<order, released>>
    BY <1>5 DEF Retired, CleanedUp, WithSet
  <2>2. \E to \in {"ended", "awaitStart"} : pc' = [pc EXCEPT ![r] = to]
    BY <1>5 DEF Retired, CleanedUp, EndWith, Start
  <2> QED BY <1>3, <2>1, <2>2 DEF PCs
<1>6. ASSUME NEW r \in Runs, \/ MembersReady(r) \/ Started(r) \/ Resume(r)
                             \/ Pull(r) \/ Return(r)
      PROVE  P
  <2>1. pc[r] \in WithSet /\ UNCHANGED <<order, released>>
    BY <1>6 DEF MembersReady, Started, Resume, Pull, Return, WithSet
  <2>2. ASSUME \/ Finish(r) \/ Throw(r) \/ Yield(r) \/ Park(r)
               \/ PostThrows(r) \/ Finally(r, "abandoned")
        PROVE  \E to \in PCs : to # "idle" /\ pc' = [pc EXCEPT ![r] = to]
    BY <2>2 DEF Finish, Throw, Yield, Park, PostThrows, Finally, Leave, PCs
  <2>3. ASSUME NotReady(r) \/ Enter(r)
        PROVE  \E to \in PCs : to # "idle" /\ pc' = [pc EXCEPT ![r] = to]
    BY <2>2, <2>3 DEF NotReady, Enter, EndWith, DispatchAndLoop, PCs
  <2>4. \E to \in PCs : to # "idle" /\ pc' = [pc EXCEPT ![r] = to]
    <3>1. CASE MembersReady(r)
      BY <3>1, <2>3 DEF MembersReady, PCs
    <3>2. CASE Started(r)
      BY <3>2, <2>3 DEF Started
    <3>3. CASE Resume(r) \/ Pull(r) \/ Return(r)
      BY <3>3, <2>2 DEF Resume, LoopOnly, Pull, DispatchAndLoop, Return
    <3> QED BY <1>6, <3>1, <3>2, <3>3
  <2> QED BY <1>3, <2>1, <2>4
<1>7. ASSUME NEW r \in Runs, Abort(r) PROVE P
  <2>1. CASE pc[r] = "parked"
    BY <1>3, <1>7, <2>1 DEF Abort, WithSet, PCs
  <2>2. CASE pc[r] # "parked"
    BY <1>2, <1>7, <2>2 DEF Abort
  <2> QED BY <2>1, <2>2
<1>8. ASSUME NEW e \in Runs, NEW s \in Slots, Deliver(e, s) PROVE P
  <2>1. \/ UNCHANGED pc
        \/ \E r \in Runs : pc[r] = "parked" /\ pc' = [pc EXCEPT ![r] = "woken"]
    BY <1>8 DEF Deliver, RunHears, NobodyHears
  <2>2. UNCHANGED <<order, released>>
    BY <1>8 DEF Deliver
  <2> QED BY <1>2, <1>3, <2>1, <2>2 DEF WithSet, PCs
<1>9. ASSUME NEW e \in Runs, SetStep(e) PROVE P
  BY <1>2, <1>9
     DEF SetStep, RetireSettles, StartFulfils, StartFails, StartRejects
<1>10. ASSUME NEW e \in Runs, NEW s \in Slots,
              \/ ThreadDies(e, s) \/ ThreadExitsZero(e, s) \/ ThreadLoads(e, s)
              \/ ThreadAnswers(e, s) \/ ThreadStops(e, s)
       PROVE  P
  BY <1>2, <1>10 DEF ThreadDies, ThreadExitsZero, ThreadLoads, ThreadAnswers,
                     ThreadStops
<1>11. CASE Close \/ CloseStep
  BY <1>2, <1>11
     DEF Close, CloseStep, CloseStarted, CloseTerminated, CloseSettles
<1>12. CASE UNCHANGED vars
  BY <1>2, <1>12 DEF vars
<1>13. ASSUME NEW r \in Runs, Call(r) \/ Release(r) PROVE P
  BY <1>13 DEF P
<1> QED BY <1>4, <1>5, <1>6, <1>7, <1>8, <1>9, <1>10, <1>11, <1>12, <1>13
        DEF Next, Outside, RunStep, Consume, ThreadStep

LEMMA NextKeepsChain == TypeInv /\ Chain /\ [Next]_vars => Chain'
<1> SUFFICES ASSUME TypeInv, Chain, [Next]_vars PROVE Chain'
  OBVIOUS
<1> QED BY WhoGoesOn, CallKeepsChain, ReleaseKeepsChain, GoesOnKeepsChain,
           SameChain DEF TypeInv

LEMMA InitChain == Init => Chain
<1> SUFFICES ASSUME Init PROVE Chain
  OBVIOUS
<1>1. order = <<>> /\ released = {} /\ Len(order) = 0
  BY DEF Init
<1>2. \A r \in Runs : pc[r] = "idle"
  BY DEF Init
<1> QED BY <1>1, <1>2 DEF Chain, ChainListsRuns, ChainReleases, ReleasedEnded
-----------------------------------------------------------------------------
(* The sets of workers: who has charge of a set whose threads still live.  *)

LiveSets == {e \in Runs : LiveSet(e)}
StoppedSets == {e \in Runs : Stopped(e)}

\* Threads only ever end, and a set that has stopped has for good.
Fading == LiveSets' \subseteq LiveSets /\ StoppedSets \subseteq StoppedSets'

\* The pool, or close(), holds the set.
Holds(e) == members = e \/ closeSet = e

GivenUp(r) ==
  pc[r] \in {"cleanup", "awaitRetire"} \/ (Listening(r) /\ discarding[r])

\* A run's set is started once, by that run, after its turn has come.
NotYetStarted == \A r \in Runs :
  pc[r] \in {"idle", "queued", "awaitMembers", "awaitRetire"} =>
    startState[r] = "none"
StarterWaits == \A e \in Runs :
  startState[e] \in {"pending", "retiring"} => pc[e] = "awaitStart"
OwnSet == \A r \in Runs : pc[r] = "awaitStart" => uses[r] = r
Begun == \A e \in Runs :
  (\/ e \in retiring \cup forgotten \/ Holds(e)
   \/ \E r \in Runs : Active(r) /\ uses[r] = e) => startState[e] # "none"
ListensToStarted == \A r \in Runs :
  Listening(r) => startState[uses[r]] = "fulfilled"

StartsOnce ==
  NotYetStarted /\ StarterWaits /\ OwnSet /\ Begun /\ ListensToStarted

\* What the pool holds is neither given up nor forgotten, and nobody has two.
ClosedHoldsNone ==
  /\ closed <=> closing # "none"
  /\ closed => members = None
  /\ ~closed => closeSet = None
HeldIsKept == members \notin retiring \cup forgotten
HeldStarts == members # None =>
  /\ startState[members] # "retiring"
  /\ startState[members] = "rejected" => "spawnThrows" \in Faults
HeldIsUsed == \A r \in Runs :
  Active(r) => members \in {None, uses[r]} /\ closeSet \in {None, uses[r]}

InHand == ClosedHoldsNone /\ HeldIsKept /\ HeldStarts /\ HeldIsUsed

\* Whoever lets go of a set that lives has it terminated first.
AwaitedIsHeld == \A r \in Runs :
  (/\ pc[r] \in {"awaitMembers", "awaitStart"}
   /\ startState[uses[r]] \in {"pending", "fulfilled"})
    => Holds(uses[r])
ListenedIsHeld == \A r \in Runs :
  Listening(r) /\ ~discarding[r] => Holds(uses[r])
GivenUpEnds == \A r \in Runs : GivenUp(r) =>
  members = None /\ (uses[r] \in retiring \/ uses[r] \notin LiveSets)
DiscardsOnce == \A r \in Runs :
  discarding[r] => Listening(r) \/ pc[r] \in {"cleanup", "ended"}
FailedStartEnds == \A e \in Runs :
  startState[e] = "retiring" => e \in retiring \/ e \notin LiveSets
RejectedIsHeld == \A e \in LiveSets :
  startState[e] = "rejected" => Holds(e) /\ "spawnThrows" \in Faults
LiveIsTended == \A e \in LiveSets :
  Holds(e) \/ \E r \in Runs : Active(r) /\ uses[r] = e
ForgottenStopped == forgotten \subseteq StoppedSets

Tended ==
  /\ AwaitedIsHeld /\ ListenedIsHeld /\ GivenUpEnds /\ DiscardsOnce
  /\ FailedStartEnds /\ RejectedIsHeld /\ LiveIsTended /\ ForgottenStopped

SetsInv == TypeInv /\ Chain /\ StartsOnce /\ InHand /\ Tended

-----------------------------------------------------------------------------
LEMMA StoppedIsNotLive == LiveSets \cap StoppedSets = {}
  BY DEF LiveSets, StoppedSets, LiveSet, Stopped, Lives

LEMMA SameFades == ASSUME UNCHANGED <<th, mail>> PROVE Fading
  BY DEF Fading, LiveSets, StoppedSets, LiveSet, Stopped, Lives

LEMMA StopFades ==
  ASSUME TypeOK, NEW e \in Runs, th' = StopThreads(e), mail' = StopMail(e)
  PROVE  Fading
<1>1. \A f \in Runs, s \in Slots : Lives(f, s)' => Lives(f, s)
  BY DEF TypeOK, StopThreads, Lives
<1>2. \A f \in Runs, s \in Slots :
        th[f][s] \in {"unborn", "gone"} => th'[f][s] = th[f][s]
  BY DEF TypeOK, StopThreads, Lives
<1>3. \A f \in Runs, s \in Slots : mail[f][s] = <<>> => mail'[f][s] = <<>>
  BY DEF TypeOK, StopMail
<1>4. LiveSets' \subseteq LiveSets
  BY <1>1 DEF LiveSets, LiveSet
<1>5. StoppedSets \subseteq StoppedSets'
  BY <1>2, <1>3 DEF StoppedSets, Stopped
<1> QED BY <1>4, <1>5 DEF Fading

LEMMA ThreadFades ==
  ASSUME TypeOK, NEW e \in Runs, NEW s \in Slots,
         ThreadDies(e, s) \/ ThreadExitsZero(e, s) \/ ThreadStep(e, s)
  PROVE  Fading
<1>1. \/ th[e][s] \in {"loading", "up", "stopping"}
      \/ mail[e][s] # <<>>
  BY DEF ThreadDies, ThreadExitsZero, ThreadStep, ThreadLoads, ThreadAnswers,
         ThreadStops, Deliver
<1>2. \/ th' = th
      \/ /\ th[e][s] \in {"loading", "up", "stopping"}
         /\ \E x \in {"up", "gone"} : th' = [th EXCEPT ![e][s] = x]
  BY DEF ThreadDies, ThreadExitsZero, ThreadStep, ThreadLoads, ThreadAnswers,
         ThreadStops, Deliver
<1>3. \E x : mail' = [mail EXCEPT ![e][s] = x]
  BY DEF ThreadDies, ThreadExitsZero, ThreadStep, ThreadLoads, ThreadAnswers,
         ThreadStops, Deliver, Send
<1>4. ASSUME NEW f \in Runs, NEW q \in Slots, Lives(f, q)' PROVE Lives(f, q)
  <2>1. CASE th' = th
    BY <1>4, <2>1 DEF Lives
  <2>2. CASE th' # th
    <3>1. PICK x \in {"up", "gone"} : th' = [th EXCEPT ![e][s] = x]
      BY <1>2, <2>2
    <3>2. (f = e /\ q = s) \/ th'[f][q] = th[f][q]
      BY <3>1 DEF TypeOK
    <3> QED BY <1>2, <1>4, <2>2, <3>2 DEF Lives
  <2> QED BY <2>1, <2>2
<1>5. LiveSets' \subseteq LiveSets
  BY <1>4 DEF LiveSets, LiveSet
<1>6. ASSUME NEW f \in Runs, Stopped(f) PROVE Stopped(f)'
  <2>1. f # e
    BY <1>1, <1>6 DEF Stopped
  <2>2. \A q \in Slots : th'[f][q] = th[f][q] /\ mail'[f][q] = mail[f][q]
    BY <1>2, <1>3, <2>1 DEF TypeOK
  <2> QED BY <1>6, <2>2 DEF Stopped
<1>7. StoppedSets \subseteq StoppedSets'
  BY <1>6 DEF StoppedSets
<1> QED BY <1>5, <1>7 DEF Fading

\* A run begins a set of its own.
Begins(r) ==
  /\ pc[r] \in {"queued", "awaitRetire"}
  /\ pc[r] = "queued" => members = None
  /\ pc[r] = "awaitRetire" => uses[r] \notin retiring
  /\ ~closed
  /\ members' = r
  /\ uses' = [uses EXCEPT ![r] = r]
  /\ pc' = [pc EXCEPT ![r] = "awaitStart"]
  /\ \E x \in {"pending", "rejected"} :
       /\ startState' = [startState EXCEPT ![r] = x]
       /\ x = "rejected" => "spawnThrows" \in Faults
  /\ UNCHANGED <<closed, retiring, forgotten, closeVars, discarding>>
  /\ LiveSets' \subseteq LiveSets \cup {r}
  /\ StoppedSets \ {r} \subseteq StoppedSets'

LEMMA StartBegins ==
  ASSUME TypeInv, NEW r \in Runs, Start(r), ~closed,
         \/ pc[r] = "queued" /\ members = None
         \/ pc[r] = "awaitRetire" /\ uses[r] \notin retiring,
         UNCHANGED <<closed, retiring, forgotten, closeVars, discarding>>
  PROVE  Begins(r)
<1>1. /\ \E x : th' = [th EXCEPT ![r] = x]
      /\ mail' = mail
  BY DEF Start, SpawnAll, SpawnSome
<1>2. \A f \in Runs, s \in Slots : f # r => th'[f][s] = th[f][s]
  BY <1>1 DEF TypeInv, TypeOK
<1>3. LiveSets' \subseteq LiveSets \cup {r}
  BY <1>2 DEF LiveSets, LiveSet, Lives
<1>4. StoppedSets \ {r} \subseteq StoppedSets'
  BY <1>1, <1>2 DEF StoppedSets, Stopped
<1>5. \E x \in {"pending", "rejected"} :
        /\ startState' = [startState EXCEPT ![r] = x]
        /\ x = "rejected" => "spawnThrows" \in Faults
  BY DEF Start, SpawnAll, SpawnSome
<1>6. /\ members' = r /\ uses' = [uses EXCEPT ![r] = r]
      /\ pc' = [pc EXCEPT ![r] = "awaitStart"]
  BY DEF Start
<1> QED BY <1>3, <1>4, <1>5, <1>6 DEF Begins

\* A run that waits, or turns away, leaves every set as it is.
StepsOn(r, to) ==
  /\ pc' = [pc EXCEPT ![r] = to]
  /\ \/ pc[r] = "idle" /\ to = "queued"
     \/ pc[r] = "queued" /\ to = "ended"
     \/ /\ pc[r] \in {"awaitMembers", "awaitStart"} /\ to = "ended"
        /\ startState[uses[r]] \in {"rejected", "fulfilled"}
     \/ /\ pc[r] \in {"awaitMembers", "awaitStart"}
        /\ to \in {"parked", "yielded"}
        /\ startState[uses[r]] = "fulfilled"
     \/ /\ pc[r] \in {"awaitRetire", "cleanup"} /\ to = "ended"
        /\ uses[r] \notin retiring
     \/ Listening(r) /\ to \in {"parked", "woken", "yielded"}
     \/ Listening(r) /\ ~discarding[r] /\ to = "ended"
     \/ Listening(r) /\ discarding[r] /\ to = "cleanup"
  /\ UNCHANGED <<members, closed, retiring, forgotten, closeVars, startState,
                 uses, discarding>>
  /\ Fading

\* Nothing but threads and what they sent changes.
Rests ==
  /\ UNCHANGED <<members, closed, retiring, forgotten, closeVars, startState,
                 pc, uses, discarding>>
  /\ Fading

\* A run waits for the set the pool holds.
Joins(r) ==
  /\ pc[r] = "queued" /\ ~closed /\ members # None
  /\ uses' = [uses EXCEPT ![r] = members]
  /\ pc' = [pc EXCEPT ![r] = "awaitMembers"]
  /\ UNCHANGED <<members, closed, retiring, forgotten, closeVars, startState,
                 discarding>>
  /\ Fading

\* A run has its set terminated, and the pool no longer holds it.
GivesUp(r, to) ==
  /\ pc[r] \in {"awaitMembers", "awaitStart"} \/ Listening(r)
  /\ startState[uses[r]] = "fulfilled"
  /\ members' = None
  /\ retiring' = retiring \cup {uses[r]}
  /\ pc' = [pc EXCEPT ![r] = to]
  /\ \/ /\ pc[r] = "awaitMembers" /\ to = "awaitRetire"
        /\ discarding' = discarding
     \/ /\ to = "cleanup" \/ (Listening(r) /\ to \in {pc[r], "woken"})
        /\ discarding' = [discarding EXCEPT ![r] = TRUE]
  /\ UNCHANGED <<closed, forgotten, closeVars, startState, uses>>
  /\ Fading
-----------------------------------------------------------------------------
USE DEF Active, WithSet, Listening, Holds, GivenUp

LEMMA StepsOnKeeps ==
  ASSUME SetsInv, NEW r \in Runs, NEW to \in PCs, StepsOn(r, to)
  PROVE  (StartsOnce /\ InHand /\ Tended)'
<1> USE DEF SetsInv, TypeInv, StartsOnce, InHand, Tended
<1>1. NotYetStarted'
  BY DEF NotYetStarted, TypeOK, StepsOn
<1>2. StarterWaits'
  BY DEF StarterWaits, OwnSet, TypeOK, StepsOn
<1>3. OwnSet'
  BY DEF OwnSet, TypeOK, StepsOn
<1>4. Begun'
  BY DEF Begun, TypeOK, StepsOn
<1>5. ListensToStarted'
  BY DEF ListensToStarted, TypeOK, StepsOn
<1>6. ClosedHoldsNone'
  BY DEF ClosedHoldsNone, TypeOK, StepsOn
<1>7. HeldIsKept'
  BY DEF HeldIsKept, TypeOK, StepsOn
<1>8. HeldStarts'
  BY DEF HeldStarts, TypeOK, StepsOn
<1>9. HeldIsUsed'
  BY DEF HeldIsUsed, TypeOK, StepsOn
<1>10. AwaitedIsHeld'
  BY DEF AwaitedIsHeld, TypeOK, StepsOn
<1>11. ListenedIsHeld'
  BY DEF ListenedIsHeld, AwaitedIsHeld, TypeOK, StepsOn
<1>12. GivenUpEnds'
  BY DEF GivenUpEnds, Fading, DiscardsOnce, TypeOK, StepsOn
<1>13. DiscardsOnce'
  BY DEF DiscardsOnce, TypeOK, StepsOn
<1>14. FailedStartEnds'
  BY DEF FailedStartEnds, Fading, TypeOK, StepsOn
<1>15. RejectedIsHeld'
  BY DEF RejectedIsHeld, Fading, TypeOK, StepsOn
<1>16. LiveIsTended'
  BY DEF LiveIsTended, Fading, AwaitedIsHeld, RejectedIsHeld, ListenedIsHeld,
     GivenUpEnds, TypeOK, StepsOn
<1>17. ForgottenStopped'
  BY DEF ForgottenStopped, Fading, TypeOK, StepsOn
<1> QED BY <1>1, <1>2, <1>3, <1>4, <1>5, <1>6, <1>7, <1>8, <1>9, <1>10,
           <1>11, <1>12, <1>13, <1>14, <1>15, <1>16, <1>17

LEMMA RestsKeeps ==
  ASSUME SetsInv, Rests
  PROVE  (StartsOnce /\ InHand /\ Tended)'
<1> USE DEF SetsInv, TypeInv, StartsOnce, InHand, Tended
<1>1. NotYetStarted'
  BY DEF NotYetStarted, TypeOK, Rests
<1>2. StarterWaits'
  BY DEF StarterWaits, TypeOK, Rests
<1>3. OwnSet'
  BY DEF OwnSet, TypeOK, Rests
<1>4. Begun'
  BY DEF Begun, TypeOK, Rests
<1>5. ListensToStarted'
  BY DEF ListensToStarted, TypeOK, Rests
<1>6. ClosedHoldsNone'
  BY DEF ClosedHoldsNone, TypeOK, Rests
<1>7. HeldIsKept'
  BY DEF HeldIsKept, TypeOK, Rests
<1>8. HeldStarts'
  BY DEF HeldStarts, TypeOK, Rests
<1>9. HeldIsUsed'
  BY DEF HeldIsUsed, TypeOK, Rests
<1>10. AwaitedIsHeld'
  BY DEF AwaitedIsHeld, TypeOK, Rests
<1>11. ListenedIsHeld'
  BY DEF ListenedIsHeld, TypeOK, Rests
<1>12. GivenUpEnds'
  BY DEF GivenUpEnds, Fading, TypeOK, Rests
<1>13. DiscardsOnce'
  BY DEF DiscardsOnce, TypeOK, Rests
<1>14. FailedStartEnds'
  BY DEF FailedStartEnds, Fading, TypeOK, Rests
<1>15. RejectedIsHeld'
  BY DEF RejectedIsHeld, Fading, TypeOK, Rests
<1>16. LiveIsTended'
  BY DEF LiveIsTended, Fading, TypeOK, Rests
<1>17. ForgottenStopped'
  BY DEF ForgottenStopped, Fading, TypeOK, Rests
<1> QED BY <1>1, <1>2, <1>3, <1>4, <1>5, <1>6, <1>7, <1>8, <1>9, <1>10,
           <1>11, <1>12, <1>13, <1>14, <1>15, <1>16, <1>17

LEMMA JoinsKeeps ==
  ASSUME SetsInv, NEW r \in Runs, Joins(r)
  PROVE  (StartsOnce /\ InHand /\ Tended)'
<1> USE DEF SetsInv, TypeInv, StartsOnce, InHand, Tended
<1>1. NotYetStarted'
  BY DEF NotYetStarted, TypeOK, Joins
<1>2. StarterWaits'
  BY DEF StarterWaits, TypeOK, Joins
<1>3. OwnSet'
  BY DEF OwnSet, TypeOK, Joins
<1>4. Begun'
  BY DEF Begun, TypeOK, Joins
<1>5. ListensToStarted'
  BY DEF ListensToStarted, TypeOK, Joins
<1>6. ClosedHoldsNone'
  BY DEF ClosedHoldsNone, TypeOK, Joins
<1>7. HeldIsKept'
  BY DEF HeldIsKept, TypeOK, Joins
<1>8. HeldStarts'
  BY DEF HeldStarts, TypeOK, Joins
<1>9. HeldIsUsed'
  BY DEF HeldIsUsed, ClosedHoldsNone, TypeOK, Joins
<1>10. AwaitedIsHeld'
  BY DEF AwaitedIsHeld, TypeOK, Joins
<1>11. ListenedIsHeld'
  BY DEF ListenedIsHeld, TypeOK, Joins
<1>12. GivenUpEnds'
  BY DEF GivenUpEnds, Fading, TypeOK, Joins
<1>13. DiscardsOnce'
  BY DEF DiscardsOnce, TypeOK, Joins
<1>14. FailedStartEnds'
  BY DEF FailedStartEnds, Fading, TypeOK, Joins
<1>15. RejectedIsHeld'
  BY DEF RejectedIsHeld, Fading, TypeOK, Joins
<1>16. LiveIsTended'
  BY DEF LiveIsTended, Fading, TypeOK, Joins
<1>17. ForgottenStopped'
  BY DEF ForgottenStopped, Fading, TypeOK, Joins
<1> QED BY <1>1, <1>2, <1>3, <1>4, <1>5, <1>6, <1>7, <1>8, <1>9, <1>10,
           <1>11, <1>12, <1>13, <1>14, <1>15, <1>16, <1>17

LEMMA BeginsKeeps ==
  ASSUME SetsInv, OneActive', NEW r \in Runs, Begins(r)
  PROVE  (StartsOnce /\ InHand /\ Tended)'
<1> USE DEF SetsInv, TypeInv, StartsOnce, InHand, Tended
<1>1. NotYetStarted'
  BY DEF NotYetStarted, TypeOK, Begins
<1>2. StarterWaits'
  BY DEF StarterWaits, TypeOK, Begins
<1>3. OwnSet'
  BY DEF OwnSet, TypeOK, Begins
<1>4. Begun'
  BY DEF Begun, TypeOK, Begins
<1>5. ListensToStarted'
  BY DEF ListensToStarted, NotYetStarted, TypeOK, Begins
<1>6. ClosedHoldsNone'
  BY DEF ClosedHoldsNone, TypeOK, Begins
<1>7. HeldIsKept'
  BY DEF HeldIsKept, NotYetStarted, Begun, TypeOK, Begins
<1>8. HeldStarts'
  BY DEF HeldStarts, TypeOK, Begins
<1>9. HeldIsUsed'
  BY DEF HeldIsUsed, ClosedHoldsNone, OneActive, TypeOK, Begins
<1>10. AwaitedIsHeld'
  BY DEF AwaitedIsHeld, OneActive, TypeOK, Begins
<1>11. ListenedIsHeld'
  BY DEF ListenedIsHeld, OneActive, TypeOK, Begins
<1>12. GivenUpEnds'
  BY DEF GivenUpEnds, OneActive, TypeOK, Begins
<1>13. DiscardsOnce'
  BY DEF DiscardsOnce, TypeOK, Begins
<1>14. FailedStartEnds'
  BY DEF FailedStartEnds, TypeOK, Begins
<1>15. RejectedIsHeld'
  BY PoolAssumption DEF RejectedIsHeld, ClosedHoldsNone, GivenUpEnds,
     LiveSets, TypeOK, Begins
<1>16. LiveIsTended'
  <2> SUFFICES ASSUME NEW e \in LiveSets', e # r
               PROVE  \E q \in Runs : Active(q)' /\ uses'[q] = e
    BY DEF LiveIsTended, Begins
  <2>1. e \in LiveSets /\ e \in Runs
    BY DEF Begins, LiveSets
  <2>2. ~Holds(e)
    BY <2>1, PoolAssumption DEF Begins, ClosedHoldsNone, GivenUpEnds
  <2>3. PICK q \in Runs : Active(q) /\ uses[q] = e
    BY <2>1, <2>2 DEF LiveIsTended
  <2>4. q # r
    BY <2>1, <2>3 DEF Begins, GivenUpEnds
  <2>5. Active(q)' /\ uses'[q] = e
    BY <2>3, <2>4 DEF Begins, TypeOK
  <2> QED BY <2>5
<1>17. ForgottenStopped'
  BY DEF ForgottenStopped, NotYetStarted, Begun, TypeOK, Begins
<1> QED BY <1>1, <1>2, <1>3, <1>4, <1>5, <1>6, <1>7, <1>8, <1>9, <1>10,
           <1>11, <1>12, <1>13, <1>14, <1>15, <1>16, <1>17

LEMMA GivesUpKeeps ==
  ASSUME SetsInv, OneActive, NEW r \in Runs, NEW to \in PCs, GivesUp(r, to)
  PROVE  (StartsOnce /\ InHand /\ Tended)'
<1> USE DEF SetsInv, TypeInv, StartsOnce, InHand, Tended
<1>1. NotYetStarted'
  BY DEF NotYetStarted, TypeOK, GivesUp
<1>2. StarterWaits'
  BY DEF StarterWaits, OwnSet, TypeOK, GivesUp
<1>3. OwnSet'
  BY DEF OwnSet, TypeOK, GivesUp
<1>4. Begun'
  BY PoolAssumption DEF Begun, HasSet, TypeOK, GivesUp
<1>5. ListensToStarted'
  BY DEF ListensToStarted, TypeOK, GivesUp
<1>6. ClosedHoldsNone'
  BY DEF ClosedHoldsNone, TypeOK, GivesUp
<1>7. HeldIsKept'
  BY PoolAssumption DEF HeldIsKept, HasSet, TypeOK, GivesUp
<1>8. HeldStarts'
  BY DEF HeldStarts, TypeOK, GivesUp
<1>9. HeldIsUsed'
  BY DEF HeldIsUsed, TypeOK, GivesUp
<1>10. AwaitedIsHeld'
  BY DEF AwaitedIsHeld, OneActive, TypeOK, GivesUp
<1>11. ListenedIsHeld'
  BY DEF ListenedIsHeld, OneActive, TypeOK, GivesUp
<1>12. GivenUpEnds'
  BY DEF GivenUpEnds, Fading, TypeOK, GivesUp
<1>13. DiscardsOnce'
  BY DEF DiscardsOnce, TypeOK, GivesUp
<1>14. FailedStartEnds'
  BY DEF FailedStartEnds, Fading, TypeOK, GivesUp
<1>15. RejectedIsHeld'
  BY PoolAssumption DEF RejectedIsHeld, Fading, HeldIsUsed, LiveSets, TypeOK,
     GivesUp
<1>16. LiveIsTended'
  BY PoolAssumption DEF LiveIsTended, Fading, HeldIsUsed, LiveSets, TypeOK,
     GivesUp
<1>17. ForgottenStopped'
  BY DEF ForgottenStopped, Fading, TypeOK, GivesUp
<1> QED BY <1>1, <1>2, <1>3, <1>4, <1>5, <1>6, <1>7, <1>8, <1>9, <1>10,
           <1>11, <1>12, <1>13, <1>14, <1>15, <1>16, <1>17

LEMMA RetireSettlesKeeps ==
  ASSUME SetsInv, Fading, NEW e \in Runs, RetireSettles(e)
  PROVE  (StartsOnce /\ InHand /\ Tended)'
<1> USE DEF SetsInv, TypeInv, StartsOnce, InHand, Tended
<1>1. NotYetStarted'
  BY DEF NotYetStarted, TypeOK, RetireSettles
<1>2. StarterWaits'
  BY DEF StarterWaits, TypeOK, RetireSettles
<1>3. OwnSet'
  BY DEF OwnSet, TypeOK, RetireSettles
<1>4. Begun'
  BY DEF Begun, TypeOK, RetireSettles
<1>5. ListensToStarted'
  BY DEF ListensToStarted, TypeOK, RetireSettles
<1>6. ClosedHoldsNone'
  BY DEF ClosedHoldsNone, TypeOK, RetireSettles
<1>7. HeldIsKept'
  BY DEF HeldIsKept, TypeOK, RetireSettles
<1>8. HeldStarts'
  BY DEF HeldStarts, TypeOK, RetireSettles
<1>9. HeldIsUsed'
  BY DEF HeldIsUsed, TypeOK, RetireSettles
<1>10. AwaitedIsHeld'
  BY DEF AwaitedIsHeld, TypeOK, RetireSettles
<1>11. ListenedIsHeld'
  BY DEF ListenedIsHeld, TypeOK, RetireSettles
<1>12. GivenUpEnds'
  BY StoppedIsNotLive DEF GivenUpEnds, Fading, StoppedSets, TypeOK,
     RetireSettles
<1>13. DiscardsOnce'
  BY DEF DiscardsOnce, TypeOK, RetireSettles
<1>14. FailedStartEnds'
  BY StoppedIsNotLive DEF FailedStartEnds, Fading, StoppedSets, TypeOK,
     RetireSettles
<1>15. RejectedIsHeld'
  BY DEF RejectedIsHeld, Fading, TypeOK, RetireSettles
<1>16. LiveIsTended'
  BY DEF LiveIsTended, Fading, TypeOK, RetireSettles
<1>17. ForgottenStopped'
  BY DEF ForgottenStopped, Fading, StoppedSets, TypeOK, RetireSettles
<1> QED BY <1>1, <1>2, <1>3, <1>4, <1>5, <1>6, <1>7, <1>8, <1>9, <1>10,
           <1>11, <1>12, <1>13, <1>14, <1>15, <1>16, <1>17

LEMMA StartFulfilsKeeps ==
  ASSUME SetsInv, Fading, NEW e \in Runs, StartFulfils(e)
  PROVE  (StartsOnce /\ InHand /\ Tended)'
<1> USE DEF SetsInv, TypeInv, StartsOnce, InHand, Tended
<1>1. NotYetStarted'
  BY DEF NotYetStarted, TypeOK, StartFulfils
<1>2. StarterWaits'
  BY DEF StarterWaits, TypeOK, StartFulfils
<1>3. OwnSet'
  BY DEF OwnSet, TypeOK, StartFulfils
<1>4. Begun'
  BY DEF Begun, TypeOK, StartFulfils
<1>5. ListensToStarted'
  BY DEF ListensToStarted, TypeOK, StartFulfils
<1>6. ClosedHoldsNone'
  BY DEF ClosedHoldsNone, TypeOK, StartFulfils
<1>7. HeldIsKept'
  BY DEF HeldIsKept, TypeOK, StartFulfils
<1>8. HeldStarts'
  BY DEF HeldStarts, TypeOK, StartFulfils
<1>9. HeldIsUsed'
  BY DEF HeldIsUsed, TypeOK, StartFulfils
<1>10. AwaitedIsHeld'
  BY DEF AwaitedIsHeld, TypeOK, StartFulfils
<1>11. ListenedIsHeld'
  BY DEF ListenedIsHeld, TypeOK, StartFulfils
<1>12. GivenUpEnds'
  BY DEF GivenUpEnds, Fading, TypeOK, StartFulfils
<1>13. DiscardsOnce'
  BY DEF DiscardsOnce, TypeOK, StartFulfils
<1>14. FailedStartEnds'
  BY DEF FailedStartEnds, Fading, TypeOK, StartFulfils
<1>15. RejectedIsHeld'
  BY DEF RejectedIsHeld, Fading, TypeOK, StartFulfils
<1>16. LiveIsTended'
  BY DEF LiveIsTended, Fading, TypeOK, StartFulfils
<1>17. ForgottenStopped'
  BY DEF ForgottenStopped, Fading, TypeOK, StartFulfils
<1> QED BY <1>1, <1>2, <1>3, <1>4, <1>5, <1>6, <1>7, <1>8, <1>9, <1>10,
           <1>11, <1>12, <1>13, <1>14, <1>15, <1>16, <1>17

LEMMA StartFailsKeeps ==
  ASSUME SetsInv, OneActive, Fading, NEW e \in Runs, StartFails(e)
  PROVE  (StartsOnce /\ InHand /\ Tended)'
<1> USE DEF SetsInv, TypeInv, StartsOnce, InHand, Tended
<1>1. NotYetStarted'
  BY DEF NotYetStarted, TypeOK, StartFails, RetireWith
<1>2. StarterWaits'
  BY DEF StarterWaits, TypeOK, StartFails, RetireWith
<1>3. OwnSet'
  BY DEF OwnSet, TypeOK, StartFails, RetireWith
<1>4. Begun'
  BY PoolAssumption DEF Begun, TypeOK, StartFails, RetireWith
<1>5. ListensToStarted'
  BY DEF ListensToStarted, TypeOK, StartFails, RetireWith
<1>6. ClosedHoldsNone'
  BY DEF ClosedHoldsNone, TypeOK, StartFails, RetireWith
<1>7. HeldIsKept'
  BY PoolAssumption DEF HeldIsKept, TypeOK, StartFails, RetireWith
<1>8. HeldStarts'
  BY DEF HeldStarts, TypeOK, StartFails, RetireWith
<1>9. HeldIsUsed'
  BY DEF HeldIsUsed, TypeOK, StartFails, RetireWith
<1>10. AwaitedIsHeld'
  BY DEF AwaitedIsHeld, StarterWaits, OwnSet, OneActive, TypeOK, StartFails,
     RetireWith
<1>11. ListenedIsHeld'
  BY DEF ListenedIsHeld, StarterWaits, OneActive, TypeOK, StartFails,
     RetireWith
<1>12. GivenUpEnds'
  BY DEF GivenUpEnds, Fading, TypeOK, StartFails, RetireWith
<1>13. DiscardsOnce'
  BY DEF DiscardsOnce, TypeOK, StartFails, RetireWith
<1>14. FailedStartEnds'
  BY DEF FailedStartEnds, Fading, TypeOK, StartFails, RetireWith
<1>15. RejectedIsHeld'
  BY PoolAssumption DEF RejectedIsHeld, Fading, StarterWaits, OwnSet,
     HeldIsUsed, LiveSets, TypeOK, StartFails, RetireWith
<1>16. LiveIsTended'
  BY PoolAssumption DEF LiveIsTended, Fading, StarterWaits, OwnSet,
     HeldIsUsed, LiveSets, TypeOK, StartFails, RetireWith
<1>17. ForgottenStopped'
  BY DEF ForgottenStopped, Fading, TypeOK, StartFails, RetireWith
<1> QED BY <1>1, <1>2, <1>3, <1>4, <1>5, <1>6, <1>7, <1>8, <1>9, <1>10,
           <1>11, <1>12, <1>13, <1>14, <1>15, <1>16, <1>17

LEMMA StartRejectsKeeps ==
  ASSUME SetsInv, Fading, NEW e \in Runs, StartRejects(e)
  PROVE  (StartsOnce /\ InHand /\ Tended)'
<1> USE DEF SetsInv, TypeInv, StartsOnce, InHand, Tended
<1>1. NotYetStarted'
  BY DEF NotYetStarted, TypeOK, StartRejects
<1>2. StarterWaits'
  BY DEF StarterWaits, TypeOK, StartRejects
<1>3. OwnSet'
  BY DEF OwnSet, TypeOK, StartRejects
<1>4. Begun'
  BY DEF Begun, TypeOK, StartRejects
<1>5. ListensToStarted'
  BY DEF ListensToStarted, TypeOK, StartRejects
<1>6. ClosedHoldsNone'
  BY DEF ClosedHoldsNone, TypeOK, StartRejects
<1>7. HeldIsKept'
  BY DEF HeldIsKept, TypeOK, StartRejects
<1>8. HeldStarts'
  BY DEF HeldStarts, TypeOK, StartRejects
<1>9. HeldIsUsed'
  BY DEF HeldIsUsed, TypeOK, StartRejects
<1>10. AwaitedIsHeld'
  BY DEF AwaitedIsHeld, TypeOK, StartRejects
<1>11. ListenedIsHeld'
  BY DEF ListenedIsHeld, TypeOK, StartRejects
<1>12. GivenUpEnds'
  BY DEF GivenUpEnds, Fading, TypeOK, StartRejects
<1>13. DiscardsOnce'
  BY DEF DiscardsOnce, TypeOK, StartRejects
<1>14. FailedStartEnds'
  BY DEF FailedStartEnds, Fading, TypeOK, StartRejects
<1>15. RejectedIsHeld'
  BY DEF RejectedIsHeld, Fading, FailedStartEnds, TypeOK, StartRejects
<1>16. LiveIsTended'
  BY DEF LiveIsTended, Fading, TypeOK, StartRejects
<1>17. ForgottenStopped'
  BY DEF ForgottenStopped, Fading, TypeOK, StartRejects
<1> QED BY <1>1, <1>2, <1>3, <1>4, <1>5, <1>6, <1>7, <1>8, <1>9, <1>10,
           <1>11, <1>12, <1>13, <1>14, <1>15, <1>16, <1>17

LEMMA CloseKeeps ==
  ASSUME SetsInv, Fading, Close
  PROVE  (StartsOnce /\ InHand /\ Tended)'
<1> USE DEF SetsInv, TypeInv, StartsOnce, InHand, Tended
<1>1. NotYetStarted'
  BY DEF NotYetStarted, TypeOK, Close, AwaitRetiring
<1>2. StarterWaits'
  BY DEF StarterWaits, TypeOK, Close, AwaitRetiring
<1>3. OwnSet'
  BY DEF OwnSet, TypeOK, Close, AwaitRetiring
<1>4. Begun'
  BY PoolAssumption DEF Begun, TypeOK, Close, AwaitRetiring
<1>5. ListensToStarted'
  BY DEF ListensToStarted, TypeOK, Close, AwaitRetiring
<1>6. ClosedHoldsNone'
  BY DEF ClosedHoldsNone, TypeOK, Close, AwaitRetiring
<1>7. HeldIsKept'
  BY PoolAssumption DEF HeldIsKept, TypeOK, Close, AwaitRetiring
<1>8. HeldStarts'
  BY DEF HeldStarts, TypeOK, Close, AwaitRetiring
<1>9. HeldIsUsed'
  BY DEF HeldIsUsed, ClosedHoldsNone, TypeOK, Close, AwaitRetiring
<1>10. AwaitedIsHeld'
  BY PoolAssumption DEF AwaitedIsHeld, ClosedHoldsNone, HasSet, TypeOK,
     Close, AwaitRetiring
<1>11. ListenedIsHeld'
  BY PoolAssumption DEF ListenedIsHeld, ClosedHoldsNone, HasSet, TypeOK,
     Close, AwaitRetiring
<1>12. GivenUpEnds'
  BY DEF GivenUpEnds, Fading, TypeOK, Close, AwaitRetiring
<1>13. DiscardsOnce'
  BY DEF DiscardsOnce, TypeOK, Close, AwaitRetiring
<1>14. FailedStartEnds'
  BY DEF FailedStartEnds, Fading, TypeOK, Close, AwaitRetiring
<1>15. RejectedIsHeld'
  BY PoolAssumption DEF RejectedIsHeld, Fading, ClosedHoldsNone, LiveSets,
     TypeOK, Close, AwaitRetiring
<1>16. LiveIsTended'
  BY PoolAssumption DEF LiveIsTended, Fading, ClosedHoldsNone, LiveSets,
     TypeOK, Close, AwaitRetiring
<1>17. ForgottenStopped'
  BY DEF ForgottenStopped, Fading, TypeOK, Close, AwaitRetiring
<1> QED BY <1>1, <1>2, <1>3, <1>4, <1>5, <1>6, <1>7, <1>8, <1>9, <1>10,
           <1>11, <1>12, <1>13, <1>14, <1>15, <1>16, <1>17

LEMMA CloseStartedKeeps ==
  ASSUME SetsInv, Fading, CloseStarted
  PROVE  (StartsOnce /\ InHand /\ Tended)'
<1> USE DEF SetsInv, TypeInv, StartsOnce, InHand, Tended
<1>1. NotYetStarted'
  BY DEF NotYetStarted, TypeOK, CloseStarted, AwaitRetiring
<1>2. StarterWaits'
  BY DEF StarterWaits, TypeOK, CloseStarted, AwaitRetiring
<1>3. OwnSet'
  BY DEF OwnSet, TypeOK, CloseStarted, AwaitRetiring
<1>4. Begun'
  BY DEF Begun, TypeOK, CloseStarted, AwaitRetiring
<1>5. ListensToStarted'
  BY DEF ListensToStarted, TypeOK, CloseStarted, AwaitRetiring
<1>6. ClosedHoldsNone'
  BY DEF ClosedHoldsNone, TypeOK, CloseStarted, AwaitRetiring
<1>7. HeldIsKept'
  BY DEF HeldIsKept, TypeOK, CloseStarted, AwaitRetiring
<1>8. HeldStarts'
  BY DEF HeldStarts, TypeOK, CloseStarted, AwaitRetiring
<1>9. HeldIsUsed'
  BY DEF HeldIsUsed, TypeOK, CloseStarted, AwaitRetiring
<1>10. AwaitedIsHeld'
  BY DEF AwaitedIsHeld, TypeOK, CloseStarted, AwaitRetiring
<1>11. ListenedIsHeld'
  BY DEF ListenedIsHeld, TypeOK, CloseStarted, AwaitRetiring
<1>12. GivenUpEnds'
  BY DEF GivenUpEnds, Fading, TypeOK, CloseStarted, AwaitRetiring
<1>13. DiscardsOnce'
  BY DEF DiscardsOnce, TypeOK, CloseStarted, AwaitRetiring
<1>14. FailedStartEnds'
  BY DEF FailedStartEnds, Fading, TypeOK, CloseStarted, AwaitRetiring
<1>15. RejectedIsHeld'
  BY DEF RejectedIsHeld, Fading, TypeOK, CloseStarted, AwaitRetiring
<1>16. LiveIsTended'
  BY DEF LiveIsTended, Fading, TypeOK, CloseStarted, AwaitRetiring
<1>17. ForgottenStopped'
  BY DEF ForgottenStopped, Fading, TypeOK, CloseStarted, AwaitRetiring
<1> QED BY <1>1, <1>2, <1>3, <1>4, <1>5, <1>6, <1>7, <1>8, <1>9, <1>10,
           <1>11, <1>12, <1>13, <1>14, <1>15, <1>16, <1>17

LEMMA CloseTerminatedKeeps ==
  ASSUME SetsInv, Fading, CloseTerminated
  PROVE  (StartsOnce /\ InHand /\ Tended)'
<1> USE DEF SetsInv, TypeInv, StartsOnce, InHand, Tended
<1>1. NotYetStarted'
  BY DEF NotYetStarted, TypeOK, CloseTerminated, AwaitRetiring
<1>2. StarterWaits'
  BY DEF StarterWaits, TypeOK, CloseTerminated, AwaitRetiring
<1>3. OwnSet'
  BY DEF OwnSet, TypeOK, CloseTerminated, AwaitRetiring
<1>4. Begun'
  BY DEF Begun, HasSet, TypeOK, CloseTerminated, AwaitRetiring
<1>5. ListensToStarted'
  BY DEF ListensToStarted, TypeOK, CloseTerminated, AwaitRetiring
<1>6. ClosedHoldsNone'
  BY DEF ClosedHoldsNone, TypeOK, CloseTerminated, AwaitRetiring
<1>7. HeldIsKept'
  BY PoolAssumption DEF HeldIsKept, ClosedHoldsNone, HasSet, TypeOK,
     CloseTerminated, AwaitRetiring
<1>8. HeldStarts'
  BY DEF HeldStarts, TypeOK, CloseTerminated, AwaitRetiring
<1>9. HeldIsUsed'
  BY DEF HeldIsUsed, TypeOK, CloseTerminated, AwaitRetiring
<1>10. AwaitedIsHeld'
  BY DEF AwaitedIsHeld, TypeOK, CloseTerminated, AwaitRetiring
<1>11. ListenedIsHeld'
  BY DEF ListenedIsHeld, TypeOK, CloseTerminated, AwaitRetiring
<1>12. GivenUpEnds'
  BY DEF GivenUpEnds, Fading, TypeOK, CloseTerminated, AwaitRetiring
<1>13. DiscardsOnce'
  BY DEF DiscardsOnce, TypeOK, CloseTerminated, AwaitRetiring
<1>14. FailedStartEnds'
  BY DEF FailedStartEnds, Fading, TypeOK, CloseTerminated, AwaitRetiring
<1>15. RejectedIsHeld'
  BY DEF RejectedIsHeld, Fading, TypeOK, CloseTerminated, AwaitRetiring
<1>16. LiveIsTended'
  BY DEF LiveIsTended, Fading, TypeOK, CloseTerminated, AwaitRetiring
<1>17. ForgottenStopped'
  BY DEF ForgottenStopped, Fading, StoppedSets, HasSet, TypeOK,
     CloseTerminated, AwaitRetiring
<1> QED BY <1>1, <1>2, <1>3, <1>4, <1>5, <1>6, <1>7, <1>8, <1>9, <1>10,
           <1>11, <1>12, <1>13, <1>14, <1>15, <1>16, <1>17

LEMMA CloseSettlesKeeps ==
  ASSUME SetsInv, Fading, CloseSettles
  PROVE  (StartsOnce /\ InHand /\ Tended)'
<1> USE DEF SetsInv, TypeInv, StartsOnce, InHand, Tended
<1>1. NotYetStarted'
  BY DEF NotYetStarted, TypeOK, CloseSettles
<1>2. StarterWaits'
  BY DEF StarterWaits, TypeOK, CloseSettles
<1>3. OwnSet'
  BY DEF OwnSet, TypeOK, CloseSettles
<1>4. Begun'
  BY DEF Begun, TypeOK, CloseSettles
<1>5. ListensToStarted'
  BY DEF ListensToStarted, TypeOK, CloseSettles
<1>6. ClosedHoldsNone'
  BY DEF ClosedHoldsNone, TypeOK, CloseSettles
<1>7. HeldIsKept'
  BY DEF HeldIsKept, TypeOK, CloseSettles
<1>8. HeldStarts'
  BY DEF HeldStarts, TypeOK, CloseSettles
<1>9. HeldIsUsed'
  BY DEF HeldIsUsed, TypeOK, CloseSettles
<1>10. AwaitedIsHeld'
  BY DEF AwaitedIsHeld, TypeOK, CloseSettles
<1>11. ListenedIsHeld'
  BY DEF ListenedIsHeld, TypeOK, CloseSettles
<1>12. GivenUpEnds'
  BY DEF GivenUpEnds, Fading, TypeOK, CloseSettles
<1>13. DiscardsOnce'
  BY DEF DiscardsOnce, TypeOK, CloseSettles
<1>14. FailedStartEnds'
  BY DEF FailedStartEnds, Fading, TypeOK, CloseSettles
<1>15. RejectedIsHeld'
  BY DEF RejectedIsHeld, Fading, TypeOK, CloseSettles
<1>16. LiveIsTended'
  BY DEF LiveIsTended, Fading, TypeOK, CloseSettles
<1>17. ForgottenStopped'
  BY DEF ForgottenStopped, Fading, TypeOK, CloseSettles
<1> QED BY <1>1, <1>2, <1>3, <1>4, <1>5, <1>6, <1>7, <1>8, <1>9, <1>10,
           <1>11, <1>12, <1>13, <1>14, <1>15, <1>16, <1>17

\* One pass of a run's loop, or its finally block.
LoopPass(r) ==
  \/ Finish(r) \/ Throw(r) \/ Yield(r) \/ Park(r) \/ PostThrows(r)
  \/ Finally(r, "abandoned")

LEMMA LoopPassShape ==
  ASSUME SetsInv, NEW r \in Runs, LoopPass(r), UNCHANGED <<asideVars, uses>>,
         \/ /\ pc[r] \in {"awaitMembers", "awaitStart"}
            /\ startState[uses[r]] = "fulfilled"
         \/ pc[r] \in {"woken", "yielded"}
  PROVE  \E to \in PCs : StepsOn(r, to) \/ GivesUp(r, to)
<1>1. uses[r] \in Runs /\ startState[uses[r]] = "fulfilled"
  BY DEF SetsInv, TypeInv, HasSet, StartsOnce, ListensToStarted
<1>2. discarding[r] => Listening(r)
  BY DEF SetsInv, Tended, DiscardsOnce
<1>3. ASSUME NEW out, Finally(r, out)
      PROVE  \E to \in PCs : StepsOn(r, to) \/ GivesUp(r, to)
  <2>1. CASE Outstanding(r) # {}
    <3>1. /\ members' = None /\ RetireWith(uses[r])
          /\ discarding' = [discarding EXCEPT ![r] = TRUE]
          /\ pc' = [pc EXCEPT ![r] = "cleanup"]
      BY <1>3, <2>1 DEF Finally, Leave
    <3>2. Fading
      BY <1>1, <3>1, StopFades DEF RetireWith, SetsInv, TypeInv
    <3>3. GivesUp(r, "cleanup")
      BY <1>1, <3>1, <3>2 DEF GivesUp, RetireWith
    <3> QED BY <3>3 DEF PCs
  <2>2. CASE Outstanding(r) = {}
    <3>1. /\ UNCHANGED <<members, retiring, th, mail, discarding>>
          /\ pc' = [pc EXCEPT ![r] = IF discarding[r] THEN "cleanup"
                                     ELSE "ended"]
      BY <1>3, <2>2 DEF Finally, Leave
    <3>2. Fading
      BY <3>1, SameFades
    <3>3. CASE discarding[r]
      <4>1. StepsOn(r, "cleanup")
        BY <1>2, <3>1, <3>2, <3>3 DEF StepsOn
      <4> QED BY <4>1 DEF PCs
    <3>4. CASE ~discarding[r]
      <4>1. StepsOn(r, "ended")
        BY <1>1, <3>1, <3>2, <3>4 DEF StepsOn
      <4> QED BY <4>1 DEF PCs
    <3> QED BY <3>3, <3>4
  <2> QED BY <2>1, <2>2
<1>4. CASE Finish(r) \/ Throw(r) \/ Finally(r, "abandoned")
  BY <1>3, <1>4 DEF Finish, Throw
<1>5. CASE Yield(r) \/ Park(r)
  <2>1. /\ UNCHANGED <<members, retiring, th, mail, discarding>>
        /\ \E to \in {"yielded", "parked"} : pc' = [pc EXCEPT ![r] = to]
    BY <1>5 DEF Yield, Park
  <2>2. Fading
    BY <2>1, SameFades
  <2>3. \E to \in {"yielded", "parked"} : StepsOn(r, to)
    BY <1>1, <2>1, <2>2 DEF StepsOn
  <2> QED BY <2>3 DEF PCs
<1>6. CASE PostThrows(r)
  <2>1. /\ members' = None /\ RetireWith(uses[r])
        /\ discarding' = [discarding EXCEPT ![r] = TRUE]
        /\ pc' = [pc EXCEPT ![r] = "cleanup"]
    BY <1>1, <1>6, PostThrowsGivesUp DEF SetsInv, TypeInv
  <2>2. Fading
    BY <1>1, <2>1, StopFades DEF RetireWith, SetsInv, TypeInv
  <2>3. GivesUp(r, "cleanup")
    BY <1>1, <2>1, <2>2 DEF GivesUp, RetireWith
  <2> QED BY <2>3 DEF PCs
<1> QED BY <1>4, <1>5, <1>6 DEF LoopPass

LEMMA NotReadyShape ==
  ASSUME SetsInv, NEW r \in Runs, NotReady(r), UNCHANGED asideVars,
         pc[r] \in {"awaitMembers", "awaitStart"}
  PROVE  StepsOn(r, "ended")
<1>1. Fading
  BY SameFades DEF NotReady
<1> QED BY <1>1 DEF NotReady, EndWith, StepsOn

LEMMA EnterShape ==
  ASSUME SetsInv, NEW r \in Runs, Enter(r), UNCHANGED <<asideVars, uses>>,
         pc[r] \in {"awaitMembers", "awaitStart"},
         startState[uses[r]] = "fulfilled"
  PROVE  \E to \in PCs : StepsOn(r, to) \/ GivesUp(r, to)
<1>1. CASE DispatchAndLoop(r)
  BY <1>1, LoopPassShape DEF DispatchAndLoop, LoopPass
<1>2. CASE ~DispatchAndLoop(r)
  <2>1. EndWith(r, "ok") /\ UNCHANGED <<members, retiring, th, mail, discarding>>
    BY <1>2 DEF Enter
  <2>2. Fading
    BY <2>1, SameFades
  <2>3. StepsOn(r, "ended")
    BY <2>1, <2>2 DEF EndWith, StepsOn
  <2> QED BY <2>3 DEF PCs
<1> QED BY <1>1, <1>2

LEMMA RunShape ==
  ASSUME SetsInv, NEW r \in Runs,
         \/ MembersReady(r) \/ Started(r) \/ Resume(r) \/ CleanedUp(r)
         \/ Pull(r) \/ Return(r)
  PROVE  \E to \in PCs : StepsOn(r, to) \/ GivesUp(r, to)
<1>1. CASE MembersReady(r)
  <2>0. pc[r] = "awaitMembers" /\ UNCHANGED asideVars /\ "ended" \in PCs
    BY <1>1 DEF MembersReady, PCs
  <2>1. CASE NotReady(r)
    BY <2>0, <2>1, NotReadyShape
  <2>2. CASE /\ startState[uses[r]] = "fulfilled"
             /\ Enter(r) /\ UNCHANGED <<alive, uses, aborted, failure>>
    BY <2>0, <2>2, EnterShape
  <2>3. CASE /\ startState[uses[r]] = "fulfilled"
             /\ members' = IF members = uses[r] THEN None ELSE members
             /\ RetireWith(uses[r])
             /\ pc' = [pc EXCEPT ![r] = "awaitRetire"]
             /\ UNCHANGED <<job, memberVars, outcome, uses, loopVars>>
    <3>1. uses[r] \in Runs
      BY <2>0 DEF SetsInv, TypeInv, HasSet
    <3>2. Fading
      BY <2>3, <3>1, StopFades DEF RetireWith, SetsInv, TypeInv
    <3>3. members' = None
      BY <2>0, <2>3 DEF SetsInv, InHand, HeldIsUsed
    <3>4. GivesUp(r, "awaitRetire")
      BY <2>0, <2>3, <3>2, <3>3 DEF GivesUp, RetireWith
    <3> QED BY <3>4 DEF PCs
  <2> QED BY <1>1, <2>1, <2>2, <2>3 DEF MembersReady
<1>2. CASE Started(r)
  <2>0. pc[r] = "awaitStart" /\ UNCHANGED asideVars /\ "ended" \in PCs
    BY <1>2 DEF Started, PCs
  <2> QED BY <1>2, <2>0, NotReadyShape, EnterShape DEF Started
<1>3. CASE Resume(r) \/ Pull(r) \/ Return(r)
  <2>1. /\ LoopPass(r) /\ UNCHANGED <<asideVars, uses>>
        /\ pc[r] \in {"woken", "yielded"}
    BY <1>3 DEF Resume, Pull, Return, LoopOnly, DispatchAndLoop, LoopPass
  <2> QED BY <2>1, LoopPassShape
<1>4. CASE CleanedUp(r)
  <2>1. Fading
    BY <1>4, SameFades DEF CleanedUp
  <2>2. StepsOn(r, "ended")
    BY <1>4, <2>1 DEF CleanedUp, StepsOn
  <2> QED BY <2>2 DEF PCs
<1> QED BY <1>1, <1>2, <1>3, <1>4

LEMMA QueueShape ==
  ASSUME SetsInv, NEW r \in Runs,
         Call(r) \/ CalledOff(r) \/ Release(r) \/ TakeTurn(r) \/ Retired(r)
  PROVE  (\E to \in PCs : StepsOn(r, to)) \/ Rests \/ Joins(r) \/ Begins(r)
<1>1. CASE Call(r) \/ CalledOff(r)
  <2>1. Fading
    BY <1>1, SameFades DEF Call, CalledOff
  <2>2. StepsOn(r, "queued") \/ StepsOn(r, "ended")
    BY <1>1, <2>1 DEF Call, Called, CalledOff, EndWith, StepsOn
  <2> QED BY <2>2 DEF PCs
<1>2. CASE Release(r)
  BY <1>2, SameFades DEF Release, Rests
<1>3. CASE TakeTurn(r)
  <2>1. CASE closed
    <3>1. Fading
      BY <1>3, <2>1, SameFades DEF TakeTurn
    <3>2. StepsOn(r, "ended")
      BY <1>3, <2>1, <3>1 DEF TakeTurn, EndWith, StepsOn
    <3> QED BY <3>2 DEF PCs
  <2>2. CASE ~closed /\ members # None
    <3>1. Fading
      BY <1>3, <2>2, SameFades DEF TakeTurn
    <3> QED BY <1>3, <2>2, <3>1 DEF TakeTurn, Joins
  <2>3. CASE ~closed /\ members = None
    BY <1>3, <2>3, StartBegins DEF TakeTurn, SetsInv
  <2> QED BY <2>1, <2>2, <2>3
<1>4. CASE Retired(r)
  <2>1. CASE closed
    <3>1. Fading
      BY <1>4, <2>1, SameFades DEF Retired
    <3>2. StepsOn(r, "ended")
      BY <1>4, <2>1, <3>1 DEF Retired, EndWith, StepsOn
    <3> QED BY <3>2 DEF PCs
  <2>2. CASE ~closed
    BY <1>4, <2>2, StartBegins DEF Retired, SetsInv
  <2> QED BY <2>1, <2>2
<1> QED BY <1>1, <1>2, <1>3, <1>4

LEMMA AbortShape ==
  ASSUME SetsInv, NEW r \in Runs, Abort(r)
  PROVE  (\E to \in PCs : StepsOn(r, to) \/ GivesUp(r, to)) \/ Rests
<1>1. pc \in [Runs -> PCs]
  BY DEF SetsInv, TypeInv, TypeOK
<1>2. CASE AbortDiscards(r)
  <2>1. Listening(r)
    BY <1>2 DEF AbortDiscards
  <2>2. uses[r] \in Runs /\ startState[uses[r]] = "fulfilled"
    BY <2>1 DEF SetsInv, TypeInv, HasSet, StartsOnce, ListensToStarted
  <2>3. /\ members' = None /\ RetireWith(uses[r])
        /\ discarding' = [discarding EXCEPT ![r] = TRUE]
        /\ UNCHANGED <<asideVars, uses>>
    BY <1>2 DEF Abort
  <2>4. Fading
    BY <2>2, <2>3, StopFades DEF RetireWith, SetsInv, TypeInv
  <2>5. \E to \in {pc[r], "woken"} : pc' = [pc EXCEPT ![r] = to]
    BY <1>1 DEF Abort
  <2>6. \E to \in {pc[r], "woken"} : GivesUp(r, to)
    BY <2>1, <2>2, <2>3, <2>4, <2>5 DEF GivesUp, RetireWith
  <2> QED BY <1>1, <2>6 DEF PCs
<1>3. CASE ~AbortDiscards(r)
  <2>1. UNCHANGED <<asideVars, members, retiring, th, mail, discarding, uses>>
    BY <1>3 DEF Abort
  <2>2. Fading
    BY <2>1, SameFades
  <2>3. CASE pc[r] = "parked"
    <3>1. StepsOn(r, "woken")
      BY <2>1, <2>2, <2>3 DEF Abort, StepsOn
    <3> QED BY <3>1 DEF PCs
  <2>4. CASE pc[r] # "parked"
    BY <2>1, <2>2, <2>4 DEF Abort, Rests
  <2> QED BY <2>3, <2>4
<1> QED BY <1>2, <1>3

LEMMA ThreadShape ==
  ASSUME SetsInv, NEW e \in Runs, NEW s \in Slots,
         ThreadDies(e, s) \/ ThreadExitsZero(e, s) \/ ThreadStep(e, s)
  PROVE  Rests \/ \E r \in Runs : StepsOn(r, "woken")
<1>1. Fading
  BY ThreadFades DEF SetsInv, TypeInv
<1>2. /\ UNCHANGED <<members, closed, retiring, forgotten, closeVars,
                     startState, uses, discarding>>
      /\ \/ UNCHANGED pc
         \/ \E r \in Runs : pc[r] = "parked" /\ pc' = [pc EXCEPT ![r] = "woken"]
  BY DEF ThreadDies, ThreadExitsZero, ThreadStep, ThreadLoads, ThreadAnswers,
         ThreadStops, Deliver, RunHears, NobodyHears
<1> QED BY <1>1, <1>2 DEF Rests, StepsOn

LEMMA SetShape ==
  ASSUME SetsInv, Close \/ CloseStep \/ (\E e \in Runs : SetStep(e))
  PROVE  Fading
<1>1. CASE Close \/ CloseTerminated \/ CloseSettles
  BY <1>1, SameFades DEF Close, CloseTerminated, CloseSettles
<1>2. CASE CloseStarted
  <2>1. closeSet \in Runs
    BY <1>2 DEF CloseStarted, SetsInv, TypeInv, HasSet
  <2>2. \/ th' = StopThreads(closeSet) /\ mail' = StopMail(closeSet)
        \/ UNCHANGED <<th, mail>>
    BY <1>2 DEF CloseStarted
  <2> QED BY <2>1, <2>2, SameFades, StopFades DEF SetsInv, TypeInv
<1>3. ASSUME NEW e \in Runs, SetStep(e) PROVE Fading
  <2>1. CASE StartFails(e)
    BY <2>1, StopFades DEF StartFails, RetireWith, SetsInv, TypeInv
  <2>2. CASE ~StartFails(e)
    BY <1>3, <2>2, SameFades
       DEF SetStep, RetireSettles, StartFulfils, StartRejects
  <2> QED BY <2>1, <2>2
<1> QED BY <1>1, <1>2, <1>3 DEF CloseStep

\* Every step is one of these, as far as the sets are concerned.
LEMMA NextShape ==
  ASSUME SetsInv, [Next]_vars
  PROVE  \/ \E r \in Runs : \E to \in PCs : StepsOn(r, to) \/ GivesUp(r, to)
         \/ Rests
         \/ \E r \in Runs : Joins(r) \/ Begins(r)
         \/ Fading /\ (Close \/ CloseStep \/ \E e \in Runs : SetStep(e))
<1> DEFINE P ==
      \/ \E r \in Runs : \E to \in PCs : StepsOn(r, to) \/ GivesUp(r, to)
      \/ Rests
      \/ \E r \in Runs : Joins(r) \/ Begins(r)
      \/ Fading /\ (Close \/ CloseStep \/ \E e \in Runs : SetStep(e))
<1> SUFFICES P
  OBVIOUS
<1>1. ASSUME NEW r \in Runs, NEW to \in PCs, StepsOn(r, to) \/ GivesUp(r, to)
      PROVE  P
  BY <1>1
<1>2. ASSUME NEW r \in Runs, Rests \/ Joins(r) \/ Begins(r) PROVE P
  BY <1>2
<1>3. ASSUME Rests PROVE P
  BY <1>3
<1>4. ASSUME Close \/ CloseStep \/ \E e \in Runs : SetStep(e) PROVE P
  BY <1>4, SetShape
<1> HIDE DEF P
<1>5. ASSUME NEW r \in Runs, \/ Call(r) \/ CalledOff(r) \/ Release(r)
                             \/ TakeTurn(r) \/ Retired(r)
      PROVE  P
  BY <1>1, <1>2, <1>5, QueueShape
<1>6. ASSUME NEW r \in Runs, \/ MembersReady(r) \/ Started(r) \/ Resume(r)
                             \/ CleanedUp(r) \/ Pull(r) \/ Return(r)
      PROVE  P
  BY <1>1, <1>6, RunShape
<1>7. ASSUME NEW r \in Runs, Abort(r) PROVE P
  BY <1>1, <1>3, <1>7, AbortShape
<1>8. ASSUME NEW e \in Runs, NEW s \in Slots,
             ThreadDies(e, s) \/ ThreadExitsZero(e, s) \/ ThreadStep(e, s)
      PROVE  P
  BY <1>1, <1>3, <1>8, ThreadShape DEF PCs
<1>9. ASSUME UNCHANGED vars PROVE P
  BY <1>3, <1>9, SameFades DEF vars, Rests
<1> QED BY <1>4, <1>5, <1>6, <1>7, <1>8, <1>9 DEF Next, Outside, RunStep, Consume

LEMMA NextKeepsSets == SetsInv /\ [Next]_vars => SetsInv'
<1> SUFFICES ASSUME SetsInv, [Next]_vars PROVE SetsInv'
  OBVIOUS
<1>1. TypeInv' /\ Chain'
  BY NextType, NextKeepsSet, NextKeepsChain DEF SetsInv, TypeInv
<1>2. OneActive /\ OneActive'
  <2>1. OneActive
    BY ChainOneActive DEF SetsInv, TypeInv
  <2>2. (TypeOK /\ Chain => OneActive)'
    BY ChainOneActive, PTL
  <2> QED BY <1>1, <2>1, <2>2 DEF TypeInv
<1> DEFINE Good == (StartsOnce /\ InHand /\ Tended)'
<1>3. ASSUME NEW r \in Runs, NEW to \in PCs, StepsOn(r, to) \/ GivesUp(r, to)
      PROVE  Good
  BY <1>2, <1>3, StepsOnKeeps, GivesUpKeeps
<1>4. ASSUME NEW r \in Runs, Joins(r) \/ Begins(r) PROVE Good
  BY <1>2, <1>4, JoinsKeeps, BeginsKeeps
<1>5. ASSUME Rests PROVE Good
  BY <1>5, RestsKeeps
<1>6. ASSUME NEW e \in Runs, SetStep(e), Fading PROVE Good
  BY <1>2, <1>6, RetireSettlesKeeps, StartFulfilsKeeps, StartFailsKeeps,
     StartRejectsKeeps DEF SetStep
<1>7. ASSUME Close \/ CloseStep, Fading PROVE Good
  BY <1>7, CloseKeeps, CloseStartedKeeps, CloseTerminatedKeeps,
     CloseSettlesKeeps DEF CloseStep
<1> HIDE DEF Good
<1>8. Good
  BY <1>3, <1>4, <1>5, <1>6, <1>7, NextShape
<1> QED BY <1>1, <1>8 DEF SetsInv, Good

LEMMA InitSets == Init => SetsInv
<1> SUFFICES ASSUME Init PROVE SetsInv
  OBVIOUS
<1>1. TypeInv /\ Chain
  BY InitType, InitChain DEF Init, TypeInv, HasSet, WithSet
<1>2. LiveSets = {}
  BY DEF Init, LiveSets, LiveSet, Lives
<1>3. StartsOnce
  BY PoolAssumption DEF Init, StartsOnce, NotYetStarted, StarterWaits, OwnSet, Begun,
         ListensToStarted
<1>4. InHand
  BY DEF Init, InHand, ClosedHoldsNone, HeldIsKept, HeldStarts, HeldIsUsed
<1>5. Tended
  BY <1>2 DEF Init, Tended, AwaitedIsHeld, ListenedIsHeld, GivenUpEnds,
              DiscardsOnce, FailedStartEnds, RejectedIsHeld, LiveIsTended,
              ForgottenStopped
<1> QED BY <1>1, <1>3, <1>4, <1>5 DEF SetsInv

LEMMA SetsOneAtATime == SetsInv => OneSetAtATime
<1> SUFFICES ASSUME SetsInv, NEW e \in Runs, NEW f \in Runs,
                    LiveSet(e), LiveSet(f)
             PROVE  e = f
  BY DEF OneSetAtATime
<1>1. e \in LiveSets /\ f \in LiveSets
  BY DEF LiveSets
<1>2. OneActive
  BY ChainOneActive DEF SetsInv, TypeInv
<1>3. Holds(e) \/ \E r \in Runs : Active(r) /\ uses[r] = e
  BY <1>1 DEF SetsInv, Tended, LiveIsTended
<1>4. Holds(f) \/ \E r \in Runs : Active(r) /\ uses[r] = f
  BY <1>1 DEF SetsInv, Tended, LiveIsTended
<1>5. CASE Holds(e) /\ Holds(f)
  BY <1>5, PoolAssumption DEF SetsInv, InHand, ClosedHoldsNone
<1>6. ASSUME NEW r \in Runs, Active(r), NEW g \in Runs, Holds(g)
      PROVE  g = uses[r]
  BY <1>6, PoolAssumption DEF SetsInv, InHand, HeldIsUsed
<1> QED BY <1>2, <1>3, <1>4, <1>5, <1>6 DEF OneActive

LEMMA SetsFailuresHeard == SetsInv => FailuresAreHeard
  BY DEF SetsInv, Tended, ForgottenStopped, StoppedSets, Stopped, TypeInv,
         TypeOK, FailuresAreHeard, InMail

-----------------------------------------------------------------------------
(* close(): what it waits for is all there is.                             *)

\* A set nobody holds any more, if it lives, is being terminated.
LEMMA LetGoEnds ==
  ASSUME SetsInv, "spawnThrows" \notin Faults, NEW e \in LiveSets, ~Holds(e)
  PROVE  e \in retiring
<1> USE DEF SetsInv, StartsOnce, InHand, Tended
<1>1. PICK r \in Runs : Active(r) /\ uses[r] = e
  BY DEF LiveIsTended
<1>2. e \in Runs /\ startState[e] # "none"
  BY <1>1 DEF LiveSets, Begun
<1>3. CASE GivenUp(r)
  BY <1>1, <1>3 DEF GivenUpEnds
<1>4. CASE Listening(r) /\ ~discarding[r]
  BY <1>1, <1>4 DEF ListenedIsHeld
<1>5. CASE pc[r] \in {"awaitMembers", "awaitStart"}
  <2>1. startState[e] \notin {"pending", "fulfilled", "rejected"}
    BY <1>1, <1>5 DEF AwaitedIsHeld, RejectedIsHeld
  <2>2. startState[e] = "retiring"
    BY <1>2, <2>1 DEF TypeInv, TypeOK
  <2> QED BY <2>2, <1>2 DEF FailedStartEnds
<1> QED BY <1>1, <1>3, <1>4, <1>5 DEF Active, WithSet, GivenUp, Listening

WaitsForAll ==
  /\ closing = "awaitRetiring" => LiveSets \subseteq closeWaits \cap retiring
  /\ closing = "settled" => LiveSets = {}

LEMMA WaitsForAllSteps ==
  ASSUME SetsInv, WaitsForAll, "spawnThrows" \notin Faults, [Next]_vars
  PROVE  WaitsForAll'
<1> USE DEF SetsInv, InHand, ClosedHoldsNone
<1>1. ASSUME Fading, LiveSets' \cap retiring \subseteq retiring',
             UNCHANGED <<closing, closeWaits>>
      PROVE  WaitsForAll'
  BY <1>1 DEF WaitsForAll, Fading
<1>2. ASSUME Fading, closing' = "awaitRetiring", closeWaits' = retiring,
             retiring' = retiring, \A e \in LiveSets' : ~Holds(e)
      PROVE  WaitsForAll'
  BY <1>2, LetGoEnds DEF WaitsForAll, Fading
<1>3. ASSUME NEW r \in Runs, NEW to \in PCs, StepsOn(r, to) \/ GivesUp(r, to)
      PROVE  WaitsForAll'
  BY <1>1, <1>3 DEF StepsOn, GivesUp
<1>4. ASSUME Rests PROVE WaitsForAll'
  BY <1>1, <1>4 DEF Rests
<1>5. ASSUME NEW r \in Runs, Joins(r) \/ Begins(r) PROVE WaitsForAll'
  BY <1>1, <1>5 DEF Joins, Begins, WaitsForAll
<1>6. ASSUME Fading, NEW e \in Runs, SetStep(e) PROVE WaitsForAll'
  <2>1. CASE RetireSettles(e)
    <3>1. e \notin LiveSets'
      BY <1>6, <2>1, StoppedIsNotLive DEF RetireSettles, StoppedSets, Fading
    <3> QED BY <1>1, <1>6, <2>1, <3>1 DEF RetireSettles
  <2>2. CASE ~RetireSettles(e)
    BY <1>1, <1>6, <2>2
       DEF SetStep, StartFulfils, StartFails, StartRejects, RetireWith
  <2> QED BY <2>1, <2>2
<1>7. ASSUME Fading, Close PROVE WaitsForAll'
  <2>1. CASE members = None
    <3>1. \A e \in LiveSets : ~Holds(e)
      BY <1>7, <2>1, PoolAssumption DEF Close, Holds, LiveSets
    <3> QED BY <1>2, <1>7, <2>1, <3>1 DEF Close, AwaitRetiring, Fading
  <2>2. CASE members # None
    BY <1>7, <2>2 DEF Close, WaitsForAll
  <2> QED BY <2>1, <2>2
<1>8. ASSUME Fading, CloseStarted \/ CloseTerminated PROVE WaitsForAll'
  <2>1. members = None
    BY <1>8 DEF CloseStarted, CloseTerminated
  <2>2. CASE closing' = "terminating"
    BY <2>2 DEF WaitsForAll
  <2>3. CASE closing' # "terminating"
    <3>1. closeSet \notin LiveSets
      <4>1. CASE CloseTerminated
        BY <4>1, StoppedIsNotLive
           DEF CloseTerminated, StoppedSets, TypeInv, HasSet
      <4>2. CASE CloseStarted
        BY <2>3, <4>2 DEF CloseStarted, Tended, RejectedIsHeld
      <4> QED BY <1>8, <4>1, <4>2
    <3>2. \A e \in LiveSets : ~Holds(e)
      BY <2>1, <3>1, PoolAssumption DEF Holds, LiveSets
    <3>3. /\ closing' = "awaitRetiring" /\ closeWaits' = retiring
          /\ retiring' = retiring
      BY <1>8, <2>3 DEF CloseStarted, CloseTerminated, AwaitRetiring
    <3> QED BY <1>2, <1>8, <3>2, <3>3 DEF Fading
  <2> QED BY <2>2, <2>3
<1>9. ASSUME Fading, CloseSettles PROVE WaitsForAll'
  BY <1>9 DEF CloseSettles, WaitsForAll, Fading
<1>10. ASSUME Fading, CloseStep PROVE WaitsForAll'
  BY <1>8, <1>9, <1>10 DEF CloseStep
<1>11. ASSUME Fading, Close \/ CloseStep \/ \E e \in Runs : SetStep(e)
       PROVE  WaitsForAll'
  BY <1>6, <1>7, <1>10, <1>11
<1> HIDE DEF SetsInv, InHand, ClosedHoldsNone
<1> QED BY <1>3, <1>4, <1>5, <1>11, NextShape

\* Once close() has settled every worker is gone, those of a run called off or
\* failed meanwhile included, provided that constructing a worker never throws:
\* start() constructs them outside its try.
THEOREM CloseLeavesNoThreadHolds ==
  ASSUME "spawnThrows" \notin Faults
  PROVE  Spec => []CloseLeavesNoThread
<1> DEFINE I == SetsInv /\ WaitsForAll
<1>1. Init => I
  BY InitSets DEF Init, WaitsForAll
<1>2. I /\ [Next]_vars => I'
  BY NextKeepsSets, WaitsForAllSteps
<1>3. I => CloseLeavesNoThread
  BY DEF WaitsForAll, CloseLeavesNoThread, LiveSets
<1> HIDE DEF I
<1> QED BY <1>1, <1>2, <1>3, PTL DEF Spec
HIDE DEF Active, WithSet, Listening, Holds, GivenUp
-----------------------------------------------------------------------------
(* Handing out: each free member in turn is given the next element.        *)

LEMMA SlotsFinite ==
  ASSUME NEW S, S \subseteq Slots
  PROVE  IsFiniteSet(S) /\ Cardinality(S) \in Nat
<1>1. IsFiniteSet(Slots)
  BY PoolAssumption, FS_Interval DEF Slots
<1> QED BY <1>1, FS_Subset, FS_CardinalityType

\* A later free member has more free members before it.
LEMMA RankGrows ==
  ASSUME NEW r \in Runs, NEW s \in Free(r), NEW t \in Free(r), s < t
  PROVE  Rank(r, s) < Rank(r, t)
<1> DEFINE B(x) == {q \in Free(r) : q < x}
<1>1. s \in Nat /\ t \in Nat /\ Free(r) \subseteq Slots /\ Free(r) \subseteq Nat
  BY DEF Free, Slots
<1>2. B(s) \subseteq B(t) /\ s \in B(t) /\ s \notin B(s)
  BY <1>1
<1>3. B(s) \subseteq Slots /\ B(t) \subseteq Slots
  BY <1>1
<1>4. IsFiniteSet(B(t)) /\ Cardinality(B(s)) \in Nat /\ Cardinality(B(t)) \in Nat
  BY <1>3, SlotsFinite
<1> HIDE DEF B
<1>5. Cardinality(B(s)) < Cardinality(B(t))
  BY <1>2, <1>4, FS_Subset
<1> QED BY <1>5 DEF Rank, B

\* These are the first of the free members.
FirstFree(r, taken) ==
  /\ taken \subseteq Given(r)
  /\ \A s \in taken, q \in Free(r) : q < s => q \in taken

\* So are those that are given something: a free member before one has a position.
LEMMA GivenAreFirst ==
  ASSUME TypeOK, NEW r \in Runs PROVE FirstFree(r, Given(r))
<1> SUFFICES ASSUME NEW s \in Given(r), NEW q \in Free(r), q < s
             PROVE  q \in Given(r)
  BY DEF FirstFree
<1>1. s \in Free(r) /\ Free(r) \subseteq Slots
  BY DEF Free, Given
<1>2. Rank(r, q) < Rank(r, s)
  BY <1>1, RankGrows
<1>3. Rank(r, q) \in Nat /\ Rank(r, s) \in Nat /\ handedOut[r] \in Nat
  BY <1>1, RankIsNat DEF TypeOK
<1>4. handedOut[r] + Rank(r, s) < Count[r] /\ Count[r] \in Nat
  BY PoolAssumption DEF Given
<1>5. handedOut[r] + Rank(r, q) < Count[r]
  BY <1>2, <1>3, <1>4
<1> QED BY <1>5 DEF Given

LEMMA RankBelow ==
  ASSUME NEW r \in Runs, NEW taken, FirstFree(r, taken), NEW s \in taken
  PROVE  Rank(r, s) < Cardinality(taken)
<1> DEFINE B == {q \in Free(r) : q < s}
<1>1. s \in Free(r) /\ Free(r) \subseteq Slots /\ taken \subseteq Free(r)
  BY DEF Free, Given, FirstFree
<1>2. B \subseteq taken
  BY DEF FirstFree
<1>3. s \notin B
  BY <1>1 DEF Slots
<1>4. taken \subseteq Slots
  BY <1>1
<1>5. IsFiniteSet(taken) /\ Cardinality(taken) \in Nat
  BY <1>4, SlotsFinite
<1>6. Cardinality(B) \in Nat
  BY <1>2, <1>4, SlotsFinite
<1> HIDE DEF B
<1>7. Cardinality(B) < Cardinality(taken)
  BY <1>2, <1>3, <1>5, <1>6, FS_Subset
<1> QED BY <1>7 DEF Rank, B

\* No more is handed out than there is.
LEMMA GivenFits ==
  ASSUME TypeOK, NEW r \in Runs, handedOut[r] <= Count[r]
  PROVE  handedOut[r] + Cardinality(Given(r)) <= Count[r]
<1>1. handedOut[r] \in Nat /\ Count[r] \in Nat
  BY PoolAssumption DEF TypeOK
<1> DEFINE left == Count[r] - handedOut[r]
           T == 0 .. (left - 1)
           f == [s \in Given(r) |-> Rank(r, s)]
<1>2. left \in Nat
  BY <1>1
<1>3. Given(r) \subseteq Slots /\ Given(r) \subseteq Free(r) /\ Slots \subseteq Nat
  BY DEF Given, Free, Slots
<1>4. \A s \in Given(r) : Rank(r, s) \in T
  <2> TAKE s \in Given(r)
  <2>1. Rank(r, s) \in Nat
    BY <1>3, RankIsNat
  <2>2. handedOut[r] + Rank(r, s) < Count[r]
    BY DEF Given
  <2> QED BY <1>1, <2>1, <2>2
<1>5. \A s, t \in Given(r) : Rank(r, s) = Rank(r, t) => s = t
  <2> TAKE s, t \in Given(r)
  <2>0. s \in Nat /\ t \in Nat /\ Rank(r, s) \in Nat /\ Rank(r, t) \in Nat
    BY <1>3, RankIsNat
  <2>1. s < t => Rank(r, s) < Rank(r, t)
    BY <1>3, RankGrows
  <2>2. t < s => Rank(r, t) < Rank(r, s)
    BY <1>3, RankGrows
  <2> QED BY <2>0, <2>1, <2>2
<1>6. IsFiniteSet(T) /\ Cardinality(T) = left
  <2>1. IsFiniteSet(T)
    BY <1>2, FS_Interval
  <2>2. Cardinality(T) = IF 0 > left - 1 THEN 0 ELSE (left - 1) - 0 + 1
    BY <1>2, FS_Interval
  <2> HIDE DEF T, left
  <2> QED BY <1>2, <2>1, <2>2
<1>7. f \in Injection(Given(r), T)
  BY <1>4, <1>5 DEF Injection, IsInjective
<1>8. Cardinality(Given(r)) \in Nat
  BY <1>3, SlotsFinite
<1> HIDE DEF T, f
<1>9. Cardinality(Given(r)) <= Cardinality(T)
  <2>1. Injection(Given(r), T) # {}
    BY <1>7
  <2> QED BY <1>6, <2>1, FS_Injection DEF ExistsInjection
<1> QED BY <1>1, <1>6, <1>8, <1>9

\* If all are free and none is given anything, everything was handed out.
LEMMA NoneGiven ==
  ASSUME TypeOK, NEW r \in Runs, Free(r) = Slots, Given(r) = {}
  PROVE  handedOut[r] >= Count[r]
<1>1. 1 \in Slots /\ \A q \in Slots : ~(q < 1)
  BY PoolAssumption DEF Slots
<1>2. {q \in Free(r) : q < 1} = {}
  BY <1>1
<1>3. Rank(r, 1) = 0
  BY <1>2, FS_EmptySet DEF Rank
<1>4. ~(handedOut[r] + 0 < Count[r])
  BY <1>1, <1>3 DEF Given
<1> QED BY <1>4, PoolAssumption DEF TypeOK

\* What dispatch() does: some members that were free are busy with positions of
\* their own, from the next one on, and what they were posted is that position.
Hands(r) ==
  LET e == uses[r] IN
  /\ \A f \in Runs, s \in Slots :
       \/ busyWith'[f][s] = busyWith[f][s] /\ job'[f][s] = job[f][s]
       \/ /\ f = e /\ busyWith[f][s] = None
          /\ busyWith'[f][s] \in Nat
          /\ handedOut[r] <= busyWith'[f][s] /\ busyWith'[f][s] < handedOut'[r]
          /\ job'[f][s] \in {job[f][s], [run |-> r, id |-> busyWith'[f][s]]}
  /\ \A s, q \in Slots :
       (/\ busyWith[e][s] = None /\ busyWith[e][q] = None
        /\ busyWith'[e][s] # None /\ busyWith'[e][s] = busyWith'[e][q])
         => s = q
  /\ \A q \in Runs : q # r => handedOut'[q] = handedOut[q]
  /\ handedOut[r] <= handedOut'[r]
  /\ handedOut[r] <= Count[r] => handedOut'[r] <= Count[r]
  /\ \E n \in Nat :
       /\ handedOut'[r] = handedOut[r] + n
       /\ Cardinality({s \in Slots : busyWith'[e][s] # None})
            = Cardinality({s \in Slots : busyWith[e][s] # None}) + n

LEMMA HandHands ==
  ASSUME TypeOK, NEW r \in Runs, uses[r] \in Runs,
         NEW taken, FirstFree(r, taken), NEW posted \in SUBSET taken,
         Hand(r, taken, posted)
  PROVE  Hands(r)
<1> DEFINE e == uses[r]
<1>1. /\ busyWith' = [busyWith EXCEPT ![e] = [s \in Slots |->
           IF s \in taken THEN handedOut[r] + Rank(r, s)
           ELSE busyWith[e][s]]]
      /\ job' = [job EXCEPT ![e] = [s \in Slots |->
           IF s \in posted /\ th[e][s] \in {"up", "stopping"}
           THEN [run |-> r, id |-> handedOut[r] + Rank(r, s)]
           ELSE job[e][s]]]
      /\ handedOut' = [handedOut EXCEPT ![r] =
                         handedOut[r] + Cardinality(taken)]
  BY DEF Hand
<1>2. /\ e \in Runs /\ busyWith \in [Runs -> [Slots -> Nat \cup {None}]]
      /\ job \in [Runs -> [Slots -> Jobs \cup {None}]]
      /\ handedOut \in [Runs -> Nat] /\ Count[r] \in Nat /\ None \notin Nat
  BY PoolAssumption DEF TypeOK
<1>3. /\ taken \subseteq Slots /\ taken \subseteq Free(r)
      /\ \A s \in Slots : s \in Free(r) <=> busyWith[e][s] = None
      /\ Free(r) \subseteq Slots
      /\ taken \subseteq Given(r) /\ Given(r) \subseteq Slots
  BY DEF Given, Free, FirstFree
<1>4. \A s \in Slots : Rank(r, s) \in Nat
  BY RankIsNat
<1>5. Cardinality(taken) \in Nat /\ IsFiniteSet(taken)
  BY <1>3, SlotsFinite
<1>6. /\ handedOut'[r] = handedOut[r] + Cardinality(taken)
      /\ \A q \in Runs : q # r => handedOut'[q] = handedOut[q]
  BY <1>1, <1>2
<1>7. /\ \A f \in Runs, s \in Slots : (f # e \/ s \notin taken) =>
           busyWith'[f][s] = busyWith[f][s] /\ job'[f][s] = job[f][s]
      /\ \A s \in taken :
           /\ busyWith'[e][s] = handedOut[r] + Rank(r, s)
           /\ job'[e][s] \in {job[e][s], [run |-> r, id |-> busyWith'[e][s]]}
  BY <1>1, <1>2, <1>3
<1>8. \A s \in taken : /\ busyWith[e][s] = None
                       /\ busyWith'[e][s] \in Nat
                       /\ handedOut[r] <= busyWith'[e][s]
                       /\ busyWith'[e][s] < handedOut'[r]
  <2> TAKE s \in taken
  <2>1. Rank(r, s) < Cardinality(taken) /\ Rank(r, s) \in Nat
    BY RankBelow, <1>3, <1>4
  <2>2. handedOut[r] \in Nat
    BY <1>2
  <2> HIDE DEF e
  <2> QED BY <1>3, <1>5, <1>6, <1>7, <2>1, <2>2
<1>9. \A f \in Runs, s \in Slots :
       \/ busyWith'[f][s] = busyWith[f][s] /\ job'[f][s] = job[f][s]
       \/ /\ f = e /\ busyWith[f][s] = None
          /\ busyWith'[f][s] \in Nat
          /\ handedOut[r] <= busyWith'[f][s] /\ busyWith'[f][s] < handedOut'[r]
          /\ job'[f][s] \in {job[f][s], [run |-> r, id |-> busyWith'[f][s]]}
  <2> HIDE DEF e
  <2> QED BY <1>7, <1>8
<1>10. \A s, q \in Slots :
       (/\ busyWith[e][s] = None /\ busyWith[e][q] = None
        /\ busyWith'[e][s] # None /\ busyWith'[e][s] = busyWith'[e][q])
         => s = q
  <2> SUFFICES ASSUME NEW s \in Slots, NEW q \in Slots,
                      busyWith[e][s] = None, busyWith[e][q] = None,
                      busyWith'[e][s] # None, busyWith'[e][s] = busyWith'[e][q]
               PROVE  s = q
    OBVIOUS
  <2>1. s \in taken /\ q \in taken
    BY <1>2, <1>7
  <2>2. handedOut[r] + Rank(r, s) = handedOut[r] + Rank(r, q)
    BY <1>7, <2>1
  <2>3. Rank(r, s) = Rank(r, q) /\ Rank(r, s) \in Nat /\ Rank(r, q) \in Nat
    <3>1. handedOut[r] \in Nat /\ Rank(r, s) \in Nat /\ Rank(r, q) \in Nat
      BY <1>2, <1>4
    <3> QED BY <2>2, <3>1
  <2>4. s \in Free(r) /\ q \in Free(r) /\ s \in Nat /\ q \in Nat
    BY <1>3, <2>1 DEF Slots
  <2>5. ~(s < q)
    BY <2>3, <2>4, RankGrows
  <2>6. ~(q < s)
    BY <2>3, <2>4, RankGrows
  <2> QED BY <2>4, <2>5, <2>6
<1>11. /\ handedOut[r] <= handedOut'[r]
       /\ handedOut[r] <= Count[r] => handedOut'[r] <= Count[r]
  <2>1. IsFiniteSet(Given(r)) /\ Cardinality(Given(r)) \in Nat
    BY <1>3, SlotsFinite
  <2>2. Cardinality(taken) <= Cardinality(Given(r))
    BY <1>3, <2>1, FS_Subset
  <2> HIDE DEF e
  <2> QED BY <1>2, <1>5, <1>6, <2>1, <2>2, GivenFits
<1>12. \E n \in Nat :
       /\ handedOut'[r] = handedOut[r] + n
       /\ Cardinality({s \in Slots : busyWith'[e][s] # None})
            = Cardinality({s \in Slots : busyWith[e][s] # None}) + n
  <2> DEFINE B == {s \in Slots : busyWith[e][s] # None}
             C == {s \in Slots : busyWith'[e][s] # None}
  <2>1. C = B \cup taken /\ B \cap taken = {}
    BY <1>2, <1>3, <1>7, <1>8
  <2>2. IsFiniteSet(B) /\ Cardinality(B) \in Nat
    <3>1. B \subseteq Slots
      OBVIOUS
    <3> HIDE DEF B
    <3> QED BY <3>1, SlotsFinite
  <2> HIDE DEF B, C
  <2>3. Cardinality(B \cap taken) = 0
    BY <2>1, FS_EmptySet
  <2>4. Cardinality(C) = Cardinality(B) + Cardinality(taken) - 0
    BY <1>5, <2>1, <2>2, <2>3, FS_Union
  <2>5. Cardinality(C) = Cardinality(B) + Cardinality(taken)
    BY <1>5, <2>2, <2>4
  <2> QED BY <1>5, <1>6, <2>5 DEF B, C
<1> HIDE DEF e
<1> QED BY <1>6, <1>9, <1>10, <1>11, <1>12 DEF Hands, e

LEMMA DispatchHands ==
  ASSUME TypeOK, NEW r \in Runs, uses[r] \in Runs, Dispatch(r)
  PROVE  /\ Hands(r)
         /\ (\A s \in Slots : busyWith'[uses[r]][s] = None) =>
              handedOut'[r] >= Count[r]
<1> DEFINE e == uses[r]
<1>1. Hands(r)
  BY HandHands, GivenAreFirst DEF Dispatch
<1>2. /\ e \in Runs /\ busyWith \in [Runs -> [Slots -> Nat \cup {None}]]
      /\ handedOut \in [Runs -> Nat] /\ Count[r] \in Nat /\ None \notin Nat
  BY PoolAssumption DEF TypeOK
<1>3. /\ Given(r) \subseteq Slots /\ Free(r) \subseteq Slots
      /\ \A s \in Slots : s \in Free(r) <=> busyWith[e][s] = None
      /\ \A s \in Slots : Rank(r, s) \in Nat
      /\ Cardinality(Given(r)) \in Nat
  BY RankIsNat DEF Given, Free
<1>4. /\ \A s \in Slots : busyWith'[e][s] =
           IF s \in Given(r) THEN handedOut[r] + Rank(r, s) ELSE busyWith[e][s]
      /\ handedOut'[r] = handedOut[r] + Cardinality(Given(r))
  BY <1>2 DEF Dispatch, Hand
<1> SUFFICES ASSUME \A s \in Slots : busyWith'[e][s] = None
             PROVE  handedOut'[r] >= Count[r]
  BY <1>1
<1> HIDE DEF e
<1>5. ASSUME NEW s \in Given(r) PROVE FALSE
  <2>1. handedOut[r] + Rank(r, s) \in Nat
    BY <1>2, <1>3
  <2> QED BY <1>2, <1>3, <1>4, <2>1
<1>6. Free(r) = Slots
  BY <1>3, <1>4, <1>5
<1>7. handedOut[r] >= Count[r]
  BY <1>5, <1>6, NoneGiven
<1> QED BY <1>2, <1>3, <1>4, <1>7

\* A dispatch that is cut short hands the same way.
LEMMA DispatchThrowsHands ==
  ASSUME TypeOK, NEW r \in Runs, uses[r] \in Runs, DispatchThrows(r)
  PROVE  Hands(r)
<1>1. PICK bad \in Given(r) :
        Hand(r, {s \in Given(r) : s <= bad}, {s \in Given(r) : s < bad})
  BY DEF DispatchThrows
<1> DEFINE taken == {s \in Given(r) : s <= bad}
           posted == {s \in Given(r) : s < bad}
<1>2. Given(r) \subseteq Free(r) /\ Free(r) \subseteq Nat /\ bad \in Nat
  BY DEF Given, Free, Slots
<1>3. posted \in SUBSET taken
  BY <1>2
<1>4. FirstFree(r, taken)
  <2> SUFFICES ASSUME NEW s \in taken, NEW q \in Free(r), q < s PROVE q \in taken
    BY DEF FirstFree
  <2>1. q \in Given(r)
    BY GivenAreFirst DEF FirstFree
  <2> QED BY <1>2, <2>1
<1> HIDE DEF taken, posted
<1> QED BY <1>1, <1>3, <1>4, HandHands DEF taken, posted

LEMMA NoDispatchHands ==
  ASSUME TypeOK, NEW r \in Runs, NoDispatch PROVE Hands(r)
<1>1. busyWith' = busyWith /\ job' = job /\ handedOut' = handedOut
  BY DEF NoDispatch
<1>2. handedOut[r] \in Nat
  BY DEF TypeOK
<1> DEFINE B == {s \in Slots : busyWith[uses[r]][s] # None}
<1>3. Cardinality(B) \in Nat
  <2>1. B \subseteq Slots
    OBVIOUS
  <2> HIDE DEF B
  <2> QED BY <2>1, SlotsFinite
<1>4. \E n \in Nat :
       /\ handedOut'[r] = handedOut[r] + n
       /\ Cardinality({s \in Slots : busyWith'[uses[r]][s] # None})
            = Cardinality({s \in Slots : busyWith[uses[r]][s] # None}) + n
  <2>1. {s \in Slots : busyWith'[uses[r]][s] # None} = B
    BY <1>1
  <2> HIDE DEF B
  <2>2. handedOut'[r] = handedOut[r] + 0 /\ Cardinality(B) = Cardinality(B) + 0
    BY <1>1, <1>2, <1>3
  <2> QED BY <2>1, <2>2 DEF B
<1> HIDE DEF B
<1>5. handedOut[r] <= handedOut'[r]
  BY <1>1, <1>2
<1>6. handedOut[r] <= Count[r] => handedOut'[r] <= Count[r]
  BY <1>1
<1> QED BY <1>1, <1>4, <1>5, <1>6 DEF Hands
-----------------------------------------------------------------------------
(* The elements that are out, and the answers to them.                     *)

Answering == {"done", "failed"}

\* A set nobody has started yet is untouched.
FreshSets == \A e \in Runs : startState[e] = "none" =>
  /\ loaded[e] = {} /\ ~startFailed[e]
  /\ \A s \in Slots : /\ th[e][s] = "unborn" /\ mail[e][s] = <<>>
                      /\ job[e][s] = None /\ busyWith[e][s] = None
                      /\ ~alive[e][s]

\* A worker that has an element, or an answer on its way, is busy with that
\* element, and there is no second one.
OneToken == \A e \in Runs, s \in Slots :
  /\ job[e][s] # None =>
       /\ busyWith[e][s] = job[e][s].id
       /\ \A i \in 1 .. Len(mail[e][s]) : mail[e][s][i].kind \notin Answering
  /\ \A i \in 1 .. Len(mail[e][s]) : mail[e][s][i].kind \in Answering =>
       busyWith[e][s] = mail[e][s][i].id
  /\ \A i, j \in 1 .. Len(mail[e][s]) :
       mail[e][s][i].kind \in Answering /\ mail[e][s][j].kind \in Answering
         => i = j

\* What is out, or on its way back, while a run listens is that run's.
OwnTokens == \A r \in Runs : Listening(r) => \A s \in Slots :
  /\ job[uses[r]][s] # None => job[uses[r]][s].run = r
  /\ \A i \in 1 .. Len(mail[uses[r]][s]) :
       mail[uses[r]][s][i].kind \in Answering => mail[uses[r]][s][i].from = r

\* Between runs the members the pool holds are free.
IdleFree == \A e \in Runs : members = e =>
  (\E r \in Runs : Listening(r)) \/ \A s \in Slots : busyWith[e][s] = None

\* A run that has not begun has nothing.
Begun0 == {"parked", "woken", "yielded", "cleanup", "ended"}
Untouched == \A r \in Runs : pc[r] \notin Begun0 =>
  /\ got[r] = <<>> /\ finished[r] = <<>> /\ handedOut[r] = 0
  /\ ~failure[r] /\ outcome[r] = "none"

\* The results a run has, given to its consumer or not yet.
Kept == [r \in Runs |-> got[r] \o finished[r]]
KeptOnce == \A r \in Runs :
  /\ \A i \in 1 .. Len(Kept[r]) :
       Kept[r][i].run = r /\ Kept[r][i].id < handedOut[r]
  /\ \A i, j \in 1 .. Len(Kept[r]) : Kept[r][i].id = Kept[r][j].id => i = j

\* The elements a run's members are busy with are others, and differ.
BusyAreOut == \A r \in Runs : Listening(r) => \A s \in Slots :
  busyWith[uses[r]][s] # None =>
    /\ busyWith[uses[r]][s] < handedOut[r]
    /\ \A i \in 1 .. Len(Kept[r]) : Kept[r][i].id # busyWith[uses[r]][s]
    /\ \A q \in Slots : busyWith[uses[r]][q] = busyWith[uses[r]][s] => q = s

\* Nothing handed out is lost, unless a task failed; nothing is had twice.
Busy == [e \in Runs |-> {s \in Slots : busyWith[e][s] # None}]
Balanced == \A r \in Runs : Listening(r) =>
  /\ Len(Kept[r]) + Cardinality(Busy[uses[r]]) <= handedOut[r]
  /\ ~failure[r] =>
       Len(Kept[r]) + Cardinality(Busy[uses[r]]) = handedOut[r]

HandedFits == \A r \in Runs : handedOut[r] <= Count[r]

\* A run that succeeds has everything.
OkIsComplete == \A r \in Runs : outcome[r] = "ok" =>
  pc[r] \in {"cleanup", "ended"} /\ Len(got[r]) = Count[r]

TokensInv == FreshSets /\ OneToken /\ OwnTokens
RunsInv == /\ Untouched /\ KeptOnce /\ BusyAreOut /\ Balanced /\ HandedFits
           /\ OkIsComplete
PoolInv == SetsInv /\ TokensInv /\ IdleFree /\ RunsInv

-----------------------------------------------------------------------------
\* Steps that hand nothing out and deliver nothing.
Keeps ==
  /\ UNCHANGED <<job, busyWith, got, finished, handedOut, failure>>
  /\ \A e \in Runs, s \in Slots : mail'[e][s] \in {mail[e][s], <<>>}
  /\ \A r \in Runs : Listening(r)' => Listening(r) /\ uses'[r] = uses[r]
  /\ \A r \in Runs : pc'[r] \notin Begun0 =>
       pc[r] \notin Begun0 /\ outcome'[r] = outcome[r]
  /\ \A r \in Runs : outcome'[r] = "ok" =>
       /\ outcome[r] = "ok" \/ Len(got[r]) = Count[r]
       /\ pc'[r] \in {"cleanup", "ended"}

LEMMA KeepsTokens ==
  ASSUME PoolInv, Keeps PROVE (OneToken /\ OwnTokens)'
<1> USE DEF PoolInv, TokensInv
<1>1. OneToken'
  <2> SUFFICES ASSUME NEW e \in Runs, NEW s \in Slots
               PROVE  /\ job[e][s] # None =>
                           /\ busyWith[e][s] = job[e][s].id
                           /\ \A i \in 1 .. Len(mail'[e][s]) :
                                mail'[e][s][i].kind \notin Answering
                      /\ \A i \in 1 .. Len(mail'[e][s]) :
                           mail'[e][s][i].kind \in Answering =>
                             busyWith[e][s] = mail'[e][s][i].id
                      /\ \A i, j \in 1 .. Len(mail'[e][s]) :
                           (/\ mail'[e][s][i].kind \in Answering
                            /\ mail'[e][s][j].kind \in Answering) => i = j
    BY DEF OneToken, Keeps
  <2>1. CASE mail'[e][s] = mail[e][s]
    BY <2>1 DEF OneToken
  <2>2. CASE mail'[e][s] = <<>>
    <3>1. \A i : i \notin 1 .. Len(mail'[e][s])
      BY <2>2
    <3> QED BY <3>1 DEF OneToken
  <2> QED BY <2>1, <2>2 DEF Keeps
<1>2. OwnTokens'
  <2> SUFFICES ASSUME NEW r \in Runs, Listening(r)', NEW s \in Slots
               PROVE  /\ job[uses[r]][s] # None => job[uses[r]][s].run = r
                      /\ \A i \in 1 .. Len(mail'[uses[r]][s]) :
                           mail'[uses[r]][s][i].kind \in Answering =>
                             mail'[uses[r]][s][i].from = r
    BY DEF OwnTokens, Keeps
  <2>0. Listening(r) /\ uses[r] \in Runs
    BY DEF Keeps, SetsInv, TypeInv, HasSet, WithSet, Listening
  <2>1. CASE mail'[uses[r]][s] = mail[uses[r]][s]
    BY <2>0, <2>1 DEF OwnTokens
  <2>2. CASE mail'[uses[r]][s] = <<>>
    <3>1. \A i : i \notin 1 .. Len(mail'[uses[r]][s])
      BY <2>2
    <3> QED BY <2>0, <3>1 DEF OwnTokens
  <2> QED BY <2>0, <2>1, <2>2 DEF Keeps
<1> QED BY <1>1, <1>2

LEMMA KeepsRuns == ASSUME PoolInv, Keeps PROVE RunsInv'
<1> USE DEF PoolInv, RunsInv
<1>0. Kept' = Kept /\ Busy' = Busy
  BY DEF Keeps, Kept, Busy
<1>1. Untouched'
  BY DEF Keeps, Untouched
<1>2. KeptOnce'
  BY <1>0 DEF Keeps, KeptOnce
<1>3. BusyAreOut'
  BY <1>0 DEF Keeps, BusyAreOut
<1>4. Balanced'
  BY <1>0 DEF Keeps, Balanced
<1>5. HandedFits'
  BY DEF Keeps, HandedFits
<1>6. OkIsComplete'
  BY DEF Keeps, OkIsComplete
<1> QED BY <1>1, <1>2, <1>3, <1>4, <1>5, <1>6
-----------------------------------------------------------------------------

\* A set nobody has started stays untouched, whatever happens to the others.
Quietly ==
  \A e \in Runs, s \in Slots :
    /\ th[e][s] = "unborn" => th'[e][s] = "unborn"
    /\ mail[e][s] = <<>> => mail'[e][s] = <<>>

LEMMA StopQuietly ==
  ASSUME TypeOK, NEW f \in Runs, th' = StopThreads(f), mail' = StopMail(f)
  PROVE  Quietly
  BY DEF TypeOK, StopThreads, StopMail, Lives, Quietly

LEMMA SameQuietly == ASSUME UNCHANGED <<th, mail>> PROVE Quietly
  BY DEF Quietly

LEMMA QuietFresh ==
  ASSUME FreshSets, Quietly, UNCHANGED <<loaded, startFailed, alive>>,
         \A e \in Runs : startState'[e] = "none" =>
           /\ startState[e] = "none"
           /\ job'[e] = job[e] /\ busyWith'[e] = busyWith[e]
  PROVE  FreshSets'
  BY DEF FreshSets, Quietly

LEMMA StartFresh ==
  ASSUME TypeOK, FreshSets, NEW r \in Runs, Start(r) PROVE FreshSets'
<1>1. /\ \E x : th' = [th EXCEPT ![r] = x]
      /\ \E x : alive' = [alive EXCEPT ![r] = x]
      /\ \E x \in {"pending", "rejected"} :
           startState' = [startState EXCEPT ![r] = x]
      /\ UNCHANGED <<loaded, startFailed, mail, job, busyWith>>
  BY DEF Start, SpawnAll, SpawnSome
<1>2. \A e \in Runs : e # r => /\ th'[e] = th[e] /\ alive'[e] = alive[e]
                               /\ startState'[e] = startState[e]
  BY <1>1 DEF TypeOK
<1>3. startState'[r] # "none"
  BY <1>1 DEF TypeOK
<1> QED BY <1>1, <1>2, <1>3 DEF FreshSets

LEMMA ThreadFresh ==
  ASSUME TypeOK, FreshSets, NEW f \in Runs, NEW q \in Slots,
         ThreadDies(f, q) \/ ThreadExitsZero(f, q) \/ ThreadStep(f, q)
  PROVE  FreshSets'
<1>1. startState[f] # "none"
  BY DEF ThreadDies, ThreadExitsZero, ThreadStep, ThreadLoads, ThreadAnswers,
         ThreadStops, Deliver, FreshSets
<1>2. startState' = startState
  BY DEF ThreadDies, ThreadExitsZero, ThreadStep, ThreadLoads, ThreadAnswers,
         ThreadStops, Deliver
<1>3. /\ \E x : th' = [th EXCEPT ![f][q] = x] \/ th' = th
      /\ \E x : mail' = [mail EXCEPT ![f][q] = x]
      /\ \E x : job' = [job EXCEPT ![f][q] = x] \/ job' = job
  BY DEF ThreadDies, ThreadExitsZero, ThreadStep, ThreadLoads, ThreadAnswers,
         ThreadStops, Deliver, Send
<1>4. \A e \in Runs : e # f =>
        th'[e] = th[e] /\ mail'[e] = mail[e] /\ job'[e] = job[e]
  BY <1>3 DEF TypeOK
<1>5. \A e \in Runs : e # f =>
        /\ busyWith'[e] = busyWith[e] /\ alive'[e] = alive[e]
        /\ loaded'[e] = loaded[e] /\ startFailed'[e] = startFailed[e]
  <2>1. CASE ~Deliver(f, q)
    BY <2>1 DEF ThreadDies, ThreadExitsZero, ThreadStep, ThreadLoads,
                ThreadAnswers, ThreadStops
  <2>2. CASE Deliver(f, q)
    <3>1. /\ \E x : alive' = [alive EXCEPT ![f][q] = x] \/ alive' = alive
          /\ \E x : busyWith' = [busyWith EXCEPT ![f][q] = x]
                    \/ busyWith' = busyWith
          /\ \E x : loaded' = [loaded EXCEPT ![f] = x] \/ loaded' = loaded
          /\ \E x : startFailed' = [startFailed EXCEPT ![f] = x]
                    \/ startFailed' = startFailed
      BY <2>2 DEF Deliver, StartHears, RunHears, NobodyHears
    <3> QED BY <3>1 DEF TypeOK
  <2> QED BY <2>1, <2>2
<1> QED BY <1>1, <1>2, <1>4, <1>5 DEF FreshSets

\* dispatch() touches the run's own set only.
LEMMA HandsElsewhere ==
  ASSUME TypeOK, NEW r \in Runs, uses[r] \in Runs,
         Dispatch(r) \/ DispatchThrows(r) \/ NoDispatch
  PROVE  \A e \in Runs : e # uses[r] =>
           job'[e] = job[e] /\ busyWith'[e] = busyWith[e]
  BY DEF TypeOK, Dispatch, DispatchThrows, Hand, NoDispatch

LEMMA LoopQuietly ==
  ASSUME TypeOK, NEW r \in Runs, uses[r] \in Runs, LoopPass(r) PROVE Quietly
<1>1. \/ UNCHANGED <<th, mail>>
      \/ th' = StopThreads(uses[r]) /\ mail' = StopMail(uses[r])
  BY DEF LoopPass, Finish, Throw, Yield, Park, PostThrows, Finally, Leave, RetireWith
<1> QED BY <1>1, SameQuietly, StopQuietly

LEMMA RunFresh ==
  ASSUME SetsInv, FreshSets, NEW r \in Runs,
         \/ MembersReady(r) \/ Started(r) \/ Resume(r) \/ CleanedUp(r)
         \/ Pull(r) \/ Return(r)
  PROVE  FreshSets'
<1> USE DEF SetsInv, TypeInv
<1>1. uses[r] \in Runs
  BY DEF HasSet, WithSet, MembersReady, Started, Resume, CleanedUp, Pull,
         Return
<1>2. /\ UNCHANGED <<startState, loaded, startFailed, alive>>
  BY DEF MembersReady, Started, Resume, CleanedUp, Pull, Return, NotReady
<1>3. Quietly
  <2>1. \/ LoopPass(r) \/ UNCHANGED <<th, mail>>
        \/ th' = StopThreads(uses[r]) /\ mail' = StopMail(uses[r])
    BY DEF MembersReady, Started, Resume, CleanedUp, Pull, Return, NotReady,
           Enter, DispatchAndLoop, LoopOnly, LoopPass, RetireWith
  <2> QED BY <1>1, <2>1, LoopQuietly, SameQuietly, StopQuietly
<1>4. \/ UNCHANGED <<job, busyWith>>
      \/ /\ Dispatch(r) \/ DispatchThrows(r)
         /\ startState[uses[r]] = "fulfilled"
  <2>1. pc[r] = "yielded" => startState[uses[r]] = "fulfilled"
    BY DEF StartsOnce, ListensToStarted, Listening
  <2> QED BY <2>1
          DEF MembersReady, Started, Resume, CleanedUp, Pull, Return, NotReady,
              Enter, DispatchAndLoop, LoopOnly, PostThrows, NoDispatch
<1>5. \A e \in Runs : startState'[e] = "none" =>
        /\ startState[e] = "none"
        /\ job'[e] = job[e] /\ busyWith'[e] = busyWith[e]
  BY <1>1, <1>2, <1>4, HandsElsewhere
<1> QED BY <1>2, <1>3, <1>5, QuietFresh

LEMMA NextFresh == SetsInv /\ FreshSets /\ [Next]_vars => FreshSets'
<1> SUFFICES ASSUME SetsInv, FreshSets, [Next]_vars PROVE FreshSets'
  OBVIOUS
<1> USE DEF SetsInv, TypeInv
<1>0. ASSUME UNCHANGED <<loaded, startFailed, alive, job, busyWith>>, Quietly,
             \A e \in Runs : startState'[e] = "none" => startState[e] = "none"
      PROVE  FreshSets'
  BY <1>0, QuietFresh
<1>1. ASSUME NEW r \in Runs, \/ Call(r) \/ CalledOff(r) \/ Release(r)
                             \/ TakeTurn(r) \/ Retired(r)
      PROVE  FreshSets'
  <2>1. CASE Start(r)
    BY <2>1, StartFresh
  <2>2. CASE ~Start(r)
    BY <1>0, <1>1, <2>2, SameQuietly
       DEF Call, CalledOff, Release, TakeTurn, Retired
  <2> QED BY <2>1, <2>2
<1>2. ASSUME NEW r \in Runs, Abort(r) PROVE FreshSets'
  <2>1. Quietly
    <3>1. \/ UNCHANGED <<th, mail>>
          \/ /\ th' = StopThreads(uses[r]) /\ mail' = StopMail(uses[r])
             /\ uses[r] \in Runs
      BY <1>2 DEF Abort, AbortDiscards, Listening, RetireWith, HasSet, WithSet
    <3> QED BY <3>1, SameQuietly, StopQuietly
  <2> QED BY <1>0, <1>2, <2>1 DEF Abort
<1>3. ASSUME NEW e \in Runs, SetStep(e) PROVE FreshSets'
  <2>1. Quietly
    <3>1. \/ UNCHANGED <<th, mail>>
          \/ th' = StopThreads(e) /\ mail' = StopMail(e)
      BY <1>3 DEF SetStep, RetireSettles, StartFulfils, StartFails,
                  StartRejects, RetireWith
    <3> QED BY <3>1, SameQuietly, StopQuietly
  <2>2. UNCHANGED <<loaded, startFailed, alive, job, busyWith>>
    BY <1>3 DEF SetStep, RetireSettles, StartFulfils, StartFails, StartRejects
  <2>3. \A f \in Runs : startState'[f] = "none" => startState[f] = "none"
    BY <1>3 DEF SetStep, RetireSettles, StartFulfils, StartFails, StartRejects,
                TypeOK
  <2> QED BY <1>0, <2>1, <2>2, <2>3
<1>4. ASSUME Close \/ CloseStep PROVE FreshSets'
  <2>1. Quietly
    <3>1. \/ UNCHANGED <<th, mail>>
          \/ /\ th' = StopThreads(closeSet) /\ mail' = StopMail(closeSet)
             /\ closeSet \in Runs
      BY <1>4 DEF Close, CloseStep, CloseStarted, CloseTerminated,
                  CloseSettles, HasSet
    <3> QED BY <3>1, SameQuietly, StopQuietly
  <2> QED BY <1>0, <1>4, <2>1
          DEF Close, CloseStep, CloseStarted, CloseTerminated, CloseSettles
<1>5. ASSUME UNCHANGED vars PROVE FreshSets'
  BY <1>0, <1>5, SameQuietly DEF vars
<1> HIDE DEF SetsInv
<1>6. ASSUME NEW r \in Runs, RunStep(r) \/ Consume(r) PROVE FreshSets'
  BY <1>1, <1>6, RunFresh DEF RunStep, Consume
<1>7. ASSUME NEW e \in Runs, NEW s \in Slots,
             ThreadDies(e, s) \/ ThreadExitsZero(e, s) \/ ThreadStep(e, s)
      PROVE  FreshSets'
  BY <1>7, ThreadFresh DEF SetsInv
<1> QED BY <1>1, <1>2, <1>3, <1>4, <1>5, <1>6, <1>7 DEF Next, Outside
-----------------------------------------------------------------------------
\* Steps after which whoever listened still does, and the pool holds no other
\* set than one that nobody had started.
Stays ==
  /\ Keeps
  /\ \A r \in Runs : Listening(r) => Listening(r)'
  /\ \A e \in Runs : members' = e => members = e \/ startState[e] = "none"

LEMMA StaysKeeps ==
  ASSUME PoolInv, Stays PROVE (OneToken /\ OwnTokens /\ IdleFree)' /\ RunsInv'
<1>1. Keeps
  BY DEF Stays
<1>2. (OneToken /\ OwnTokens)' /\ RunsInv'
  BY <1>1, KeepsTokens, KeepsRuns
<1>3. IdleFree'
  BY <1>1 DEF Stays, Keeps, PoolInv, IdleFree, TokensInv, FreshSets
<1> QED BY <1>2, <1>3

\* A pass of run r's loop, or its finally block: it may hand elements out, and
\* give its consumer a result it has.
Passes(r) ==
  /\ Hands(r)
  /\ UNCHANGED <<uses, failure>>
  /\ \A e \in Runs, s \in Slots : mail'[e][s] \in {mail[e][s], <<>>}
  /\ \/ Listening(r)
     \/ /\ pc[r] \in {"awaitMembers", "awaitStart"}
        /\ \A s \in Slots : busyWith[uses[r]][s] = None
  /\ Kept' = Kept
  /\ \A q \in Runs : q # r =>
                   /\ pc'[q] = pc[q] /\ outcome'[q] = outcome[q]
                   /\ got'[q] = got[q] /\ finished'[q] = finished[q]
  /\ pc'[r] \in Begun0
  /\ outcome'[r] = "ok" =>
       pc'[r] \in {"cleanup", "ended"} /\ Len(got'[r]) = Count[r]
  /\ members' \in {None, members}
  /\ (members' # None /\ ~Listening(r)') =>
       \A s \in Slots : busyWith'[uses[r]][s] = None

LEMMA OneLess ==
  ASSUME NEW S, NEW T, NEW x \in S, IsFiniteSet(S), T = S \ {x}
  PROVE  Cardinality(T) = Cardinality(S) - 1
  BY FS_RemoveElement

LEMMA BusyFinite ==
  ASSUME NEW e \in Runs
  PROVE  IsFiniteSet(Busy[e]) /\ Cardinality(Busy[e]) \in Nat
<1>1. Busy[e] \subseteq Slots
  BY DEF Busy
<1> QED BY <1>1, SlotsFinite

LEMMA KeptType ==
  ASSUME TypeOK, NEW r \in Runs
  PROVE  Kept[r] \in Seq(Jobs) /\ Len(Kept[r]) = Len(got[r]) + Len(finished[r])
<1>1. got[r] \in Seq(Jobs) /\ finished[r] \in Seq(Jobs)
  BY DEF TypeOK
<1>2. Kept[r] = got[r] \o finished[r]
  BY DEF Kept
<1> QED BY <1>1, <1>2, ConcatProperties

\* What holds of a run that listens holds of one whose workers are all free
\* and that has not begun.
RunIsSound(r) ==
  /\ \A s \in Slots : busyWith[uses[r]][s] # None =>
       /\ busyWith[uses[r]][s] < handedOut[r]
       /\ \A i \in 1 .. Len(Kept[r]) : Kept[r][i].id # busyWith[uses[r]][s]
       /\ \A q \in Slots : busyWith[uses[r]][q] = busyWith[uses[r]][s] => q = s
  /\ Len(Kept[r]) + Cardinality(Busy[uses[r]]) <= handedOut[r]
  /\ ~failure[r] =>
       Len(Kept[r]) + Cardinality(Busy[uses[r]]) = handedOut[r]

LEMMA SoundBefore ==
  ASSUME PoolInv, NEW r \in Runs, uses[r] \in Runs,
         \/ Listening(r)
         \/ /\ pc[r] \in {"awaitMembers", "awaitStart"}
            /\ \A s \in Slots : busyWith[uses[r]][s] = None
  PROVE  RunIsSound(r)
<1>1. CASE Listening(r)
  BY <1>1 DEF RunIsSound, PoolInv, RunsInv, BusyAreOut, Balanced
<1>2. CASE /\ pc[r] \in {"awaitMembers", "awaitStart"}
           /\ \A s \in Slots : busyWith[uses[r]][s] = None
  <2>1. Busy[uses[r]] = {}
    BY <1>2 DEF Busy
  <2>2. Cardinality(Busy[uses[r]]) = 0
    BY <2>1, FS_EmptySet
  <2>3. got[r] = <<>> /\ finished[r] = <<>> /\ handedOut[r] = 0
    BY <1>2 DEF PoolInv, RunsInv, Untouched, Begun0
  <2>4. Len(Kept[r]) = 0
    <3>1. Len(Kept[r]) = Len(got[r]) + Len(finished[r])
      BY KeptType DEF PoolInv, SetsInv, TypeInv
    <3>2. Len(got[r]) = 0 /\ Len(finished[r]) = 0
      BY <2>3
    <3> QED BY <3>1, <3>2
  <2> QED BY <1>2, <2>2, <2>3, <2>4 DEF RunIsSound
<1> QED BY <1>1, <1>2

LEMMA PassesTokens ==
  ASSUME PoolInv, OneActive, NEW r \in Runs, uses[r] \in Runs, Passes(r)
  PROVE  (OneToken /\ OwnTokens /\ IdleFree)'
<1>0. TypeOK /\ OneToken /\ None \notin Nat
  BY PoolAssumption DEF PoolInv, SetsInv, TypeInv, TokensInv
<1>1. \A f \in Runs, s \in Slots :
        \/ busyWith'[f][s] = busyWith[f][s] /\ job'[f][s] = job[f][s]
        \/ /\ f = uses[r] /\ busyWith[f][s] = None /\ busyWith'[f][s] \in Nat
           /\ job'[f][s] \in {job[f][s], [run |-> r, id |-> busyWith'[f][s]]}
  BY DEF Passes, Hands
\* A free member has nothing.
<1>2. ASSUME NEW f \in Runs, NEW s \in Slots, busyWith[f][s] = None
      PROVE  /\ job[f][s] = None
             /\ \A i \in 1 .. Len(mail[f][s]) : mail[f][s][i].kind \notin Answering
  <2>1. job[f][s] # None => job[f][s].id \in Nat
    BY <1>0 DEF TypeOK, Jobs
  <2>2. job[f][s] = None
    BY <1>0, <1>2, <2>1 DEF OneToken
  <2>3. ASSUME NEW i \in 1 .. Len(mail[f][s]), mail[f][s][i].kind \in Answering
        PROVE  FALSE
    <3>1. mail[f][s][i] \in Message
      BY <1>0 DEF TypeOK
    <3>2. mail[f][s][i].id \in Nat
      BY <2>3, <3>1 DEF Message, Answering
    <3> QED BY <1>0, <1>2, <2>3, <3>2 DEF OneToken
  <2> QED BY <2>2, <2>3
<1>3. \A f \in Runs, s \in Slots : mail'[f][s] \in {mail[f][s], <<>>}
  BY DEF Passes
<1>4. OneToken'
  <2> SUFFICES ASSUME NEW e \in Runs, NEW s \in Slots
               PROVE  /\ job'[e][s] # None =>
                           /\ busyWith'[e][s] = job'[e][s].id
                           /\ \A i \in 1 .. Len(mail'[e][s]) :
                                mail'[e][s][i].kind \notin Answering
                      /\ \A i \in 1 .. Len(mail'[e][s]) :
                           mail'[e][s][i].kind \in Answering =>
                             busyWith'[e][s] = mail'[e][s][i].id
                      /\ \A i, j \in 1 .. Len(mail'[e][s]) :
                           (/\ mail'[e][s][i].kind \in Answering
                            /\ mail'[e][s][j].kind \in Answering) => i = j
    BY DEF OneToken
  <2>1. (mail'[e][s] = <<>>) => \A i : i \notin 1 .. Len(mail'[e][s])
    OBVIOUS
  <2>2. CASE busyWith'[e][s] = busyWith[e][s] /\ job'[e][s] = job[e][s]
    <3>1. CASE mail'[e][s] = mail[e][s]
      BY <1>0, <2>2, <3>1 DEF OneToken
    <3>2. CASE mail'[e][s] = <<>>
      BY <1>0, <2>1, <2>2, <3>2 DEF OneToken
    <3> QED BY <1>3, <3>1, <3>2
  <2>3. CASE /\ busyWith[e][s] = None
             /\ job'[e][s] \in {job[e][s], [run |-> r, id |-> busyWith'[e][s]]}
    <3>1. job'[e][s] # None => job'[e][s].id = busyWith'[e][s]
      BY <1>2, <2>3
    <3>2. \A i \in 1 .. Len(mail'[e][s]) : mail'[e][s][i].kind \notin Answering
      BY <1>2, <1>3, <2>1, <2>3
    <3> QED BY <3>1, <3>2
  <2> QED BY <1>1, <2>2, <2>3
<1>5. uses' = uses
  BY DEF Passes
<1>6. \A q \in Runs : Listening(q)' => q = r
  <2> SUFFICES ASSUME NEW q \in Runs, Listening(q)', q # r PROVE FALSE
    OBVIOUS
  <2>1. Listening(q)
    BY DEF Passes, Listening
  <2>2. Active(q) /\ Active(r)
    BY <2>1 DEF Passes, Listening, Active, WithSet
  <2> QED BY <2>2 DEF OneActive
<1>7. ASSUME NEW s \in Slots
      PROVE  /\ job'[uses[r]][s] # None => job'[uses[r]][s].run = r
             /\ \A i \in 1 .. Len(mail'[uses[r]][s]) :
                  mail'[uses[r]][s][i].kind \in Answering =>
                    mail'[uses[r]][s][i].from = r
  <2>1. (mail'[uses[r]][s] = <<>>) => \A i : i \notin 1 .. Len(mail'[uses[r]][s])
    OBVIOUS
  <2>2. \/ Listening(r)
        \/ busyWith[uses[r]][s] = None
    BY DEF Passes
  <2>3. /\ job[uses[r]][s] # None => job[uses[r]][s].run = r
        /\ \A i \in 1 .. Len(mail[uses[r]][s]) :
             mail[uses[r]][s][i].kind \in Answering =>
               mail[uses[r]][s][i].from = r
    BY <1>2, <2>2 DEF PoolInv, TokensInv, OwnTokens
  <2>4. job'[uses[r]][s] \in {job[uses[r]][s],
                              [run |-> r, id |-> busyWith'[uses[r]][s]]}
    BY <1>1
  <2>5. job'[uses[r]][s] # None => job'[uses[r]][s].run = r
    BY <2>3, <2>4
  <2> QED BY <1>3, <2>1, <2>3, <2>5
<1>8. OwnTokens'
  BY <1>5, <1>6, <1>7 DEF OwnTokens
<1>9. IdleFree'
  <2> SUFFICES ASSUME NEW e \in Runs, members' = e,
                      \A q \in Runs : ~Listening(q)', NEW s \in Slots
               PROVE  busyWith'[e][s] = None
    BY DEF IdleFree
  <2>1. members' # None /\ members = e
    BY PoolAssumption DEF Passes
  <2>2. Active(r)
    BY DEF Passes, Listening, Active, WithSet
  <2>3. uses[r] = e
    BY <2>1, <2>2 DEF PoolInv, SetsInv, InHand, HeldIsUsed
  <2> QED BY <2>1, <2>3 DEF Passes
<1> QED BY <1>4, <1>8, <1>9

LEMMA PassesRuns ==
  ASSUME PoolInv, OneActive, NEW r \in Runs, uses[r] \in Runs, Passes(r)
  PROVE  RunsInv'
<1> DEFINE e == uses[r]
<1>0. TypeOK /\ RunIsSound(r) /\ RunsInv /\ None \notin Nat
  BY PoolAssumption, SoundBefore DEF PoolInv, SetsInv, TypeInv, Passes
<1>1. /\ uses' = uses /\ failure' = failure /\ Kept' = Kept
      /\ \A q \in Runs : q # r => handedOut'[q] = handedOut[q]
      /\ handedOut[r] \in Nat
  BY <1>0 DEF Passes, Hands, TypeOK
<1>2. PICK n \in Nat : /\ handedOut'[r] = handedOut[r] + n
                       /\ Cardinality({s \in Slots : busyWith'[e][s] # None})
                            = Cardinality({s \in Slots : busyWith[e][s] # None}) + n
  BY DEF Passes, Hands
<1>3. Cardinality(Busy'[e]) = Cardinality(Busy[e]) + n
  BY <1>2 DEF Busy
<1>4. \A q \in Runs : q # r => ~Listening(q)'
  <2> SUFFICES ASSUME NEW q \in Runs, Listening(q)', q # r PROVE FALSE
    OBVIOUS
  <2>1. Listening(q)
    BY DEF Passes, Listening
  <2>2. Active(q) /\ Active(r)
    BY <2>1 DEF Passes, Listening, Active, WithSet
  <2> QED BY <2>2 DEF OneActive
<1>5. \A q \in Runs : handedOut[q] \in Nat /\ handedOut[q] <= handedOut'[q]
                      /\ handedOut'[q] \in Nat
  <2>1. \A q \in Runs : handedOut[q] \in Nat
    BY <1>0 DEF TypeOK
  <2> QED BY <1>1, <1>2, <2>1
<1>6. \A q \in Runs : \A i \in 1 .. Len(Kept[q]) :
        Kept[q][i].id \in Nat /\ Kept[q][i].id < handedOut[q]
  <2> TAKE q \in Runs
  <2> TAKE i \in 1 .. Len(Kept[q])
  <2>1. Kept[q] \in Seq(Jobs)
    BY <1>0, KeptType
  <2>2. Kept[q][i] \in Jobs
    BY <2>1
  <2> QED BY <1>0, <2>2 DEF Jobs, RunsInv, KeptOnce
<1>7. Untouched'
  <2> SUFFICES ASSUME NEW q \in Runs, pc'[q] \notin Begun0
               PROVE  /\ got'[q] = <<>> /\ finished'[q] = <<>>
                      /\ handedOut'[q] = 0 /\ ~failure'[q]
                      /\ outcome'[q] = "none"
    BY DEF Untouched
  <2>1. q # r /\ pc'[q] = pc[q] /\ outcome'[q] = outcome[q]
    BY DEF Passes
  <2>2. /\ got[q] = <<>> /\ finished[q] = <<>> /\ handedOut[q] = 0
        /\ ~failure[q] /\ outcome[q] = "none"
    BY <1>0, <2>1 DEF RunsInv, Untouched
  <2> QED BY <1>1, <2>1, <2>2 DEF Passes
<1>8. KeptOnce'
  <2>1. \A q \in Runs : \A i \in 1 .. Len(Kept[q]) :
          Kept[q][i].run = q /\ Kept[q][i].id < handedOut'[q]
    <3> TAKE q \in Runs
    <3> TAKE i \in 1 .. Len(Kept[q])
    <3>1. Kept[q][i].run = q
      BY <1>0 DEF RunsInv, KeptOnce
    <3> QED BY <1>5, <1>6, <3>1
  <2> QED BY <1>0, <1>1, <2>1 DEF RunsInv, KeptOnce
<1>9. BusyAreOut'
  <2> SUFFICES ASSUME NEW s \in Slots, busyWith'[e][s] # None
               PROVE  /\ busyWith'[e][s] < handedOut'[r]
                      /\ \A i \in 1 .. Len(Kept[r]) :
                           Kept[r][i].id # busyWith'[e][s]
                      /\ \A q \in Slots :
                           busyWith'[e][q] = busyWith'[e][s] => q = s
    BY <1>1, <1>4 DEF BusyAreOut
  <2>1. \A q \in Slots :
          \/ /\ busyWith'[e][q] = busyWith[e][q]
             /\ busyWith[e][q] # None =>
                  busyWith[e][q] \in Nat /\ busyWith[e][q] < handedOut[r]
          \/ /\ busyWith[e][q] = None /\ busyWith'[e][q] \in Nat
             /\ handedOut[r] <= busyWith'[e][q]
             /\ busyWith'[e][q] < handedOut'[r]
    <3> TAKE q \in Slots
    <3>1. busyWith[e][q] # None => busyWith[e][q] \in Nat
      BY <1>0 DEF TypeOK
    <3>2. busyWith[e][q] # None => busyWith[e][q] < handedOut[r]
      BY <1>0 DEF RunIsSound
    <3>3. \/ busyWith'[e][q] = busyWith[e][q]
          \/ /\ busyWith[e][q] = None /\ busyWith'[e][q] \in Nat
             /\ handedOut[r] <= busyWith'[e][q]
             /\ busyWith'[e][q] < handedOut'[r]
      BY DEF Passes, Hands
    <3> HIDE DEF e
    <3> QED BY <3>1, <3>2, <3>3
  <2>2. CASE busyWith'[e][s] = busyWith[e][s]
    <3>1. busyWith[e][s] \in Nat /\ busyWith[e][s] < handedOut[r]
      BY <1>0, <2>1, <2>2
    <3>2. /\ \A i \in 1 .. Len(Kept[r]) : Kept[r][i].id # busyWith[e][s]
          /\ \A q \in Slots : busyWith[e][q] = busyWith[e][s] => q = s
      BY <1>0, <2>2 DEF RunIsSound
    <3>3. \A q \in Slots : busyWith'[e][q] = busyWith[e][s] =>
            busyWith[e][q] = busyWith[e][s]
      <4> HIDE DEF e
      <4> QED BY <1>1, <2>1, <3>1
    <3> HIDE DEF e
    <3> QED BY <1>1, <1>5, <2>2, <3>1, <3>2, <3>3
  <2>3. CASE busyWith'[e][s] # busyWith[e][s]
    <3>1. /\ busyWith[e][s] = None /\ busyWith'[e][s] \in Nat
          /\ handedOut[r] <= busyWith'[e][s]
          /\ busyWith'[e][s] < handedOut'[r]
      BY <2>1, <2>3
    <3>2. \A i \in 1 .. Len(Kept[r]) : Kept[r][i].id # busyWith'[e][s]
      <4> HIDE DEF e
      <4> QED BY <1>1, <1>6, <3>1
    <3>3. \A q \in Slots : busyWith'[e][q] = busyWith'[e][s] =>
            busyWith[e][q] = None
      <4> HIDE DEF e
      <4> QED BY <1>1, <2>1, <3>1, <1>0
    <3>4. \A q \in Slots : busyWith'[e][q] = busyWith'[e][s] => q = s
      <4> TAKE q \in Slots
      <4>1. (/\ busyWith[e][s] = None /\ busyWith[e][q] = None
             /\ busyWith'[e][s] # None /\ busyWith'[e][s] = busyWith'[e][q])
               => s = q
        BY DEF Passes, Hands
      <4> HIDE DEF e
      <4> QED BY <1>0, <3>1, <3>3, <4>1
    <3> QED BY <3>1, <3>2, <3>4
  <2> QED BY <2>2, <2>3
<1>10. Balanced'
  <2>1. /\ Len(Kept[r]) \in Nat /\ Cardinality(Busy[e]) \in Nat
    BY <1>0, KeptType, BusyFinite
  <2>2. /\ Len(Kept[r]) + Cardinality(Busy[e]) <= handedOut[r]
        /\ ~failure[r] => Len(Kept[r]) + Cardinality(Busy[e]) = handedOut[r]
    BY <1>0 DEF RunIsSound
  <2>3. /\ Len(Kept[r]) + Cardinality(Busy'[e]) <= handedOut'[r]
        /\ ~failure[r] => Len(Kept[r]) + Cardinality(Busy'[e]) = handedOut'[r]
    <3> HIDE DEF e
    <3> QED BY <1>1, <1>2, <1>3, <2>1, <2>2
  <2> QED BY <1>1, <1>4, <2>3 DEF Balanced
<1>11. HandedFits'
  BY <1>0, <1>1 DEF Passes, Hands, RunsInv, HandedFits
<1>12. OkIsComplete'
  BY <1>0 DEF Passes, RunsInv, OkIsComplete
<1> QED BY <1>7, <1>8, <1>9, <1>10, <1>11, <1>12 DEF RunsInv

LEMMA YieldKeepsKept ==
  ASSUME TypeOK, NEW r \in Runs, Yield(r) PROVE Kept' = Kept
<1>1. /\ got \in [Runs -> Seq(Jobs)] /\ finished \in [Runs -> Seq(Jobs)]
      /\ finished[r] # <<>>
      /\ got' = [got EXCEPT ![r] = Append(got[r], Head(finished[r]))]
      /\ finished' = [finished EXCEPT ![r] = Tail(finished[r])]
  BY DEF TypeOK, Yield
<1>2. \A q \in Runs : q # r => got'[q] = got[q] /\ finished'[q] = finished[q]
  BY <1>1
<1>3. /\ got'[r] = Append(got[r], Head(finished[r]))
      /\ finished'[r] = Tail(finished[r])
  BY <1>1
<1> DEFINE g == got[r]
           f == finished[r]
<1>4. /\ g \in Seq(Jobs) /\ f \in Seq(Jobs) /\ f # <<>>
      /\ Head(f) \in Jobs /\ Tail(f) \in Seq(Jobs)
  BY <1>1
<1> HIDE DEF g, f
<1>5. Append(g, Head(f)) \o Tail(f) = g \o f
  <2> DEFINE x == Append(g, Head(f)) \o Tail(f)
             y == g \o f
  <2>1. /\ Append(g, Head(f)) \in Seq(Jobs) /\ Len(Append(g, Head(f))) = Len(g) + 1
        /\ Len(Tail(f)) = Len(f) - 1 /\ Len(g) \in Nat /\ Len(f) \in Nat \ {0}
    BY <1>4
  <2>2. /\ x \in Seq(Jobs) /\ Len(x) = Len(g) + 1 + (Len(f) - 1)
        /\ \A i \in 1 .. (Len(g) + 1 + (Len(f) - 1)) :
             x[i] = IF i <= Len(g) + 1 THEN Append(g, Head(f))[i]
                    ELSE Tail(f)[i - (Len(g) + 1)]
    BY <1>4, <2>1, ConcatProperties
  <2>3. /\ y \in Seq(Jobs) /\ Len(y) = Len(g) + Len(f)
        /\ \A i \in 1 .. (Len(g) + Len(f)) :
             y[i] = IF i <= Len(g) THEN g[i] ELSE f[i - Len(g)]
    BY <1>4, ConcatProperties
  <2> HIDE DEF x, y
  <2>4. ASSUME NEW i \in 1 .. (Len(g) + Len(f)) PROVE x[i] = y[i]
    <3>1. x[i] = IF i <= Len(g) + 1 THEN Append(g, Head(f))[i]
                 ELSE Tail(f)[i - (Len(g) + 1)]
      <4>1. i \in 1 .. (Len(g) + 1 + (Len(f) - 1))
        BY <2>1
      <4> QED BY <2>2, <4>1
    <3>2. CASE i <= Len(g)
      <4>1. Append(g, Head(f))[i] = g[i]
        BY <1>4, <2>1, <3>2
      <4> QED BY <2>1, <2>3, <3>1, <3>2, <4>1
    <3>3. CASE i = Len(g) + 1
      <4>1. Append(g, Head(f))[i] = Head(f) /\ Head(f) = f[1]
        BY <1>4, <2>1, <3>3
      <4>2. i - Len(g) = 1
        BY <2>1, <3>3
      <4> QED BY <2>1, <2>3, <3>1, <3>3, <4>1, <4>2
    <3>4. CASE i > Len(g) + 1
      <4>1. /\ i - (Len(g) + 1) \in 1 .. (Len(f) - 1)
            /\ (i - (Len(g) + 1)) + 1 = i - Len(g)
        BY <2>1, <3>4
      <4>2. \A k \in 1 .. (Len(f) - 1) : Tail(f)[k] = f[k + 1]
        BY <1>4, HeadTailProperties
      <4>3. Tail(f)[i - (Len(g) + 1)] = f[i - Len(g)]
        BY <4>1, <4>2
      <4> QED BY <2>1, <2>3, <3>1, <3>4, <4>3
    <3> QED BY <2>1, <3>2, <3>3, <3>4
  <2>5. x = y
    BY <2>1, <2>2, <2>3, <2>4, SeqEqual
  <2> QED BY <2>5 DEF x, y
<1> QED BY <1>2, <1>3, <1>5 DEF Kept, g, f

\* A run that has all its results has nothing to hand out.
LEMMA FinishedHandsNothing ==
  ASSUME PoolInv, NEW r \in Runs, uses[r] \in Runs, RunIsSound(r),
         Len(got[r]) = Count[r]
  PROVE  Given(r) = {}
<1>1. TypeOK
  BY DEF PoolInv, SetsInv, TypeInv
<1>2. Len(Kept[r]) = Len(got[r]) + Len(finished[r])
  BY <1>1, KeptType
<1>3. /\ Cardinality(Busy[uses[r]]) \in Nat /\ Len(got[r]) \in Nat
      /\ Len(finished[r]) \in Nat /\ handedOut[r] \in Nat /\ Count[r] \in Nat
  BY <1>1, BusyFinite, PoolAssumption DEF TypeOK
<1>4. Len(Kept[r]) + Cardinality(Busy[uses[r]]) <= handedOut[r]
  BY DEF RunIsSound
<1>5. handedOut[r] >= Count[r]
  BY <1>2, <1>3, <1>4
<1>6. \A s \in Slots : Rank(r, s) \in Nat
  BY <1>1, RankIsNat
<1> QED BY <1>3, <1>5, <1>6 DEF Given, Free

LEMMA NothingGiven ==
  ASSUME TypeOK, NEW r \in Runs, uses[r] \in Runs, Dispatch(r), Given(r) = {}
  PROVE  busyWith' = busyWith
<1>1. busyWith' = [busyWith EXCEPT ![uses[r]] =
                     [s \in Slots |-> busyWith[uses[r]][s]]]
  BY DEF Dispatch, Hand
<1>2. [s \in Slots |-> busyWith[uses[r]][s]] = busyWith[uses[r]]
  BY DEF TypeOK
<1> QED BY <1>1, <1>2 DEF TypeOK

LEMMA LoopPasses ==
  ASSUME PoolInv, OneActive, NEW r \in Runs, uses[r] \in Runs,
         UNCHANGED <<uses, failure>>,
         \/ Listening(r)
         \/ /\ pc[r] \in {"awaitMembers", "awaitStart"}
            /\ \A s \in Slots : busyWith[uses[r]][s] = None,
         \/ DispatchAndLoop(r)
         \/ LoopOnly(r)
         \/ Finally(r, "abandoned") /\ NoDispatch /\ UNCHANGED <<got, finished>>
  PROVE  Passes(r)
<1>0. TypeOK /\ RunIsSound(r)
  BY SoundBefore DEF PoolInv, SetsInv, TypeInv
<1>1. Hands(r)
  BY <1>0, DispatchHands, DispatchThrowsHands, NoDispatchHands
     DEF DispatchAndLoop, LoopOnly, PostThrows, NoDispatch
<1>2. LoopPass(r)
  BY DEF DispatchAndLoop, LoopOnly, LoopPass
<1>3. mail' \in {mail, StopMail(uses[r])}
  BY <1>2 DEF LoopPass, Finish, Throw, Yield, Park, PostThrows, Finally, Leave, RetireWith
<1>4. \A e \in Runs, s \in Slots : mail'[e][s] \in {mail[e][s], <<>>}
  <2>1. CASE mail' = mail
    BY <2>1
  <2>2. CASE mail' = [mail EXCEPT ![uses[r]] = [s \in Slots |-> <<>>]]
    BY <1>0, <2>2 DEF TypeOK
  <2> QED BY <1>3, <2>1, <2>2 DEF StopMail
<1>5. Kept' = Kept
  <2>1. Yield(r) \/ UNCHANGED <<got, finished>>
    BY DEF DispatchAndLoop, LoopOnly, PostThrows, Finish, Throw, Park
  <2> QED BY <1>0, <2>1, YieldKeepsKept DEF Kept
<1>6. \A q \in Runs : q # r =>
         /\ pc'[q] = pc[q] /\ outcome'[q] = outcome[q]
         /\ got'[q] = got[q] /\ finished'[q] = finished[q]
  <2>1. /\ \E x : pc' = [pc EXCEPT ![r] = x]
        /\ (\E x : outcome' = [outcome EXCEPT ![r] = x]) \/ outcome' = outcome
        /\ (\E x : got' = [got EXCEPT ![r] = x]) \/ got' = got
        /\ (\E x : finished' = [finished EXCEPT ![r] = x]) \/ finished' = finished
    BY DEF DispatchAndLoop, LoopOnly, PostThrows, Finish, Throw, Park, Yield,
           Finally, Leave
  <2> QED BY <1>0, <2>1 DEF TypeOK
<1>7. pc'[r] \in Begun0
  <2>1. \E x \in Begun0 : pc' = [pc EXCEPT ![r] = x]
    BY <1>2 DEF LoopPass, PostThrows, Finish, Throw, Park, Yield, Finally, Leave, Begun0
  <2> QED BY <1>0, <2>1 DEF TypeOK
<1>8. outcome'[r] = "ok" =>
        pc'[r] \in {"cleanup", "ended"} /\ Len(got'[r]) = Count[r]
  <2>1. CASE Finish(r)
    <3>1. \E x \in {"cleanup", "ended"} : pc' = [pc EXCEPT ![r] = x]
      BY <2>1 DEF Finish, Finally, Leave
    <3> QED BY <1>0, <2>1, <3>1 DEF TypeOK, Finish
  <2>2. CASE Yield(r) \/ Park(r)
    <3>1. outcome[r] # "ok"
      BY DEF PoolInv, RunsInv, OkIsComplete, Listening
    <3> QED BY <2>2, <3>1 DEF Yield, Park
  <2>3. CASE Throw(r) \/ PostThrows(r) \/ Finally(r, "abandoned")
    <3>1. \E x \in {"aborted", "failed", "abandoned"} :
            outcome' = [outcome EXCEPT ![r] = x]
      BY <2>3 DEF Throw, PostThrows, Finally, Leave
    <3> QED BY <1>0, <3>1 DEF TypeOK
  <2> QED BY <1>2, <2>1, <2>2, <2>3 DEF LoopPass
<1>9. members' \in {None, members}
  BY <1>2 DEF LoopPass, Finish, Throw, Yield, Park, PostThrows, Finally, Leave
<1>10. (members' # None /\ ~Listening(r)') =>
         \A s \in Slots : busyWith'[uses[r]][s] = None
  <2> SUFFICES ASSUME members' # None, ~Listening(r)'
               PROVE  \A s \in Slots : busyWith'[uses[r]][s] = None
    OBVIOUS
  <2>1. ~Yield(r) /\ ~Park(r)
    <3>1. Yield(r) \/ Park(r) =>
            \E x \in {"yielded", "parked"} : pc' = [pc EXCEPT ![r] = x]
      BY DEF Yield, Park
    <3> QED BY <1>0, <3>1 DEF TypeOK, Listening
  <2>2. ~PostThrows(r)
    BY <1>0, PostThrowsGivesUp
  <2>3. \E out \in Outcomes : Finally(r, out)
    BY <1>2, <2>1, <2>2 DEF LoopPass, Finish, Throw, Outcomes
  <2>4. Outstanding(r) = {} /\ members' = members /\ members # None
    BY <2>3 DEF Finally, Leave
  <2>5. ~discarding[r]
    BY <2>4 DEF PoolInv, SetsInv, Tended, GivenUpEnds, GivenUp, DiscardsOnce,
                Listening
  <2>6. \A s \in Slots : busyWith[uses[r]][s] = None
    BY <2>4, <2>5 DEF Outstanding
  <2>7. busyWith' = busyWith
    <3>1. CASE NoDispatch
      BY <3>1 DEF NoDispatch
    <3>2. CASE Dispatch(r) /\ MayDispatch(r) /\ (Finish(r) \/ Throw(r))
      <4>1. Finish(r)
        BY <3>2 DEF Throw, MayDispatch
      <4>2. Given(r) = {}
        BY <1>0, <4>1, FinishedHandsNothing DEF Finish
      <4> QED BY <1>0, <3>2, <4>2, NothingGiven
    <3> QED BY <2>1, <2>2, <3>1, <3>2 DEF DispatchAndLoop, LoopOnly
  <2> QED BY <2>6, <2>7
<1> QED BY <1>1, <1>4, <1>5, <1>6, <1>7, <1>8, <1>9, <1>10 DEF Passes

\* The three invariants that are left to show after FreshSets.
TakenCare == (OneToken /\ OwnTokens /\ IdleFree)' /\ RunsInv'

\* Workers a run finds ready are free.
LEMMA ReadyIsFree ==
  ASSUME PoolInv, OneActive, NEW r \in Runs,
         pc[r] \in {"awaitMembers", "awaitStart"},
         startState[uses[r]] = "fulfilled", ~closed
  PROVE  uses[r] \in Runs /\ \A s \in Slots : busyWith[uses[r]][s] = None
<1>1. uses[r] \in Runs
  BY DEF PoolInv, SetsInv, TypeInv, HasSet, WithSet
<1>2. members = uses[r]
  BY <1>1, PoolAssumption
     DEF PoolInv, SetsInv, InHand, ClosedHoldsNone, Tended, AwaitedIsHeld, Holds
<1>3. \A q \in Runs : ~Listening(q)
  <2> SUFFICES ASSUME NEW q \in Runs, Listening(q) PROVE FALSE
    OBVIOUS
  <2>1. Active(q) /\ Active(r)
    BY DEF Listening, Active, WithSet
  <2> QED BY <2>1 DEF OneActive, Listening
<1> QED BY <1>1, <1>2, <1>3 DEF PoolInv, IdleFree

LEMMA NoElements ==
  ASSUME PoolInv, NEW r \in Runs, pc[r] \in {"awaitMembers", "awaitStart"},
         Count[r] = 0, EndWith(r, "ok"), NoDispatch,
         UNCHANGED <<members, mail, got, finished, uses, failure>>
  PROVE  Stays
<1>1. TypeOK /\ got[r] = <<>>
  BY DEF PoolInv, SetsInv, TypeInv, RunsInv, Untouched, Begun0
<1>2. Len(got[r]) = Count[r]
  BY <1>1
<1>3. /\ pc' = [pc EXCEPT ![r] = "ended"]
      /\ outcome' = [outcome EXCEPT ![r] = "ok"]
  BY DEF EndWith
<1>4. /\ \A q \in Runs : q # r => pc'[q] = pc[q] /\ outcome'[q] = outcome[q]
      /\ pc'[r] = "ended"
  BY <1>1, <1>3 DEF TypeOK
<1>5. \A q \in Runs : outcome[q] = "ok" => pc[q] \in {"cleanup", "ended"}
  BY DEF PoolInv, RunsInv, OkIsComplete
<1>6. \A q \in Runs : outcome'[q] = "ok" =>
        /\ outcome[q] = "ok" \/ Len(got[q]) = Count[q]
        /\ pc'[q] \in {"cleanup", "ended"}
  BY <1>2, <1>4, <1>5
<1>7. \A q \in Runs : Listening(q)' <=> Listening(q)
  BY <1>4 DEF Listening
<1> QED BY <1>4, <1>6, <1>7 DEF Stays, Keeps, NoDispatch, Begun0

\* Steps that move one run at most, to where it does not listen or has
\* listened, and end it only with a failure.
LEMMA TurnsStay ==
  ASSUME PoolInv, NEW r \in Runs,
         UNCHANGED <<job, busyWith, got, finished, handedOut, failure>>,
         \/ mail' = mail
         \/ \E e \in Runs : mail' = StopMail(e),
         \E to \in PCs : /\ pc' = [pc EXCEPT ![r] = to]
                         /\ \/ Listening(r) /\ to \in {pc[r], "woken"}
                            \/ pc[r] = "cleanup" /\ to = "ended"
                            \/ pc[r] = to /\ outcome' = outcome
                            \/ pc[r] \notin Begun0 /\ to \notin Begun0
                               /\ outcome'[r] = outcome[r]
                            \/ pc[r] \notin Begun0 /\ to = "ended",
         \/ outcome' = outcome
         \/ /\ pc[r] \notin Begun0
            /\ \E x \in Outcomes \ {"ok"} : outcome' = [outcome EXCEPT ![r] = x],
         \/ uses' = uses
         \/ ~Listening(r) /\ \E x \in Runs : uses' = [uses EXCEPT ![r] = x],
         \A e \in Runs : members' = e => members = e \/ startState[e] = "none"
  PROVE  Stays
<1>0. TypeOK
  BY DEF PoolInv, SetsInv, TypeInv
<1>1. PICK to \in PCs : /\ pc' = [pc EXCEPT ![r] = to]
                        /\ \/ Listening(r) /\ to \in {pc[r], "woken"}
                           \/ pc[r] = "cleanup" /\ to = "ended"
                           \/ pc[r] = to /\ outcome' = outcome
                           \/ pc[r] \notin Begun0 /\ to \notin Begun0
                              /\ outcome'[r] = outcome[r]
                           \/ pc[r] \notin Begun0 /\ to = "ended"
  OBVIOUS
<1>2. pc'[r] = to /\ \A q \in Runs : q # r => pc'[q] = pc[q]
  BY <1>0, <1>1 DEF TypeOK
<1>3. \A q \in Runs : q # r => outcome'[q] = outcome[q] /\ uses'[q] = uses[q]
  BY <1>0 DEF TypeOK
<1>4. \A e \in Runs, s \in Slots : mail'[e][s] \in {mail[e][s], <<>>}
  <2>1. ASSUME NEW f \in Runs, mail' = StopMail(f)
        PROVE  \A e \in Runs, s \in Slots : mail'[e][s] \in {mail[e][s], <<>>}
    <3>1. CASE mail' = mail
      BY <3>1
    <3>2. CASE mail' = [mail EXCEPT ![f] = [s \in Slots |-> <<>>]]
      BY <1>0, <3>2 DEF TypeOK
    <3> QED BY <2>1, <3>1, <3>2 DEF StopMail
  <2> QED BY <2>1
<1>5. \A q \in Runs : Listening(q)' <=> Listening(q)
  BY <1>1, <1>2 DEF Listening, Begun0
<1>6. \A q \in Runs : Listening(q)' => uses'[q] = uses[q]
  BY <1>3, <1>5
<1>7. \A q \in Runs : pc'[q] \notin Begun0 =>
        pc[q] \notin Begun0 /\ outcome'[q] = outcome[q]
  BY <1>1, <1>2, <1>3 DEF Begun0, Listening
<1>8. \A q \in Runs : outcome'[q] = "ok" =>
        outcome[q] = "ok" /\ pc'[q] \in {"cleanup", "ended"}
  <2>1. \A q \in Runs : outcome'[q] = "ok" => outcome[q] = "ok"
    BY <1>0 DEF TypeOK
  <2>2. \A q \in Runs : outcome[q] = "ok" => pc[q] \in {"cleanup", "ended"}
    BY DEF PoolInv, RunsInv, OkIsComplete
  <2> QED BY <1>1, <1>2, <2>1, <2>2 DEF Begun0, Listening
<1> QED BY <1>4, <1>5, <1>6, <1>7, <1>8 DEF Stays, Keeps

LEMMA QueueTaken ==
  ASSUME PoolInv, OneActive, NEW r \in Runs,
         Call(r) \/ CalledOff(r) \/ Release(r) \/ TakeTurn(r) \/ Retired(r)
  PROVE  TakenCare
<1>0. pc \in [Runs -> PCs] /\ None \notin Runs
  BY PoolAssumption DEF PoolInv, SetsInv, TypeInv, TypeOK
<1>1. CASE Call(r)
  <2>1. Stays
    BY <1>0, <1>1, TurnsStay DEF Call, Called, Begun0, PCs
  <2> QED BY <2>1, StaysKeeps DEF TakenCare
<1>2. CASE CalledOff(r)
  <2>1. Stays
    BY <1>0, <1>2, TurnsStay DEF CalledOff, EndWith, Begun0, PCs, Outcomes
  <2> QED BY <2>1, StaysKeeps DEF TakenCare
<1>3. CASE Release(r)
  <2>1. pc' = [pc EXCEPT ![r] = pc[r]] /\ pc[r] \in PCs
    BY <1>0, <1>3 DEF Release
  <2>2. Stays
    BY <1>0, <1>3, <2>1, TurnsStay DEF Release
  <2> QED BY <2>2, StaysKeeps DEF TakenCare
<1>4. CASE TakeTurn(r) \/ Retired(r)
  <2>1. pc[r] \in {"queued", "awaitRetire"}
    BY <1>4 DEF TakeTurn, Retired
  <2>2. CASE Start(r) /\ outcome' = outcome
    <3>1. /\ UNCHANGED <<job, busyWith, got, finished, handedOut, failure, mail>>
          /\ pc' = [pc EXCEPT ![r] = "awaitStart"]
          /\ uses' = [uses EXCEPT ![r] = r] /\ members' = r
      BY <1>4, <2>2 DEF TakeTurn, Retired, Start
    <3>2. startState[r] = "none"
      BY <2>1 DEF PoolInv, SetsInv, StartsOnce, NotYetStarted
    <3>3. Stays
      BY <2>1, <2>2, <3>1, <3>2, TurnsStay DEF Begun0, PCs, Listening
    <3> QED BY <3>3, StaysKeeps DEF TakenCare
  <2>3. CASE /\ EndWith(r, "refused")
             /\ UNCHANGED <<members, startVars, threadVars, memberVars, uses>>
    <3>1. Stays
      BY <1>4, <2>1, <2>3, TurnsStay
         DEF TakeTurn, Retired, EndWith, Begun0, PCs, Outcomes
    <3> QED BY <3>1, StaysKeeps DEF TakenCare
  <2>4. CASE /\ TakeTurn(r) /\ members # None
             /\ uses' = [uses EXCEPT ![r] = members]
             /\ pc' = [pc EXCEPT ![r] = "awaitMembers"]
             /\ UNCHANGED <<members, startVars, threadVars, memberVars, outcome>>
    <3>1. members \in Runs
      BY <2>4 DEF PoolInv, SetsInv, TypeInv, TypeOK
    <3>2. Stays
      BY <2>1, <2>4, <3>1, TurnsStay DEF TakeTurn, Begun0, PCs, Listening
    <3> QED BY <3>2, StaysKeeps DEF TakenCare
  <2> QED BY <1>4, <2>2, <2>3, <2>4 DEF TakeTurn, Retired
<1> QED BY <1>1, <1>2, <1>3, <1>4

LEMMA LoopTaken ==
  ASSUME PoolInv, OneActive, NEW r \in Runs, uses[r] \in Runs, Passes(r)
  PROVE  TakenCare
  BY PassesTokens, PassesRuns DEF TakenCare

LEMMA EnterTaken ==
  ASSUME PoolInv, OneActive, NEW r \in Runs, Enter(r),
         pc[r] \in {"awaitMembers", "awaitStart"},
         startState[uses[r]] = "fulfilled", ~closed,
         UNCHANGED <<asideVars, alive, uses, aborted, failure>>
  PROVE  TakenCare
<1>1. uses[r] \in Runs /\ \A s \in Slots : busyWith[uses[r]][s] = None
  BY ReadyIsFree
<1>2. CASE DispatchAndLoop(r)
  BY <1>1, <1>2, LoopPasses, LoopTaken
<1>3. CASE /\ Count[r] = 0 /\ EndWith(r, "ok") /\ NoDispatch
           /\ UNCHANGED <<members, retiring, th, mail, got, finished, discarding>>
  <2>1. Stays
    BY <1>3, NoElements
  <2> QED BY <2>1, StaysKeeps DEF TakenCare
<1> QED BY <1>2, <1>3 DEF Enter

LEMMA NotReadyTaken ==
  ASSUME PoolInv, NEW r \in Runs, NotReady(r), UNCHANGED asideVars,
         pc[r] \in {"awaitMembers", "awaitStart"}
  PROVE  TakenCare
<1>1. Stays
  BY TurnsStay DEF NotReady, EndWith, Begun0, PCs, Outcomes
<1> QED BY <1>1, StaysKeeps DEF TakenCare

LEMMA RunTaken ==
  ASSUME PoolInv, OneActive, NEW r \in Runs,
         \/ MembersReady(r) \/ Started(r) \/ Resume(r) \/ CleanedUp(r)
         \/ Pull(r) \/ Return(r)
  PROVE  TakenCare
<1>0. uses[r] \in Runs
  BY DEF PoolInv, SetsInv, TypeInv, HasSet, WithSet, MembersReady, Started,
         Resume, CleanedUp, Pull, Return
<1>1. CASE MembersReady(r)
  <2>0. pc[r] = "awaitMembers" /\ UNCHANGED asideVars
    BY <1>1 DEF MembersReady
  <2>1. CASE NotReady(r)
    BY <2>0, <2>1, NotReadyTaken
  <2>2. CASE /\ startState[uses[r]] = "fulfilled" /\ ~closed
             /\ Enter(r) /\ UNCHANGED <<alive, uses, aborted, failure>>
    BY <2>0, <2>2, EnterTaken
  <2>3. CASE /\ members' = IF members = uses[r] THEN None ELSE members
             /\ RetireWith(uses[r])
             /\ pc' = [pc EXCEPT ![r] = "awaitRetire"]
             /\ UNCHANGED <<job, memberVars, outcome, uses, loopVars>>
    <3>1. \A e \in Runs : members' = e => members = e
      BY <2>3, PoolAssumption
    <3>2. Stays
      BY <1>0, <2>0, <2>3, <3>1, TurnsStay DEF RetireWith, Begun0, PCs
    <3> QED BY <3>2, StaysKeeps DEF TakenCare
  <2> QED BY <1>1, <2>1, <2>2, <2>3 DEF MembersReady
<1>2. CASE Started(r)
  <2>0. pc[r] = "awaitStart" /\ UNCHANGED asideVars
    BY <1>2 DEF Started
  <2> QED BY <1>2, <2>0, NotReadyTaken, EnterTaken DEF Started
<1>3. CASE Resume(r) \/ Pull(r) \/ Return(r)
  <2>1. /\ Listening(r) /\ UNCHANGED <<uses, failure>>
        /\ \/ DispatchAndLoop(r)
           \/ LoopOnly(r)
           \/ /\ Finally(r, "abandoned") /\ NoDispatch
              /\ UNCHANGED <<got, finished>>
    BY <1>3 DEF Resume, Pull, Return, Listening
  <2> QED BY <1>0, <2>1, LoopPasses, LoopTaken
<1>4. CASE CleanedUp(r)
  <2>1. Stays
    BY <1>4, TurnsStay DEF CleanedUp, PCs
  <2> QED BY <2>1, StaysKeeps DEF TakenCare
<1> QED BY <1>1, <1>2, <1>3, <1>4

LEMMA StillStays ==
  ASSUME PoolInv,
         UNCHANGED <<job, busyWith, got, finished, handedOut, failure, pc,
                     outcome, uses>>,
         mail' = mail \/ \E e \in Runs : mail' = StopMail(e),
         members' \in {None, members}
  PROVE  TakenCare
<1>1. \A e \in Runs, s \in Slots : mail'[e][s] \in {mail[e][s], <<>>}
  <2>1. ASSUME NEW f \in Runs, mail' = StopMail(f)
        PROVE  \A e \in Runs, s \in Slots : mail'[e][s] \in {mail[e][s], <<>>}
    <3>1. CASE mail' = mail
      BY <3>1
    <3>2. CASE mail' = [mail EXCEPT ![f] = [s \in Slots |-> <<>>]]
      BY <3>2 DEF PoolInv, SetsInv, TypeInv, TypeOK
    <3> QED BY <2>1, <3>1, <3>2 DEF StopMail
  <2> QED BY <2>1
<1>2. \A q \in Runs : Listening(q)' <=> Listening(q)
  BY DEF Listening
<1>3. Stays
  BY <1>1, <1>2, PoolAssumption
     DEF Stays, Keeps, PoolInv, RunsInv, OkIsComplete
<1> QED BY <1>3, StaysKeeps DEF TakenCare

LEMMA AbortTaken ==
  ASSUME PoolInv, NEW r \in Runs, Abort(r) PROVE TakenCare
<1>1. mail' = mail \/ (uses[r] \in Runs /\ mail' = StopMail(uses[r]))
  BY DEF Abort, AbortDiscards, RetireWith, PoolInv, SetsInv, TypeInv, HasSet,
         WithSet, Listening
<1>2. CASE pc[r] = "parked"
  <2>1. Stays
    BY <1>1, <1>2, TurnsStay, PoolAssumption DEF Abort, Listening, PCs
  <2> QED BY <2>1, StaysKeeps DEF TakenCare
<1>3. CASE pc[r] # "parked"
  BY <1>1, <1>3, StillStays DEF Abort
<1> QED BY <1>2, <1>3

LEMMA SetTaken ==
  ASSUME PoolInv, (\E e \in Runs : SetStep(e)) \/ Close \/ CloseStep
         \/ UNCHANGED vars
  PROVE  TakenCare
<1>1. closing = "awaitStart" => closeSet \in Runs
  BY DEF PoolInv, SetsInv, TypeInv, HasSet
<1>2. UNCHANGED <<job, busyWith, got, finished, handedOut, failure, pc, outcome,
                  uses>>
  BY DEF SetStep, RetireSettles, StartFulfils, StartFails, StartRejects, Close,
         CloseStep, CloseStarted, CloseTerminated, CloseSettles, vars
<1>3. mail' = mail \/ \E e \in Runs : mail' = StopMail(e)
  BY <1>1 DEF SetStep, RetireSettles, StartFulfils, StartFails, StartRejects,
              RetireWith, Close, CloseStep, CloseStarted, CloseTerminated,
              CloseSettles, vars
<1>4. members' \in {None, members}
  BY DEF SetStep, RetireSettles, StartFulfils, StartFails, StartRejects, Close,
         CloseStep, CloseStarted, CloseTerminated, CloseSettles, vars
<1> QED BY <1>2, <1>3, <1>4, StillStays

-----------------------------------------------------------------------------
\* A thread says something; if that is an answer, it is to what it had in hand.
Says(e, s, m) ==
  /\ m \in Message
  /\ mail' = [mail EXCEPT ![e][s] = Append(mail[e][s], m)]
  /\ \/ m.kind \notin Answering
        /\ (job' = job \/ job' = [job EXCEPT ![e][s] = None])
     \/ /\ m.kind \in Answering /\ job[e][s] # None
        /\ m.id = job[e][s].id /\ m.from = job[e][s].run
        /\ job' = [job EXCEPT ![e][s] = None]
  /\ UNCHANGED <<members, memberVars, runVars>>

LEMMA ThreadSays ==
  ASSUME PoolInv, NEW e \in Runs, NEW s \in Slots,
         \/ ThreadDies(e, s) \/ ThreadExitsZero(e, s) \/ ThreadLoads(e, s)
         \/ ThreadAnswers(e, s) \/ ThreadStops(e, s)
  PROVE  \E m \in Message : Says(e, s, m)
<1>1. CASE \/ ThreadDies(e, s) \/ ThreadExitsZero(e, s) \/ ThreadLoads(e, s)
           \/ ThreadStops(e, s)
  <2>1. \E k \in {"ready", "broken", "died", "exited", "exitedZero"} :
          Send(e, s, Reply(k))
    BY <1>1 DEF ThreadDies, ThreadExitsZero, ThreadLoads, ThreadStops
  <2>2. PICK k \in {"ready", "broken", "died", "exited", "exitedZero"} :
          Send(e, s, Reply(k))
    BY <2>1
  <2>3. Reply(k) \in Message /\ Reply(k).kind \notin Answering
    BY DEF Reply, Message, Answering
  <2>4. job' = job \/ job' = [job EXCEPT ![e][s] = None]
    BY <1>1 DEF ThreadDies, ThreadExitsZero, ThreadLoads, ThreadStops
  <2>5. UNCHANGED <<members, memberVars, runVars>>
    BY <1>1 DEF ThreadDies, ThreadExitsZero, ThreadLoads, ThreadStops
  <2> QED BY <2>2, <2>3, <2>4, <2>5 DEF Says, Send
<1>2. CASE ThreadAnswers(e, s)
  <2>1. PICK k \in Answering : Send(e, s, Answer(k, job[e][s]))
    BY <1>2 DEF ThreadAnswers, Answering
  <2>2. job[e][s] # None /\ job[e][s] \in Jobs
    BY <1>2 DEF ThreadAnswers, PoolInv, SetsInv, TypeInv, TypeOK
  <2> DEFINE m == Answer(k, job[e][s])
  <2>3. /\ m \in Message /\ m.kind \in Answering
        /\ m.id = job[e][s].id /\ m.from = job[e][s].run
    BY <2>2 DEF Answer, Jobs, Message, Answering
  <2>4. job' = [job EXCEPT ![e][s] = None] /\ UNCHANGED <<members, memberVars, runVars>>
    BY <1>2 DEF ThreadAnswers
  <2>5. mail' = [mail EXCEPT ![e][s] = Append(mail[e][s], m)]
    BY <2>1 DEF Send
  <2> HIDE DEF m
  <2> QED BY <2>2, <2>3, <2>4, <2>5 DEF Says
<1> QED BY <1>1, <1>2

LEMMA SaysTaken ==
  ASSUME PoolInv, NEW e \in Runs, NEW s \in Slots, NEW m \in Message,
         Says(e, s, m)
  PROVE  TakenCare
<1>0. TypeOK /\ OneToken /\ OwnTokens /\ IdleFree /\ RunsInv
  BY DEF PoolInv, SetsInv, TypeInv, TokensInv
<1>1. /\ UNCHANGED <<members, busyWith, pc, uses, got, finished, handedOut,
                     failure, outcome>>
      /\ \A r \in Runs : Listening(r)' <=> Listening(r)
  BY DEF Says, Listening
<1>2. Kept' = Kept /\ Busy' = Busy
  BY <1>1 DEF Kept, Busy
<1>3. RunsInv'
  BY <1>0, <1>1, <1>2 DEF RunsInv, Untouched, KeptOnce, BusyAreOut, Balanced,
                          HandedFits, OkIsComplete
<1>4. IdleFree'
  BY <1>0, <1>1 DEF IdleFree
<1>5. \A f \in Runs, q \in Slots : (f # e \/ q # s) =>
        mail'[f][q] = mail[f][q] /\ job'[f][q] = job[f][q]
  <2>1. /\ mail' = [mail EXCEPT ![e][s] = Append(mail[e][s], m)]
        /\ job' = job \/ job' = [job EXCEPT ![e][s] = None]
    BY DEF Says
  <2>2. \A f \in Runs, q \in Slots : (f # e \/ q # s) =>
          mail'[f][q] = mail[f][q]
    BY <1>0, <2>1 DEF TypeOK
  <2>3. \A f \in Runs, q \in Slots : (f # e \/ q # s) =>
          job'[f][q] = job[f][q]
    BY <1>0, <2>1 DEF TypeOK
  <2> QED BY <2>2, <2>3
<1> DEFINE b == mail[e][s]
<1>6. /\ b \in Seq(Message) /\ mail'[e][s] = Append(b, m)
      /\ job'[e][s] \in {job[e][s], None}
      /\ (m.kind \in Answering) => job'[e][s] = None /\ job[e][s] # None
                                   /\ m.id = job[e][s].id
                                   /\ m.from = job[e][s].run
  BY <1>0, SMTT(30) DEF Says, TypeOK
<1>7. /\ Len(Append(b, m)) = Len(b) + 1 /\ Len(b) \in Nat
      /\ \A i \in 1 .. Len(b) : Append(b, m)[i] = b[i]
      /\ Append(b, m)[Len(b) + 1] = m
  BY <1>6
<1>8. \A i \in 1 .. Len(Append(b, m)) : i \in 1 .. Len(b) \/ i = Len(b) + 1
  BY <1>7
<1>9. /\ job[e][s] # None => /\ busyWith[e][s] = job[e][s].id
                             /\ \A i \in 1 .. Len(b) : b[i].kind \notin Answering
      /\ \A i \in 1 .. Len(b) : b[i].kind \in Answering =>
           busyWith[e][s] = b[i].id
      /\ \A i, j \in 1 .. Len(b) :
           b[i].kind \in Answering /\ b[j].kind \in Answering => i = j
  BY <1>0 DEF OneToken
<1> HIDE DEF b
<1>10. /\ job'[e][s] # None =>
            /\ busyWith[e][s] = job'[e][s].id
            /\ \A i \in 1 .. Len(mail'[e][s]) :
                 mail'[e][s][i].kind \notin Answering
       /\ \A i \in 1 .. Len(mail'[e][s]) : mail'[e][s][i].kind \in Answering =>
            busyWith[e][s] = mail'[e][s][i].id
       /\ \A i, j \in 1 .. Len(mail'[e][s]) :
            (/\ mail'[e][s][i].kind \in Answering
             /\ mail'[e][s][j].kind \in Answering) => i = j
  BY <1>6, <1>7, <1>8, <1>9
<1>11. OneToken'
  BY <1>0, <1>1, <1>5, <1>10 DEF OneToken
<1>12. OwnTokens'
  <2> SUFFICES ASSUME NEW r \in Runs, Listening(r), NEW q \in Slots
               PROVE  /\ job'[uses[r]][q] # None => job'[uses[r]][q].run = r
                      /\ \A i \in 1 .. Len(mail'[uses[r]][q]) :
                           mail'[uses[r]][q][i].kind \in Answering =>
                             mail'[uses[r]][q][i].from = r
    BY <1>1 DEF OwnTokens
  <2>1. uses[r] \in Runs
    BY DEF PoolInv, SetsInv, TypeInv, HasSet, WithSet, Listening
  <2>2. /\ job[uses[r]][q] # None => job[uses[r]][q].run = r
        /\ \A i \in 1 .. Len(mail[uses[r]][q]) :
             mail[uses[r]][q][i].kind \in Answering =>
               mail[uses[r]][q][i].from = r
    BY <1>0 DEF OwnTokens
  <2>3. CASE uses[r] # e \/ q # s
    BY <1>5, <2>1, <2>2, <2>3
  <2>4. CASE uses[r] = e /\ q = s
    <3>1. \A i \in 1 .. Len(b) : b[i].kind \in Answering => b[i].from = r
      BY <2>2, <2>4 DEF b
    <3> QED BY <1>6, <1>7, <1>8, <2>2, <2>4, <3>1, SMTT(30)
  <2> QED BY <2>3, <2>4
<1> QED BY <1>3, <1>4, <1>11, <1>12 DEF TakenCare

-----------------------------------------------------------------------------
\* What is left of a worker's mail holds no second answer.
LEMMA DeliverTokens ==
  ASSUME PoolInv, OneActive, NEW e \in Runs, NEW s \in Slots, Deliver(e, s)
  PROVE  (OneToken /\ OwnTokens /\ IdleFree)'
<1>0. TypeOK /\ OneToken /\ OwnTokens /\ IdleFree
  BY DEF PoolInv, SetsInv, TypeInv, TokensInv
<1> DEFINE b == mail[e][s]
           m == Head(b)
<1>1. /\ b \in Seq(Message) /\ b # <<>> /\ m = b[1]
      /\ mail' = [mail EXCEPT ![e][s] = Tail(b)]
      /\ UNCHANGED <<job, uses, members>>
  BY <1>0 DEF Deliver, TypeOK
<1>2. /\ \/ busyWith' = busyWith
         \/ m.kind \in Answering
              /\ busyWith' = [busyWith EXCEPT ![e][s] = None]
      /\ \/ pc' = pc
         \/ \E r \in Runs : /\ pc[r] = "parked"
                            /\ pc' = [pc EXCEPT ![r] = "woken"]
  BY DEF Deliver, RunHears, NobodyHears, Answering
<1>3. \A r \in Runs : Listening(r)' <=> Listening(r)
  BY <1>0, <1>2 DEF Listening, TypeOK
<1>4. /\ Len(Tail(b)) = Len(b) - 1 /\ Len(b) \in Nat \ {0}
      /\ \A i \in 1 .. (Len(b) - 1) : Tail(b)[i] = b[i + 1]
  <2> HIDE DEF b, m
  <2> QED BY <1>1, HeadTailProperties, EmptySeq
<1>5. \A f \in Runs, q \in Slots : (f # e \/ q # s) =>
        mail'[f][q] = mail[f][q] /\ busyWith'[f][q] = busyWith[f][q]
  <2> HIDE DEF b, m
  <2>1. \A f \in Runs, q \in Slots : (f # e \/ q # s) => mail'[f][q] = mail[f][q]
    BY <1>0, <1>1 DEF TypeOK
  <2>2. \A f \in Runs, q \in Slots : (f # e \/ q # s) =>
          busyWith'[f][q] = busyWith[f][q]
    BY <1>0, <1>2 DEF TypeOK
  <2> QED BY <2>1, <2>2
<1>6. /\ job[e][s] # None => /\ busyWith[e][s] = job[e][s].id
                             /\ \A i \in 1 .. Len(b) : b[i].kind \notin Answering
      /\ \A i \in 1 .. Len(b) : b[i].kind \in Answering =>
           busyWith[e][s] = b[i].id
      /\ \A i, j \in 1 .. Len(b) :
           b[i].kind \in Answering /\ b[j].kind \in Answering => i = j
  BY <1>0 DEF OneToken
<1>7. mail'[e][s] = Tail(b) /\ (busyWith'[e][s] = busyWith[e][s] \/ m.kind \in Answering)
  <2> HIDE DEF b, m
  <2> QED BY <1>0, <1>1, <1>2 DEF TypeOK
<1> HIDE DEF b, m
<1>8. \A i \in 1 .. Len(Tail(b)) : /\ i + 1 \in 1 .. Len(b) /\ i + 1 # 1
                                   /\ Tail(b)[i] = b[i + 1]
  BY <1>4
<1>9. 1 \in 1 .. Len(b)
  BY <1>4
<1>10. m.kind \in Answering =>
         /\ job[e][s] = None
         /\ \A i \in 1 .. Len(Tail(b)) : Tail(b)[i].kind \notin Answering
  BY <1>1, <1>6, <1>8, <1>9
<1>11. /\ job[e][s] # None =>
            /\ busyWith'[e][s] = job[e][s].id
            /\ \A i \in 1 .. Len(Tail(b)) : Tail(b)[i].kind \notin Answering
       /\ \A i \in 1 .. Len(Tail(b)) : Tail(b)[i].kind \in Answering =>
            busyWith'[e][s] = Tail(b)[i].id
       /\ \A i, j \in 1 .. Len(Tail(b)) :
            (/\ Tail(b)[i].kind \in Answering
             /\ Tail(b)[j].kind \in Answering) => i = j
  <2>1. CASE m.kind \in Answering
    BY <1>10, <2>1
  <2>2. CASE m.kind \notin Answering
    <3>1. busyWith'[e][s] = busyWith[e][s]
      BY <1>7, <2>2
    <3>2. \A i, j \in 1 .. Len(Tail(b)) :
            (/\ Tail(b)[i].kind \in Answering
             /\ Tail(b)[j].kind \in Answering) => i + 1 = j + 1
      BY <1>6, <1>8
    <3> QED BY <1>6, <1>8, <3>1, <3>2
  <2> QED BY <2>1, <2>2
<1>12. OneToken'
  BY <1>0, <1>1, <1>5, <1>7, <1>11, SMTT(30) DEF OneToken
<1>13. OwnTokens'
  <2> SUFFICES ASSUME NEW r \in Runs, Listening(r), NEW q \in Slots
               PROVE  /\ job[uses[r]][q] # None => job[uses[r]][q].run = r
                      /\ \A i \in 1 .. Len(mail'[uses[r]][q]) :
                           mail'[uses[r]][q][i].kind \in Answering =>
                             mail'[uses[r]][q][i].from = r
    BY <1>1, <1>3 DEF OwnTokens
  <2>1. uses[r] \in Runs
    BY DEF PoolInv, SetsInv, TypeInv, HasSet, WithSet, Listening
  <2>2. /\ job[uses[r]][q] # None => job[uses[r]][q].run = r
        /\ \A i \in 1 .. Len(mail[uses[r]][q]) :
             mail[uses[r]][q][i].kind \in Answering =>
               mail[uses[r]][q][i].from = r
    BY <1>0 DEF OwnTokens
  <2>3. CASE uses[r] # e \/ q # s
    BY <1>5, <2>1, <2>2, <2>3
  <2>4. CASE uses[r] = e /\ q = s
    <3>1. \A i \in 1 .. Len(b) : b[i].kind \in Answering => b[i].from = r
      BY <2>2, <2>4 DEF b
    <3>2. \A i \in 1 .. Len(Tail(b)) :
            Tail(b)[i].kind \in Answering => Tail(b)[i].from = r
      BY <1>8, <3>1
    <3>3. mail'[uses[r]][q] = Tail(b)
      BY <1>7, <2>4
    <3> QED BY <2>2, <3>2, <3>3
  <2> QED BY <2>3, <2>4
<1>14. IdleFree'
  <2>1. \A f \in Runs, q \in Slots : busyWith[f][q] = None => busyWith'[f][q] = None
    <3>1. CASE busyWith' = busyWith
      BY <3>1
    <3>2. CASE busyWith' = [busyWith EXCEPT ![e][s] = None]
      BY <1>0, <3>2 DEF TypeOK
    <3> QED BY <1>2, <3>1, <3>2
  <2>2. UNCHANGED members
    BY <1>1
  <2> QED BY <1>0, <1>3, <2>1, <2>2 DEF IdleFree
<1> QED BY <1>12, <1>13, <1>14

\* An answer frees the member it comes from, and may be a result.
LEMMA DeliverRuns ==
  ASSUME PoolInv, OneActive, NEW e \in Runs, NEW s \in Slots, Deliver(e, s)
  PROVE  RunsInv'
<1>0. TypeOK /\ OneToken /\ OwnTokens /\ RunsInv
  BY DEF PoolInv, SetsInv, TypeInv, TokensInv
<1> DEFINE m == Head(mail[e][s])
<1>1. /\ UNCHANGED <<outcome, uses, got, handedOut>>
      /\ RunHears(e, s, m) \/ NobodyHears(e)
  BY DEF Deliver
<1>2. 1 \in 1 .. Len(mail[e][s]) /\ m = mail[e][s][1] /\ m \in Message
  BY <1>0 DEF Deliver, TypeOK
<1>3. m.kind \in Answering => busyWith[e][s] = m.id /\ m.id \in Nat
  <2>1. m.kind \in Answering => m.id \in Nat
    BY <1>2 DEF Message, Answering
  <2> QED BY <1>0, <1>2, <2>1 DEF OneToken
<1>4. \A r \in Runs : Listening(r) /\ m.kind \in Answering /\ uses[r] = e => m.from = r
  BY <1>0, <1>2 DEF OwnTokens
<1> HIDE DEF m
<1>5. CASE NobodyHears(e)
  <2>1. UNCHANGED <<busyWith, pc, finished, failure>>
    BY <1>5 DEF NobodyHears
  <2>2. Kept' = Kept /\ Busy' = Busy /\ \A r \in Runs : Listening(r)' <=> Listening(r)
    BY <1>1, <2>1 DEF Kept, Busy, Listening
  <2> QED BY <1>0, <1>1, <2>1, <2>2
          DEF RunsInv, Untouched, KeptOnce, BusyAreOut, Balanced, HandedFits,
              OkIsComplete
<1>6. CASE RunHears(e, s, m)
  <2>1. PICK r \in Runs :
          /\ Listening(r) /\ uses[r] = e
          /\ failure' = [failure EXCEPT ![r] =
                           failure[r] \/ m.kind \in Failures \cup {"failed"}]
          /\ finished' = IF m.kind = "done"
                         THEN [finished EXCEPT ![r] = Append(finished[r], Result(m))]
                         ELSE finished
          /\ busyWith' = IF m.kind \in {"done", "failed"}
                         THEN [busyWith EXCEPT ![e][s] = None] ELSE busyWith
          /\ pc' = IF pc[r] = "parked"
                      /\ m.kind \in Failures \cup {"done", "failed"}
                   THEN [pc EXCEPT ![r] = "woken"] ELSE pc
    BY <1>6 DEF RunHears
  <2>2. \A q \in Runs : Listening(q)' <=> Listening(q)
    BY <1>0, <2>1 DEF Listening, TypeOK
  <2>3. \A q \in Runs : Listening(q) => q = r
    BY <2>1 DEF OneActive, Active, WithSet, Listening
  <2>4. /\ \A q \in Runs : q # r => /\ finished'[q] = finished[q]
                                    /\ failure'[q] = failure[q] /\ pc'[q] = pc[q]
        /\ pc'[r] \in Begun0 /\ pc[r] \notin {"cleanup", "ended"}
    <3>1. \A q \in Runs : q # r => finished'[q] = finished[q]
      BY <1>0, <2>1 DEF TypeOK
    <3>2. \A q \in Runs : q # r => failure'[q] = failure[q]
      BY <1>0, <2>1 DEF TypeOK
    <3>3. /\ \A q \in Runs : q # r => pc'[q] = pc[q]
          /\ pc'[r] \in {pc[r], "woken"}
      BY <1>0, <2>1 DEF TypeOK
    <3> QED BY <2>1, <3>1, <3>2, <3>3 DEF Listening, Begun0
  <2>5. Untouched'
    BY <1>0, <1>1, <2>4 DEF RunsInv, Untouched
  <2>6. HandedFits'
    BY <1>0, <1>1 DEF RunsInv, HandedFits
  <2>7. OkIsComplete'
    BY <1>0, <1>1, <2>4 DEF RunsInv, OkIsComplete, Begun0
  <2>8. \A q \in Runs : q # r => Kept'[q] = Kept[q]
    BY <1>1, <2>4 DEF Kept
  <2>9. RunIsSound(r)
    BY <1>0, <2>1 DEF RunIsSound, RunsInv, BusyAreOut, Balanced
  <2>10. /\ Len(Kept[r]) \in Nat /\ Cardinality(Busy[e]) \in Nat
         /\ IsFiniteSet(Busy[e]) /\ handedOut[r] \in Nat /\ Kept[r] \in Seq(Jobs)
    <3>1. Len(Kept[r]) \in Nat /\ Kept[r] \in Seq(Jobs)
      <4>1. Kept[r] \in Seq(Jobs)
        BY <1>0, KeptType
      <4> QED BY <4>1
    <3>2. IsFiniteSet(Busy[e]) /\ Cardinality(Busy[e]) \in Nat
      BY BusyFinite
    <3>3. handedOut[r] \in Nat
      BY <1>0 DEF TypeOK
    <3> QED BY <3>1, <3>2, <3>3
  <2>11. CASE m.kind = "done"
    <3> DEFINE k == Kept[r]
               x == Result(m)
    <3>1. finished'[r] = Append(finished[r], x) /\ got'[r] = got[r]
      BY <1>0, <1>1, <2>1, <2>11 DEF TypeOK
    <3>2. /\ x \in Jobs /\ x.id = m.id /\ x.run = r
          /\ m.id \in Nat /\ busyWith[e][s] = m.id
      BY <1>2, <1>3, <1>4, <2>1, <2>11 DEF Message, Result, Jobs, Answering
    <3>3. Kept'[r] = Append(k, x)
      <4>1. Kept'[r] = got[r] \o Append(finished[r], x)
        BY <3>1 DEF Kept
      <4>2. /\ got[r] \in Seq(Jobs) /\ finished[r] \in Seq(Jobs)
        BY <1>0 DEF TypeOK
      <4> DEFINE g == got[r]
                 f == finished[r]
      <4> HIDE DEF g, f, x
      <4>3. g \o Append(f, x) = Append(g \o f, x)
        <5>1. /\ Append(f, x) = f \o <<x>>
              /\ Append(g \o f, x) = (g \o f) \o <<x>>
          BY <3>2, <4>2, AppendIsConcat, ConcatProperties DEF g, f
        <5>2. <<x>> \in Seq(Jobs)
          BY <3>2
        <5>3. g \in Seq(Jobs) /\ f \in Seq(Jobs)
          BY <4>2 DEF g, f
        <5>4. (g \o f) \o <<x>> = g \o (f \o <<x>>)
          BY <5>2, <5>3, ConcatAssociative
        <5> QED BY <5>1, <5>4
      <4> QED BY <4>1, <4>3 DEF g, f, Kept
    <3>4. k \in Seq(Jobs) /\ Len(k) \in Nat
      BY <2>10
    <3> HIDE DEF x
    <3>5. /\ Len(Kept'[r]) = Len(k) + 1
          /\ \A i \in 1 .. Len(k) : Kept'[r][i] = k[i]
          /\ Kept'[r][Len(k) + 1] = x
      <4> HIDE DEF k
      <4> QED BY <3>2, <3>3, <3>4
    <3>6. \A i \in 1 .. Len(Kept'[r]) : i \in 1 .. Len(k) \/ i = Len(k) + 1
      BY <3>4, <3>5
    <3>7. busyWith' = [busyWith EXCEPT ![e][s] = None]
      BY <2>1, <2>11
    <3>8. /\ busyWith'[e][s] = None
          /\ \A q \in Slots : q # s => busyWith'[e][q] = busyWith[e][q]
      BY <1>0, <3>7 DEF TypeOK
    <3>9. /\ m.id < handedOut[r] /\ \A i \in 1 .. Len(k) : k[i].id # m.id
          /\ \A q \in Slots : busyWith[e][q] = m.id => q = s
      BY <2>1, <2>9, <3>2, PoolAssumption DEF RunIsSound
    <3>10. KeptOnce'
      <4>1. /\ \A i \in 1 .. Len(k) : k[i].run = r /\ k[i].id < handedOut[r]
            /\ \A i, j \in 1 .. Len(k) : k[i].id = k[j].id => i = j
        BY <1>0 DEF RunsInv, KeptOnce
      <4>2. /\ \A i \in 1 .. Len(Kept'[r]) :
                 Kept'[r][i].run = r /\ Kept'[r][i].id < handedOut[r]
            /\ \A i, j \in 1 .. Len(Kept'[r]) :
                 Kept'[r][i].id = Kept'[r][j].id => i = j
        <5> HIDE DEF k
        <5>1. \A i \in 1 .. Len(Kept'[r]) :
                Kept'[r][i].run = r /\ Kept'[r][i].id < handedOut[r]
          BY <3>2, <3>5, <3>6, <3>9, <4>1
        <5>2. \A i, j \in 1 .. Len(Kept'[r]) :
                Kept'[r][i].id = Kept'[r][j].id => i = j
          <6> SUFFICES ASSUME NEW i \in 1 .. Len(Kept'[r]), NEW j \in 1 .. Len(Kept'[r]),
                              Kept'[r][i].id = Kept'[r][j].id
                       PROVE  i = j
            OBVIOUS
          <6>1. CASE i \in 1 .. Len(k) /\ j \in 1 .. Len(k)
            BY <3>5, <4>1, <6>1
          <6>2. CASE i = Len(k) + 1 /\ j = Len(k) + 1
            BY <6>2
          <6>3. CASE i = Len(k) + 1 /\ j \in 1 .. Len(k)
            BY <3>2, <3>5, <3>9, <6>3
          <6>4. CASE i \in 1 .. Len(k) /\ j = Len(k) + 1
            BY <3>2, <3>5, <3>9, <6>4
          <6> QED BY <3>6, <6>1, <6>2, <6>3, <6>4
        <5> QED BY <5>1, <5>2
      <4> QED BY <1>0, <1>1, <2>8, <4>2, SMTT(30) DEF RunsInv, KeptOnce
    <3>11. BusyAreOut'
      <4> SUFFICES ASSUME NEW p \in Slots, busyWith'[e][p] # None
                   PROVE  /\ busyWith'[e][p] < handedOut[r]
                          /\ \A i \in 1 .. Len(Kept'[r]) :
                               Kept'[r][i].id # busyWith'[e][p]
                          /\ \A q \in Slots :
                               busyWith'[e][q] = busyWith'[e][p] => q = p
        BY <1>1, <2>1, <2>2, <2>3 DEF BusyAreOut
      <4>1. p # s /\ busyWith'[e][p] = busyWith[e][p]
        BY <3>8
      <4>2. /\ busyWith[e][p] < handedOut[r]
            /\ \A i \in 1 .. Len(k) : k[i].id # busyWith[e][p]
            /\ \A q \in Slots : busyWith[e][q] = busyWith[e][p] => q = p
        BY <2>1, <2>9, <4>1 DEF RunIsSound
      <4>3. busyWith[e][p] # m.id
        BY <3>9, <4>1
      <4>4. \A i \in 1 .. Len(Kept'[r]) : Kept'[r][i].id # busyWith[e][p]
        <5> HIDE DEF k
        <5> QED BY <3>2, <3>5, <3>6, <4>2, <4>3
      <4>5. \A q \in Slots : busyWith'[e][q] = busyWith'[e][p] => q = p
        BY <3>8, <4>1, <4>2
      <4> QED BY <4>1, <4>2, <4>4, <4>5
    <3>12. Busy'[e] = Busy[e] \ {s} /\ s \in Busy[e]
      BY <1>3, <2>11, <3>2, <3>8, PoolAssumption DEF Busy
    <3>13. Cardinality(Busy'[e]) = Cardinality(Busy[e]) - 1
      BY <2>10, <3>12, OneLess
    <3>14. /\ Len(Kept'[r]) + Cardinality(Busy'[e]) <= handedOut[r]
           /\ ~failure[r] => Len(Kept'[r]) + Cardinality(Busy'[e]) = handedOut[r]
      <4>1. /\ Len(k) + Cardinality(Busy[e]) <= handedOut[r]
            /\ ~failure[r] => Len(k) + Cardinality(Busy[e]) = handedOut[r]
        BY <2>1, <2>9 DEF RunIsSound
      <4> HIDE DEF k
      <4> QED BY <2>10, <3>4, <3>5, <3>13, <4>1
    <3>15. failure'[r] = failure[r]
      BY <1>0, <2>1, <2>11 DEF TypeOK, Failures
    <3>16. Balanced'
      BY <1>1, <2>1, <2>2, <2>3, <3>14, <3>15 DEF Balanced
    <3> QED BY <2>5, <2>6, <2>7, <3>10, <3>11, <3>16 DEF RunsInv
  <2>12. CASE m.kind # "done"
    <3>1. Kept' = Kept
      BY <1>1, <2>1, <2>12 DEF Kept
    <3>2. KeptOnce'
      BY <1>0, <1>1, <3>1 DEF RunsInv, KeptOnce
    <3>3. \A q \in Slots : busyWith'[e][q] \in {busyWith[e][q], None}
      BY <1>0, <2>1 DEF TypeOK
    <3>4. BusyAreOut'
      <4> SUFFICES ASSUME NEW p \in Slots, busyWith'[e][p] # None
                   PROVE  /\ busyWith'[e][p] < handedOut[r]
                          /\ \A i \in 1 .. Len(Kept[r]) :
                               Kept[r][i].id # busyWith'[e][p]
                          /\ \A q \in Slots :
                               busyWith'[e][q] = busyWith'[e][p] => q = p
        BY <1>1, <2>1, <2>2, <2>3, <3>1 DEF BusyAreOut
      <4>1. busyWith'[e][p] = busyWith[e][p]
        BY <3>3
      <4>2. /\ busyWith[e][p] < handedOut[r]
            /\ \A i \in 1 .. Len(Kept[r]) : Kept[r][i].id # busyWith[e][p]
            /\ \A q \in Slots : busyWith[e][q] = busyWith[e][p] => q = p
        BY <2>1, <2>9, <4>1 DEF RunIsSound
      <4> QED BY <3>3, <4>1, <4>2
    <3>5. /\ Len(Kept[r]) + Cardinality(Busy[e]) <= handedOut[r]
          /\ ~failure[r] => Len(Kept[r]) + Cardinality(Busy[e]) = handedOut[r]
      BY <2>1, <2>9 DEF RunIsSound
    <3>6. failure'[r] \in BOOLEAN /\ failure[r] \in BOOLEAN
          /\ (failure'[r] <=> (failure[r] \/ m.kind \in Failures \cup {"failed"}))
      BY <1>0, <2>1 DEF TypeOK
    <3>7. CASE m.kind = "failed"
      <4>1. busyWith' = [busyWith EXCEPT ![e][s] = None]
        BY <2>1, <3>7
      <4>2. Busy'[e] = Busy[e] \ {s} /\ s \in Busy[e]
        BY <1>0, <1>3, <3>7, <4>1, PoolAssumption DEF Busy, TypeOK, Answering
      <4>3. Cardinality(Busy'[e]) = Cardinality(Busy[e]) - 1
        BY <2>10, <4>2, OneLess
      <4>4. Len(Kept[r]) + Cardinality(Busy'[e]) <= handedOut[r]
        BY <2>10, <3>5, <4>3
      <4>5. failure'[r]
        BY <3>6, <3>7
      <4>6. Balanced'
        BY <1>1, <2>1, <2>2, <2>3, <3>1, <4>4, <4>5 DEF Balanced
      <4> QED BY <2>5, <2>6, <2>7, <3>2, <3>4, <4>6 DEF RunsInv
    <3>8. CASE m.kind # "failed"
      <4>1. busyWith' = busyWith
        BY <2>1, <2>12, <3>8
      <4>2. Busy' = Busy
        BY <4>1 DEF Busy
      <4>3. Balanced'
        BY <1>1, <2>1, <2>2, <2>3, <3>1, <3>5, <3>6, <4>2 DEF Balanced
      <4> QED BY <2>5, <2>6, <2>7, <3>2, <3>4, <4>3 DEF RunsInv
    <3> QED BY <3>7, <3>8
  <2> QED BY <2>11, <2>12
<1> QED BY <1>1, <1>5, <1>6

LEMMA NextKeepsPool == PoolInv /\ [Next]_vars => PoolInv'
<1> SUFFICES ASSUME PoolInv, [Next]_vars PROVE PoolInv'
  OBVIOUS
<1>1. SetsInv' /\ FreshSets'
  BY NextKeepsSets, NextFresh DEF PoolInv, TokensInv
<1>2. OneActive
  BY ChainOneActive DEF PoolInv, SetsInv, TypeInv
<1>3. ASSUME NEW r \in Runs, RunStep(r) \/ Consume(r) \/ Call(r) PROVE TakenCare
  BY <1>2, <1>3, QueueTaken, RunTaken DEF RunStep, Consume
<1>4. ASSUME NEW r \in Runs, Abort(r) PROVE TakenCare
  BY <1>4, AbortTaken
<1>5. ASSUME (\E e \in Runs : SetStep(e)) \/ Close \/ CloseStep \/ UNCHANGED vars
      PROVE  TakenCare
  BY <1>5, SetTaken
<1>6. ASSUME NEW e \in Runs, NEW s \in Slots, ~Deliver(e, s),
             ThreadDies(e, s) \/ ThreadExitsZero(e, s) \/ ThreadStep(e, s)
      PROVE  TakenCare
  BY <1>6, ThreadSays, SaysTaken DEF ThreadStep
<1>7. ASSUME NEW e \in Runs, NEW s \in Slots, Deliver(e, s) PROVE TakenCare
  BY <1>2, <1>7, DeliverTokens, DeliverRuns DEF TakenCare
<1>8. TakenCare
  BY <1>3, <1>4, <1>5, <1>6, <1>7 DEF Next, Outside
<1> QED BY <1>1, <1>8 DEF PoolInv, TokensInv, TakenCare

LEMMA InitPool == Init => PoolInv
<1> SUFFICES ASSUME Init PROVE PoolInv
  OBVIOUS
<1>1. SetsInv /\ TypeOK
  BY InitSets DEF SetsInv, TypeInv
<1>2. \A r \in Runs : ~Listening(r)
  BY DEF Init, Listening
<1>3. \A e \in Runs, s \in Slots : mail[e][s] = <<>> /\ Len(mail[e][s]) = 0
  BY DEF Init
<1>4. FreshSets
  BY DEF Init, FreshSets
<1>5. OneToken
  BY <1>3 DEF Init, OneToken
<1>6. OwnTokens /\ IdleFree
  BY <1>2 DEF Init, OwnTokens, IdleFree
<1>7. Untouched /\ HandedFits /\ OkIsComplete
  BY PoolAssumption DEF Init, Untouched, HandedFits, OkIsComplete
<1>8. \A r \in Runs : Len(Kept[r]) = 0
  <2> TAKE r \in Runs
  <2>1. Len(Kept[r]) = Len(got[r]) + Len(finished[r])
    BY <1>1, KeptType
  <2>2. Len(got[r]) = 0 /\ Len(finished[r]) = 0
    BY DEF Init
  <2> QED BY <2>1, <2>2
<1>9. KeptOnce /\ BusyAreOut /\ Balanced
  BY <1>2, <1>8 DEF KeptOnce, BusyAreOut, Balanced
<1> QED BY <1>1, <1>4, <1>5, <1>6, <1>7, <1>9 DEF PoolInv, TokensInv, RunsInv

LEMMA PoolFreeMeansFree == PoolInv => FreeMeansFree
<1> SUFFICES ASSUME PoolInv PROVE FreeMeansFree
  OBVIOUS
<1>0. TypeOK /\ OneToken /\ IdleFree /\ None \notin Nat
  BY PoolAssumption DEF PoolInv, SetsInv, TypeInv, TokensInv
<1>1. ASSUME NEW e \in Runs, NEW s \in Slots, busyWith[e][s] = None
      PROVE  job[e][s] = None /\ ~InMail(e, s, {"done", "failed"})
  <2>1. job[e][s] # None => job[e][s].id \in Nat
    BY <1>0 DEF TypeOK, Jobs
  <2>2. job[e][s] = None
    BY <1>0, <1>1, <2>1 DEF OneToken
  <2>3. ASSUME NEW i \in 1 .. Len(mail[e][s]), mail[e][s][i].kind \in Answering
        PROVE  FALSE
    <3>1. mail[e][s][i] \in Message
      BY <1>0 DEF TypeOK
    <3>2. mail[e][s][i].id \in Nat
      BY <2>3, <3>1 DEF Message, Answering
    <3> QED BY <1>0, <1>1, <2>3, <3>2 DEF OneToken
  <2> QED BY <2>2, <2>3 DEF InMail, Answering
<1>2. ASSUME members # None, \A r \in Runs : ~Listening(r), NEW s \in Slots
      PROVE  busyWith[members][s] = None
  BY <1>0, <1>2 DEF IdleFree, TypeOK
<1> QED BY <1>1, <1>2 DEF FreeMeansFree

LEMMA PoolInvHolds == Spec => []PoolInv
  BY InitPool, NextKeepsPool, PTL DEF Spec

\* What process() in pool/index.ts chains runs for: however many are called, and
\* whatever fails or is called off, the queue has at most one run in service.
THEOREM OneRunIsServedHolds == Spec => []Queue!OneActive
<1>1. PoolInv => Queue!OneActive
  <2> SUFFICES ASSUME PoolInv, NEW r \in Runs, NEW q \in Runs,
                      RunStatus[r] = "active", RunStatus[q] = "active"
               PROVE  r = q
    BY DEF Queue!OneActive
  <2>1. pc \in [Runs -> PCs]
    BY DEF PoolInv, SetsInv, TypeInv, TypeOK
  <2>2. pc[r] \notin {"idle", "queued", "ended"} /\ pc[q] \notin {"idle", "queued", "ended"}
    BY DEF RunStatus
  <2>3. Active(r) /\ Active(q)
    BY <2>1, <2>2 DEF Active, WithSet, PCs
  <2> QED BY <2>3, ChainOneActive DEF PoolInv, SetsInv, TypeInv, OneActive
<1> QED BY <1>1, PoolInvHolds, PTL

\* Whatever fails and in whatever order: the threads of two sets never live side
\* by side, a member marked free has nothing in hand and no answer on its way,
\* and no failure of a worker goes without a listener.
THEOREM SetsAreSoundHolds == Spec => []SetsAreSound
<1>1. PoolInv => SetsAreSound
  BY SetsOneAtATime, SetsFailuresHeard, PoolFreeMeansFree
     DEF PoolInv, SetsAreSound
<1> QED BY <1>1, PoolInvHolds, PTL

\* No answer reaches a run it is not for, and none is kept twice, however often
\* workers are kept from one run to the next.
THEOREM ResultsAreOwnHolds == Spec => []ResultsAreOwn
<1>1. PoolInv => ResultsAreOwn
  <2> SUFFICES ASSUME PoolInv, NEW r \in Runs
               PROVE  /\ \A i \in 1 .. Len(Kept[r]) :
                           Kept[r][i].run = r /\ Kept[r][i].id < handedOut[r]
                      /\ \A i, j \in 1 .. Len(Kept[r]) :
                           Kept[r][i] = Kept[r][j] => i = j
    BY DEF ResultsAreOwn, Kept
  <2> QED BY DEF PoolInv, RunsInv, KeptOnce
<1> QED BY <1>1, PoolInvHolds, PTL
-----------------------------------------------------------------------------
(* The pool implements the queue of runs: every step of it is a step of    *)
(* RunQueue, or leaves what RunQueue sees as it is.                        *)

QueueNext == [Queue!Next]_(Queue!vars)

LEMMA SameQueue ==
  ASSUME RunStatus' = RunStatus, Consumed' = Consumed, order' = order,
         closed' = closed
  PROVE  QueueNext
  BY DEF QueueNext, Queue!vars

\* Where run r alone moves, its status alone changes.
LEMMA OneMoves ==
  ASSUME NEW r \in Runs,
         \A q \in Runs : q # r => pc'[q] = pc[q] /\ outcome'[q] = outcome[q]
  PROVE  RunStatus' = [RunStatus EXCEPT ![r] = RunStatus'[r]]
<1>1. /\ RunStatus = [q \in Runs |-> RunStatus[q]]
      /\ RunStatus' = [q \in Runs |-> RunStatus'[q]]
  BY DEF RunStatus
<1>2. \A q \in Runs : q # r => RunStatus'[q] = RunStatus[q]
  BY DEF RunStatus
<1> QED BY <1>1, <1>2

LEMMA GotIsKept ==
  ASSUME TypeOK, NEW r \in Runs
  PROVE  /\ got[r] \in Seq(Jobs) /\ finished[r] \in Seq(Jobs)
         /\ Len(got[r]) \in Nat /\ Len(finished[r]) \in Nat
         /\ Kept[r] \in Seq(Jobs)
         /\ Len(Kept[r]) = Len(got[r]) + Len(finished[r])
         /\ \A i \in 1 .. Len(got[r]) :
              i \in 1 .. Len(Kept[r]) /\ Kept[r][i] = got[r][i]
         /\ finished[r] # <<>> =>
              /\ Len(got[r]) + 1 \in 1 .. Len(Kept[r])
              /\ Kept[r][Len(got[r]) + 1] = Head(finished[r])
<1> DEFINE g == got[r]
           f == finished[r]
           k == g \o f
<1>1. g \in Seq(Jobs) /\ f \in Seq(Jobs)
  BY DEF TypeOK
<1>2. Kept[r] = k
  BY DEF Kept
<1> HIDE DEF g, f
<1>3. /\ k \in Seq(Jobs) /\ Len(k) = Len(g) + Len(f)
      /\ \A i \in 1 .. (Len(g) + Len(f)) :
           k[i] = IF i <= Len(g) THEN g[i] ELSE f[i - Len(g)]
  BY <1>1, ConcatProperties
<1> HIDE DEF k
<1>4. Len(g) \in Nat /\ Len(f) \in Nat
  BY <1>1
<1>5. \A i \in 1 .. Len(g) : i \in 1 .. Len(k) /\ k[i] = g[i]
  BY <1>3, <1>4
<1>6. ASSUME f # <<>>
      PROVE  Len(g) + 1 \in 1 .. Len(k) /\ k[Len(g) + 1] = Head(f)
  <2>1. Len(f) # 0 /\ Head(f) = f[1]
    BY <1>1, <1>6, EmptySeq
  <2>2. Len(g) + 1 \in 1 .. (Len(g) + Len(f)) /\ (Len(g) + 1) - Len(g) = 1
        /\ ~(Len(g) + 1 <= Len(g))
    BY <1>4, <2>1
  <2> QED BY <1>3, <2>1, <2>2
<1> QED BY <1>1, <1>2, <1>3, <1>4, <1>5, <1>6 DEF g, f

\* A run that has as many results as elements has every position's.
LEMMA AllConsumed ==
  ASSUME PoolInv, NEW r \in Runs, Len(got[r]) = Count[r]
  PROVE  Consumed[r] = 0 .. (Count[r] - 1)
<1> DEFINE n == Count[r]
           T == 0 .. (n - 1)
           S == Consumed[r]
           f == [i \in 1 .. n |-> got[r][i].id]
<1>0. TypeOK /\ n \in Nat
  BY PoolAssumption DEF PoolInv, SetsInv, TypeInv
<1>1. \A i \in 1 .. n : /\ i \in 1 .. Len(Kept[r]) /\ Kept[r][i] = got[r][i]
                        /\ got[r][i].id \in Nat
  <2>1. got[r] \in Seq(Jobs) /\ Len(got[r]) = n
    BY <1>0, GotIsKept
  <2>2. \A i \in 1 .. n : got[r][i] \in Jobs
    BY <2>1
  <2> QED BY <1>0, <2>2, GotIsKept DEF Jobs
<1>2. handedOut[r] \in Nat /\ handedOut[r] <= n
  BY <1>0 DEF TypeOK, PoolInv, RunsInv, HandedFits
<1>3. /\ \A i \in 1 .. n : got[r][i].id < handedOut[r]
      /\ \A i, j \in 1 .. n : got[r][i].id = got[r][j].id => i = j
  <2>1. /\ \A i \in 1 .. Len(Kept[r]) : Kept[r][i].id < handedOut[r]
        /\ \A i, j \in 1 .. Len(Kept[r]) :
             Kept[r][i].id = Kept[r][j].id => i = j
    BY DEF PoolInv, RunsInv, KeptOnce
  <2> HIDE DEF n
  <2>2. \A i \in 1 .. n : got[r][i].id < handedOut[r]
    BY <1>1, <2>1
  <2>3. \A i, j \in 1 .. n : got[r][i].id = got[r][j].id => i = j
    BY <1>1, <2>1
  <2> QED BY <2>2, <2>3
<1>4. S \subseteq T
  <2>1. \A i \in 1 .. n : got[r][i].id \in T
    <3> TAKE i \in 1 .. n
    <3>1. got[r][i].id \in Nat /\ got[r][i].id < handedOut[r]
      BY <1>1, <1>3
    <3> QED BY <1>0, <1>2, <3>1
  <2> QED BY <2>1 DEF Consumed
<1>5. f \in Injection(1 .. n, S)
  BY <1>3 DEF Consumed, Injection, IsInjective
<1> HIDE DEF n, S, f
<1>6. IsFiniteSet(T) /\ Cardinality(T) = n
  <2>1. n - 1 \in Int /\ 0 \in Int
    BY <1>0
  <2>2. IsFiniteSet(T)
    BY <2>1, FS_Interval
  <2>3. Cardinality(T) = IF 0 > n - 1 THEN 0 ELSE (n - 1) - 0 + 1
    BY <2>1, FS_Interval
  <2> HIDE DEF T
  <2> QED BY <1>0, <2>2, <2>3
<1>7. Cardinality(1 .. n) = n
  <2>1. n \in Int /\ 1 \in Int
    BY <1>0
  <2>2. Cardinality(1 .. n) = IF 1 > n THEN 0 ELSE n - 1 + 1
    BY <2>1, FS_Interval
  <2> QED BY <1>0, <2>2
<1> HIDE DEF T
<1>8. IsFiniteSet(S) /\ Cardinality(S) \in Nat /\ Cardinality(S) <= n
  BY <1>4, <1>6, FS_Subset, FS_CardinalityType
<1>9. n <= Cardinality(S)
  BY <1>5, <1>7, <1>8, FS_Injection
<1>10. Cardinality(S) = Cardinality(T)
  BY <1>0, <1>6, <1>8, <1>9
<1>11. S = T
  BY <1>4, <1>6, <1>10, FS_Subset
<1> QED BY <1>11 DEF S, T, n

\* A run that has its workers, and moves alone, is still active or is over.
LEMMA ActiveSteps ==
  ASSUME PoolInv, PoolInv', NEW r \in Runs, Active(r),
         \A q \in Runs : q # r => pc'[q] = pc[q] /\ outcome'[q] = outcome[q],
         pc'[r] \in WithSet \cup {"ended"},
         UNCHANGED <<got, order, closed>>
  PROVE  QueueNext
<1>1. RunStatus' = [RunStatus EXCEPT ![r] = RunStatus'[r]]
  BY OneMoves
<1>2. Consumed' = Consumed
  BY DEF Consumed
<1>3. RunStatus[r] = "active" /\ RunStatus \in [Runs -> {"idle", "waiting",
        "active", "resolved", "rejected"}]
  BY DEF RunStatus, Active, WithSet
<1>4. CASE pc'[r] \in WithSet
  <2>1. RunStatus'[r] = "active"
    BY <1>4 DEF RunStatus, WithSet
  <2>2. RunStatus' = RunStatus
    BY <1>1, <1>3, <2>1
  <2> QED BY <1>2, <2>2, SameQueue
<1>5. CASE pc'[r] = "ended" /\ outcome'[r] = "ok"
  <2>1. RunStatus'[r] = "resolved"
    BY <1>5 DEF RunStatus
  <2>2. Len(got'[r]) = Count[r]
    BY <1>5 DEF PoolInv, RunsInv, OkIsComplete
  <2>3. Consumed[r] = 0 .. (Count[r] - 1)
    BY <2>2, AllConsumed
  <2>4. Queue!Resolve(r)
    BY <1>1, <1>2, <1>3, <2>1, <2>3 DEF Queue!Resolve, Queue!Become
  <2> QED BY <2>4 DEF QueueNext, Queue!Next
<1>6. CASE pc'[r] = "ended" /\ outcome'[r] # "ok"
  <2>1. RunStatus'[r] = "rejected"
    BY <1>6 DEF RunStatus
  <2>2. Queue!Reject(r)
    BY <1>1, <1>2, <1>3, <2>1 DEF Queue!Reject, Queue!Become
  <2> QED BY <2>2 DEF QueueNext, Queue!Next
<1> QED BY <1>4, <1>5, <1>6

LEMMA YieldGives ==
  ASSUME PoolInv, NEW r \in Runs, Active(r), Yield(r), UNCHANGED <<order, closed>>
  PROVE  QueueNext
<1>0. TypeOK
  BY DEF PoolInv, SetsInv, TypeInv
<1> DEFINE x == Head(finished[r])
           n == Len(got[r])
<1>1. /\ got' = [got EXCEPT ![r] = Append(got[r], x)]
      /\ pc' = [pc EXCEPT ![r] = "yielded"] /\ finished[r] # <<>>
      /\ outcome' = outcome
  BY DEF Yield
<1>2. /\ got[r] \in Seq(Jobs) /\ x \in Jobs /\ n \in Nat
      /\ \A i \in 1 .. n : i \in 1 .. Len(Kept[r]) /\ Kept[r][i] = got[r][i]
      /\ n + 1 \in 1 .. Len(Kept[r]) /\ Kept[r][n + 1] = x
  <2>1. x \in Jobs
    <3>1. finished[r] \in Seq(Jobs)
      BY <1>0, GotIsKept
    <3> QED BY <1>1, <3>1
  <2> QED BY <1>0, <1>1, <2>1, GotIsKept
<1>3. x.id \in 0 .. (Count[r] - 1)
  <2>1. x.id \in Nat /\ x.id < handedOut[r]
    BY <1>2 DEF Jobs, PoolInv, RunsInv, KeptOnce
  <2>2. handedOut[r] <= Count[r] /\ handedOut[r] \in Nat /\ Count[r] \in Nat
    BY <1>0, PoolAssumption DEF TypeOK, PoolInv, RunsInv, HandedFits
  <2> HIDE DEF x
  <2> QED BY <2>1, <2>2
<1>4. x.id \notin Consumed[r]
  <2> SUFFICES ASSUME NEW i \in 1 .. n, got[r][i].id = x.id PROVE FALSE
    BY DEF Consumed
  <2>1. i = n + 1
    BY <1>2 DEF PoolInv, RunsInv, KeptOnce
  <2> HIDE DEF n
  <2> QED BY <1>2, <2>1
<1> HIDE DEF x
<1>5. Consumed'[r] = Consumed[r] \cup {x.id}
  <2>1. got'[r] = Append(got[r], x)
    BY <1>0, <1>1 DEF TypeOK
  <2>2. /\ Len(got'[r]) = n + 1 /\ got'[r][n + 1] = x
        /\ \A i \in 1 .. n : got'[r][i] = got[r][i]
    BY <1>2, <2>1
  <2>3. /\ \A i \in 1 .. (n + 1) : i \in 1 .. n \/ i = n + 1
        /\ 1 .. n \subseteq 1 .. (n + 1) /\ n + 1 \in 1 .. (n + 1)
    <3> HIDE DEF n
    <3> QED BY <1>2
  <2>4. Consumed'[r] = {got'[r][i].id : i \in 1 .. (n + 1)}
    BY <2>2 DEF Consumed
  <2>5. Consumed[r] = {got[r][i].id : i \in 1 .. n}
    BY DEF Consumed
  <2> HIDE DEF n
  <2> QED BY <2>2, <2>3, <2>4, <2>5
<1>6. \A q \in Runs : q # r => Consumed'[q] = Consumed[q]
  <2>1. \A q \in Runs : q # r => got'[q] = got[q]
    BY <1>0, <1>1 DEF TypeOK
  <2> QED BY <2>1 DEF Consumed
<1>7. Consumed' = [Consumed EXCEPT ![r] = Consumed[r] \cup {x.id}]
  <2>1. Consumed' = [q \in Runs |-> Consumed'[q]]
    BY DEF Consumed
  <2>2. Consumed = [q \in Runs |-> Consumed[q]]
    BY DEF Consumed
  <2> QED BY <1>5, <1>6, <2>1, <2>2
<1>8. RunStatus' = RunStatus /\ RunStatus[r] = "active"
  <2>1. \A q \in Runs : q # r => pc'[q] = pc[q]
    BY <1>0, <1>1 DEF TypeOK
  <2>2. pc'[r] = "yielded" /\ pc[r] \in WithSet
    BY <1>0, <1>1 DEF TypeOK, Active
  <2> QED BY <1>1, <2>1, <2>2 DEF RunStatus, WithSet
<1>9. Queue!Give(r)
  BY <1>3, <1>4, <1>7, <1>8 DEF Queue!Give
<1> QED BY <1>9 DEF QueueNext, Queue!Next

\* A run's turn comes when all those called before it are over.
LEMMA TurnBegins ==
  ASSUME PoolInv, NEW r \in Runs, pc[r] = "queued", TurnCame(r), ~closed,
         \E to \in WithSet : pc' = [pc EXCEPT ![r] = to],
         UNCHANGED <<outcome, got, order, closed>>
  PROVE  QueueNext
<1>0. TypeOK /\ Chain
  BY DEF PoolInv, SetsInv, TypeInv
<1>1. /\ pc'[r] \in WithSet
      /\ \A q \in Runs : q # r => pc'[q] = pc[q]
  BY <1>0 DEF TypeOK
<1>2. RunStatus' = [RunStatus EXCEPT ![r] = "active"]
  BY <1>1 DEF RunStatus, WithSet
<1>3. RunStatus[r] = "waiting"
  BY DEF RunStatus
<1>4. ASSUME NEW q \in Queue!Ahead(r) PROVE RunStatus[q] \in Queue!Over
  <2>1. PICK i \in 1 .. Len(order) :
          order[i] = q /\ \E k \in (i + 1) .. Len(order) : order[k] = r
    BY <1>4 DEF Queue!Ahead
  <2>2. PICK k \in (i + 1) .. Len(order) : order[k] = r
    BY <2>1
  <2>3. Len(order) \in Nat /\ order \in Seq(Runs)
    BY <1>0 DEF TypeOK
  <2>4. k \in 1 .. Len(order) /\ i < k
    BY <2>2, <2>3
  <2>5. order[i] \in released
    BY <1>0, <2>2, <2>4, TurnMeansReleased
  <2>6. q \in Runs /\ pc[q] = "ended"
    BY <1>0, <2>1, <2>3, <2>5 DEF Chain, ReleasedEnded
  <2> QED BY <2>6 DEF RunStatus, Queue!Over
<1>5. Consumed' = Consumed
  BY DEF Consumed
<1>6. Queue!Begin(r)
  BY <1>2, <1>3, <1>4, <1>5 DEF Queue!Begin, Queue!Become
<1> QED BY <1>6 DEF QueueNext, Queue!Next

\* A queued run that is turned away.
LEMMA TurnedAway ==
  ASSUME PoolInv, NEW r \in Runs, pc[r] = "queued",
         EndWith(r, "refused") \/ EndWith(r, "aborted"),
         UNCHANGED <<got, order, closed>>
  PROVE  QueueNext
<1>1. /\ pc'[r] = "ended" /\ outcome'[r] # "ok"
      /\ \A q \in Runs : q # r => pc'[q] = pc[q] /\ outcome'[q] = outcome[q]
  BY DEF EndWith, PoolInv, SetsInv, TypeInv, TypeOK
<1>2. RunStatus' = [RunStatus EXCEPT ![r] = RunStatus'[r]]
  BY <1>1, OneMoves
<1>3. RunStatus[r] = "waiting" /\ RunStatus'[r] = "rejected"
  BY <1>1 DEF RunStatus
<1>4. Consumed' = Consumed
  BY DEF Consumed
<1>5. Queue!Reject(r)
  BY <1>2, <1>3, <1>4 DEF Queue!Reject, Queue!Become
<1> QED BY <1>5 DEF QueueNext, Queue!Next

LEMMA CallCalls ==
  ASSUME PoolInv, NEW r \in Runs, Call(r) PROVE QueueNext
<1>1. /\ pc[r] = "idle" /\ pc'[r] = "queued"
      /\ \A q \in Runs : q # r => pc'[q] = pc[q]
      /\ UNCHANGED <<outcome, got, closed>> /\ order' = Append(order, r)
  BY DEF Call, Called, PoolInv, SetsInv, TypeInv, TypeOK
<1>2. RunStatus' = [RunStatus EXCEPT ![r] = "waiting"] /\ RunStatus[r] = "idle"
  BY <1>1 DEF RunStatus
<1>3. Consumed' = Consumed
  BY <1>1 DEF Consumed
<1>4. Queue!Call(r)
  BY <1>1, <1>2, <1>3 DEF Queue!Call, Queue!Become
<1> QED BY <1>4 DEF QueueNext, Queue!Next

LEMMA QueuedSteps ==
  ASSUME PoolInv, PoolInv', NEW r \in Runs,
         Call(r) \/ CalledOff(r) \/ Release(r) \/ TakeTurn(r) \/ Retired(r)
  PROVE  QueueNext
<1>0. TypeOK
  BY DEF PoolInv, SetsInv, TypeInv
<1>1. CASE Call(r)
  BY <1>1, CallCalls
<1>2. CASE CalledOff(r)
  BY <1>2, TurnedAway DEF CalledOff
<1>3. CASE Release(r)
  <2>1. UNCHANGED <<pc, outcome, got, order, closed>>
    BY <1>3 DEF Release
  <2> QED BY <2>1, SameQueue DEF RunStatus, Consumed
<1>4. CASE TakeTurn(r)
  <2>1. pc[r] = "queued" /\ TurnCame(r) /\ UNCHANGED <<got, order, closed>>
    BY <1>4 DEF TakeTurn
  <2>2. \/ EndWith(r, "refused")
        \/ ~closed /\ outcome' = outcome
             /\ \E to \in WithSet : pc' = [pc EXCEPT ![r] = to]
    BY <1>4 DEF TakeTurn, Start, WithSet
  <2> QED BY <2>1, <2>2, TurnedAway, TurnBegins
<1>5. CASE Retired(r)
  <2>1. pc[r] = "awaitRetire" /\ UNCHANGED <<got, order, closed>>
    BY <1>5 DEF Retired
  <2>2. /\ \E to \in WithSet \cup {"ended"} : pc' = [pc EXCEPT ![r] = to]
        /\ outcome' = outcome \/ \E x : outcome' = [outcome EXCEPT ![r] = x]
    BY <1>5 DEF Retired, Start, EndWith, WithSet
  <2>3. /\ pc'[r] \in WithSet \cup {"ended"}
        /\ \A q \in Runs : q # r => pc'[q] = pc[q] /\ outcome'[q] = outcome[q]
    BY <1>0, <2>2 DEF TypeOK
  <2> QED BY <2>1, <2>3, ActiveSteps DEF Active, WithSet
<1> QED BY <1>1, <1>2, <1>3, <1>4, <1>5

LEMMA LoopSteps ==
  ASSUME PoolInv, PoolInv', NEW r \in Runs, Active(r),
         \/ DispatchAndLoop(r) \/ LoopOnly(r)
         \/ Finally(r, "abandoned") /\ got' = got,
         UNCHANGED <<order, closed>>
  PROVE  QueueNext
<1>0. TypeOK
  BY DEF PoolInv, SetsInv, TypeInv
<1>1. CASE Yield(r)
  BY <1>1, YieldGives
<1>2. CASE ~Yield(r)
  <2>1. /\ got' = got
        /\ \E to \in WithSet \cup {"ended"} : pc' = [pc EXCEPT ![r] = to]
        /\ outcome' = outcome \/ \E x : outcome' = [outcome EXCEPT ![r] = x]
    BY <1>2 DEF DispatchAndLoop, LoopOnly, Finish, Throw, Park, PostThrows,
                Finally, Leave, WithSet
  <2>2. /\ pc'[r] \in WithSet \cup {"ended"}
        /\ \A q \in Runs : q # r => pc'[q] = pc[q] /\ outcome'[q] = outcome[q]
    BY <1>0, <2>1 DEF TypeOK
  <2> QED BY <2>1, <2>2, ActiveSteps
<1> QED BY <1>1, <1>2

LEMMA RunSteps ==
  ASSUME PoolInv, PoolInv', NEW r \in Runs,
         \/ MembersReady(r) \/ Started(r) \/ Resume(r) \/ CleanedUp(r)
         \/ Pull(r) \/ Return(r)
  PROVE  QueueNext
<1>0. TypeOK
  BY DEF PoolInv, SetsInv, TypeInv
<1>1. Active(r) /\ UNCHANGED <<order, closed>>
  BY DEF Active, WithSet, MembersReady, Started, Resume, CleanedUp, Pull, Return
<1>2. CASE \/ DispatchAndLoop(r) \/ LoopOnly(r)
           \/ Finally(r, "abandoned") /\ got' = got
  BY <1>1, <1>2, LoopSteps
<1>3. CASE ~(\/ DispatchAndLoop(r) \/ LoopOnly(r)
             \/ Finally(r, "abandoned") /\ got' = got)
  <2>1. /\ got' = got
        /\ \E to \in WithSet \cup {"ended"} : pc' = [pc EXCEPT ![r] = to]
        /\ outcome' = outcome \/ \E x : outcome' = [outcome EXCEPT ![r] = x]
    BY <1>3 DEF MembersReady, Started, Resume, CleanedUp, Pull, Return,
                NotReady, Enter, EndWith, WithSet
  <2>2. /\ pc'[r] \in WithSet \cup {"ended"}
        /\ \A q \in Runs : q # r => pc'[q] = pc[q] /\ outcome'[q] = outcome[q]
    BY <1>0, <2>1 DEF TypeOK
  <2> QED BY <1>1, <2>1, <2>2, ActiveSteps
<1> QED BY <1>2, <1>3

\* Whatever else happens is no business of the queue.
LEMMA OtherSteps ==
  ASSUME PoolInv,
         \/ \E r \in Runs : Abort(r)
         \/ \E e \in Runs : SetStep(e)
         \/ CloseStep
         \/ \E e \in Runs, s \in Slots :
              ThreadDies(e, s) \/ ThreadExitsZero(e, s) \/ ThreadStep(e, s)
         \/ UNCHANGED vars
  PROVE  QueueNext
<1>0. TypeOK
  BY DEF PoolInv, SetsInv, TypeInv
<1>1. UNCHANGED <<outcome, got, order, closed>>
  BY DEF Abort, SetStep, RetireSettles, StartFulfils, StartFails, StartRejects,
         CloseStep, CloseStarted, CloseTerminated, CloseSettles, ThreadDies,
         ThreadExitsZero, ThreadStep, ThreadLoads, ThreadAnswers, ThreadStops,
         Deliver, vars
<1>2. \/ pc' = pc
      \/ \E r \in Runs : pc[r] = "parked" /\ pc' = [pc EXCEPT ![r] = "woken"]
  <2>1. CASE (\E r \in Runs : Abort(r)) \/ UNCHANGED vars
    BY <2>1 DEF Abort, vars
  <2>2. CASE \E e \in Runs : SetStep(e)
    BY <2>2 DEF SetStep, RetireSettles, StartFulfils, StartFails, StartRejects
  <2>3. CASE CloseStep
    BY <2>3 DEF CloseStep, CloseStarted, CloseTerminated, CloseSettles
  <2>4. ASSUME NEW e \in Runs, NEW s \in Slots,
               ThreadDies(e, s) \/ ThreadExitsZero(e, s) \/ ThreadLoads(e, s)
                 \/ ThreadAnswers(e, s) \/ ThreadStops(e, s)
        PROVE  pc' = pc
    BY <2>4 DEF ThreadDies, ThreadExitsZero, ThreadLoads, ThreadAnswers,
                ThreadStops
  <2>5. ASSUME NEW e \in Runs, NEW s \in Slots, Deliver(e, s)
        PROVE  \/ pc' = pc
               \/ \E r \in Runs : /\ pc[r] = "parked"
                                  /\ pc' = [pc EXCEPT ![r] = "woken"]
    BY <2>5 DEF Deliver, RunHears, NobodyHears
  <2> QED BY <2>1, <2>2, <2>3, <2>4, <2>5 DEF ThreadStep
<1>3. RunStatus' = RunStatus
  BY <1>0, <1>1, <1>2 DEF RunStatus, TypeOK
<1>4. Consumed' = Consumed
  BY <1>1 DEF Consumed
<1> QED BY <1>1, <1>3, <1>4, SameQueue

LEMMA NextIsQueueNext == PoolInv /\ PoolInv' /\ [Next]_vars => QueueNext
<1> SUFFICES ASSUME PoolInv, PoolInv', [Next]_vars PROVE QueueNext
  OBVIOUS
<1>1. ASSUME NEW r \in Runs, RunStep(r) \/ Consume(r) \/ Call(r) PROVE QueueNext
  BY <1>1, QueuedSteps, RunSteps DEF RunStep, Consume
<1>2. CASE Close
  <2>1. UNCHANGED <<pc, outcome, got, order>> /\ ~closed /\ closed'
    BY <1>2 DEF Close, PoolInv, SetsInv, InHand, ClosedHoldsNone
  <2>2. Queue!Shut
    BY <1>2, <2>1 DEF Queue!Shut, RunStatus, Consumed, Close
  <2> QED BY <2>2 DEF QueueNext, Queue!Next
<1>3. CASE \/ \E r \in Runs : Abort(r)
           \/ \E e \in Runs : SetStep(e)
           \/ CloseStep
           \/ \E e \in Runs, s \in Slots :
                ThreadDies(e, s) \/ ThreadExitsZero(e, s) \/ ThreadStep(e, s)
           \/ UNCHANGED vars
  BY <1>3, OtherSteps
<1> QED BY <1>1, <1>2, <1>3 DEF Next, Outside

\* Runs are served one at a time in the order they were called, each result is
\* given once, and a run that resolves gave them all: whatever fails, for any
\* number of runs and of workers.
THEOREM ImplementsRunQueueHolds == Spec => ImplementsRunQueue
<1>1. Init => Queue!Init
  <2> SUFFICES ASSUME Init PROVE Queue!Init
    OBVIOUS
  <2>1. RunStatus = [r \in Runs |-> "idle"]
    BY DEF Init, RunStatus
  <2>2. Consumed = [r \in Runs |-> {}]
    <3>1. \A r \in Runs : got[r] = <<>>
      BY DEF Init
    <3>2. \A r \in Runs : Consumed[r] = {}
      BY <3>1 DEF Consumed
    <3> QED BY <3>2 DEF Consumed
  <2> QED BY <2>1, <2>2 DEF Init, Queue!Init
<1>2. PoolInv /\ PoolInv' /\ [Next]_vars => [Queue!Next]_(Queue!vars)
  BY NextIsQueueNext DEF QueueNext
<1> QED BY <1>1, <1>2, PoolInvHolds, PTL DEF Spec, ImplementsRunQueue, Queue!Spec
-----------------------------------------------------------------------------
(* Waking: on Node, unless a worker ends where nobody is told, what a      *)
(* parked run waits for is on its way.                                     *)

\* No worker exits with code 0 once it has loaded, none that has loaded dies
\* while its siblings still load, and one that is terminated says so.
Orderly ==
  Platform = "node" /\ "exitsZero" \notin Faults /\ "diesInStart" \notin Faults

\* A worker that is starting: loading; loaded or broken, and saying so; loaded;
\* dead, and saying so; or of no use, and known to be.
LoadPhase(e, s) ==
  /\ job[e][s] = None
  /\ \/ /\ th[e][s] = "loading" /\ mail[e][s] = <<>>
        /\ s \notin loaded[e] /\ alive[e][s]
     \/ /\ th[e][s] = "up" /\ s \notin loaded[e] /\ alive[e][s]
        /\ \E k \in {"ready", "broken"} : mail[e][s] = <<Reply(k)>>
     \/ /\ th[e][s] = "up" /\ mail[e][s] = <<>>
        /\ s \in loaded[e] /\ alive[e][s]
     \/ /\ th[e][s] = "gone" /\ s \notin loaded[e]
        /\ \E k \in {"died", "exitedZero"} : mail[e][s] = <<Reply(k)>>
     \/ /\ th[e][s] \in {"up", "gone"} /\ mail[e][s] = <<>>
        /\ s \notin loaded[e]

Loading == \A e \in Runs : startState[e] = "pending" =>
  \A s \in Slots : LoadPhase(e, s)

\* The end of a worker that started is on its way to the pool, or known to it.
EndIsSaid(e, s) ==
  /\ th[e][s] \in {"up", "stopping", "gone"}
  /\ (th[e][s] = "gone" /\ alive[e][s] /\ e \notin forgotten) =>
       InMail(e, s, Failures)

EndsAreSaid == \A e \in Runs : startState[e] = "fulfilled" =>
  \A s \in Slots : EndIsSaid(e, s)

\* A run is told that its set has started before anything else happens to it.
StartsAlive == \A r \in Runs :
  (pc[r] = "awaitStart" /\ startState[r] = "fulfilled") => AllAlive(r)

\* A busy worker works, is being stopped, or has sent something.
HeardOf(e, s) ==
  /\ th[e][s] = "gone" => InMail(e, s, Failures)
  /\ busyWith[e][s] # None =>
       \/ th[e][s] = "stopping"
       \/ th[e][s] = "up" /\ job[e][s] # None
       \/ InMail(e, s, Failures \cup {"done", "failed"})
HeardSets == {e \in Runs : \A s \in Slots : HeardOf(e, s)}

ListenerHears == \A r \in Runs :
  (Listening(r) /\ ~failure[r]) => uses[r] \in HeardSets

WokenForSomething == \A r \in Runs : pc[r] = "woken" =>
  failure[r] \/ aborted[r] \/ finished[r] # <<>>

ParkedForSomebody == \A r \in Runs : pc[r] = "parked" =>
  ~failure[r] /\ Busy[uses[r]] # {}

StartInv == Loading /\ EndsAreSaid
WakeInv == /\ StartInv /\ StartsAlive /\ ListenerHears /\ WokenForSomething
           /\ ParkedForSomebody

-----------------------------------------------------------------------------
\* Steps that leave what workers say alone, and at most stop sets that have
\* started or will not.
Calm ==
  /\ UNCHANGED <<mail, alive, loaded>>
  /\ forgotten \subseteq forgotten'
  /\ \A e \in Runs :
       /\ startState'[e] = "fulfilled" => startState[e] = "fulfilled"
       /\ startState'[e] = "pending" =>
            /\ startState[e] = "pending"
            /\ th'[e] = th[e] /\ job'[e] = job[e]
  /\ \A e \in Runs, s \in Slots :
       \/ th'[e][s] = th[e][s]
       \/ th[e][s] \in {"loading", "up"} /\ th'[e][s] = "stopping"

LEMMA CalmStarts == ASSUME StartInv, Calm PROVE StartInv'
<1>1. Loading'
  BY DEF StartInv, Calm, Loading, LoadPhase
<1>2. EndsAreSaid'
  BY DEF StartInv, Calm, EndsAreSaid, EndIsSaid, InMail
<1> QED BY <1>1, <1>2 DEF StartInv

LEMMA CalmHears ==
  ASSUME Calm, UNCHANGED <<job, busyWith>> PROVE HeardSets \subseteq HeardSets'
  BY DEF Calm, HeardSets, HeardOf, InMail

\* ... and nobody begins to listen, parks, or wakes but for a reason.
Composed ==
  /\ Calm
  /\ UNCHANGED <<job, busyWith, failure, finished>>
  /\ \A r \in Runs :
       /\ Listening(r)' => Listening(r) /\ uses'[r] = uses[r]
       /\ pc'[r] = "parked" => pc[r] = "parked"
       /\ pc'[r] = "woken" => pc[r] = "woken" \/ aborted'[r]
       /\ aborted[r] => aborted'[r]
       /\ (pc'[r] = "awaitStart" /\ startState'[r] = "fulfilled") =>
            pc[r] = "awaitStart"

LEMMA ComposedWakes == ASSUME WakeInv, Composed PROVE WakeInv'
<1>1. StartInv'
  BY CalmStarts DEF WakeInv, Composed
<1>2. StartsAlive'
  BY DEF WakeInv, Composed, Calm, StartsAlive, AllAlive
<1>3. ListenerHears'
  BY CalmHears DEF WakeInv, Composed, ListenerHears
<1>4. WokenForSomething'
  BY DEF WakeInv, Composed, WokenForSomething
<1>5. ParkedForSomebody'
  <2>1. Busy' = Busy
    BY DEF Composed, Busy
  <2>2. ASSUME NEW r \in Runs, pc'[r] = "parked"
        PROVE  ~failure'[r] /\ Busy'[uses'[r]] # {}
    <3>1. pc[r] = "parked" /\ Listening(r)'
      BY <2>2 DEF Composed, Listening
    <3>2. uses'[r] = uses[r] /\ failure'[r] = failure[r]
      BY <3>1 DEF Composed
    <3> QED BY <2>1, <3>1, <3>2 DEF WakeInv, ParkedForSomebody
  <2> QED BY <2>2 DEF ParkedForSomebody
<1> QED BY <1>1, <1>2, <1>3, <1>4, <1>5 DEF WakeInv

LEMMA StopCalms ==
  ASSUME TypeOK, Orderly, NEW f \in Runs,
         th' = StopThreads(f), mail' = StopMail(f)
  PROVE  /\ mail' = mail /\ \A e \in Runs : e # f => th'[e] = th[e]
         /\ \A e \in Runs, s \in Slots :
              \/ th'[e][s] = th[e][s]
              \/ th[e][s] \in {"loading", "up"} /\ th'[e][s] = "stopping"
<1>1. mail' = mail
  BY DEF Orderly, StopMail
<1>2. \A e \in Runs : e # f => th'[e] = th[e]
  BY DEF StopThreads, TypeOK
<1>3. \A s \in Slots : th'[f][s] = IF ~Lives(f, s) THEN th[f][s] ELSE "stopping"
  BY DEF Orderly, StopThreads, TypeOK
<1>4. \A s \in Slots : Lives(f, s) => th[f][s] \in {"loading", "up"}
                                        \/ th[f][s] = "stopping"
  BY DEF Lives
<1> QED BY <1>1, <1>2, <1>3, <1>4

\* Steps of the sets, of close() and of abort, and those of a run that only
\* takes it away from its workers.
LEMMA SetsWake ==
  ASSUME PoolInv, WakeInv, Orderly,
         (\E e \in Runs : SetStep(e)) \/ Close \/ CloseStep \/ UNCHANGED vars
  PROVE  WakeInv'
<1>0. TypeOK
  BY DEF PoolInv, SetsInv, TypeInv
<1>1. ASSUME UNCHANGED <<mail, th, alive, loaded, startState, job, busyWith,
                         failure, finished, pc, uses, aborted>>,
             forgotten \subseteq forgotten'
      PROVE  WakeInv'
  <2>1. Composed
    BY <1>1 DEF Composed, Calm, Listening
  <2> QED BY <2>1, ComposedWakes
<1>2. ASSUME NEW e \in Runs, StartFulfils(e) PROVE WakeInv'
  <2>1. /\ startState[e] = "pending" /\ loaded[e] = Slots
        /\ startState' = [startState EXCEPT ![e] = "fulfilled"]
        /\ UNCHANGED <<mail, th, alive, loaded, forgotten, job, busyWith,
                       failure, finished, pc, uses, aborted>>
    BY <1>2 DEF StartFulfils
  <2>2. \A s \in Slots : th[e][s] = "up" /\ alive[e][s] /\ mail[e][s] = <<>>
    BY <2>1 DEF WakeInv, StartInv, Loading, LoadPhase
  <2>3. /\ startState'[e] = "fulfilled"
        /\ \A f \in Runs : f # e => startState'[f] = startState[f]
    BY <1>0, <2>1 DEF TypeOK
  <2>4. StartInv'
    <3>1. Loading'
      BY <2>1, <2>3 DEF WakeInv, StartInv, Loading, LoadPhase
    <3>2. EndsAreSaid'
      BY <2>1, <2>2, <2>3 DEF WakeInv, StartInv, EndsAreSaid, EndIsSaid, InMail
    <3> QED BY <3>1, <3>2 DEF StartInv
  <2>5. StartsAlive'
    BY <2>1, <2>2, <2>3 DEF WakeInv, StartsAlive, AllAlive
  <2>6. HeardSets' = HeardSets /\ Busy' = Busy
    BY <2>1 DEF HeardSets, HeardOf, InMail, Busy
  <2>7. ListenerHears' /\ WokenForSomething' /\ ParkedForSomebody'
    BY <2>1, <2>6
       DEF WakeInv, ListenerHears, WokenForSomething, ParkedForSomebody,
           Listening
  <2> QED BY <2>4, <2>5, <2>7 DEF WakeInv
<1>3. ASSUME NEW e \in Runs, StartFails(e) PROVE WakeInv'
  <2>1. /\ startState' = [startState EXCEPT ![e] = "retiring"]
        /\ th' = StopThreads(e) /\ mail' = StopMail(e)
        /\ UNCHANGED <<alive, loaded, forgotten, job, busyWith, failure,
                       finished, pc, uses, aborted>>
    BY <1>3 DEF StartFails, RetireWith
  <2>2. /\ startState'[e] = "retiring"
        /\ \A f \in Runs : f # e => startState'[f] = startState[f]
    BY <1>0, <2>1 DEF TypeOK
  <2>3. Composed
    BY <1>0, <2>1, <2>2, StopCalms DEF Composed, Calm, Listening
  <2> QED BY <2>3, ComposedWakes
<1>4. ASSUME NEW e \in Runs, StartRejects(e) PROVE WakeInv'
  <2>1. /\ startState' = [startState EXCEPT ![e] = "rejected"]
        /\ UNCHANGED <<mail, th, alive, loaded, forgotten, job, busyWith,
                       failure, finished, pc, uses, aborted>>
    BY <1>4 DEF StartRejects
  <2>2. /\ startState'[e] = "rejected"
        /\ \A f \in Runs : f # e => startState'[f] = startState[f]
    BY <1>0, <2>1 DEF TypeOK
  <2>3. Composed
    BY <2>1, <2>2 DEF Composed, Calm, Listening
  <2> QED BY <2>3, ComposedWakes
<1>5. ASSUME CloseStarted, th' # th PROVE WakeInv'
  <2>1. /\ th' = StopThreads(closeSet) /\ mail' = StopMail(closeSet)
        /\ startState[closeSet] = "fulfilled" /\ closeSet \in Runs
        /\ UNCHANGED <<alive, loaded, startState, forgotten, job, busyWith,
                       failure, finished, pc, uses, aborted>>
    BY <1>5 DEF CloseStarted, PoolInv, SetsInv, TypeInv, HasSet
  <2>2. mail' = mail /\ \A e \in Runs : startState[e] = "pending" => th'[e] = th[e]
    <3>1. /\ mail' = mail
          /\ \A e \in Runs : e # closeSet => th'[e] = th[e]
      BY <1>0, <2>1, StopCalms
    <3> QED BY <2>1, <3>1
  <2>3. \A e \in Runs, s \in Slots :
          \/ th'[e][s] = th[e][s]
          \/ th[e][s] \in {"loading", "up"} /\ th'[e][s] = "stopping"
    BY <1>0, <2>1, StopCalms
  <2>4. Composed
    BY <2>1, <2>2, <2>3 DEF Composed, Calm, Listening
  <2> QED BY <2>4, ComposedWakes
<1>6. ASSUME CloseStarted, th' = th PROVE WakeInv'
  <2>1. mail' = mail
    BY <1>6 DEF CloseStarted, StopMail, Orderly
  <2> QED BY <1>1, <1>6, <2>1 DEF CloseStarted
<1>7. CASE (\E e \in Runs : RetireSettles(e)) \/ Close \/ CloseTerminated
           \/ CloseSettles \/ UNCHANGED vars
  BY <1>1, <1>7 DEF RetireSettles, Close, CloseTerminated, CloseSettles, vars
<1> QED BY <1>2, <1>3, <1>4, <1>5, <1>6, <1>7 DEF SetStep, CloseStep

-----------------------------------------------------------------------------
(* Runs that have no workers yet, or lose them.                            *)

LEMMA UntouchedThreads ==
  ASSUME WakeInv, NEW r \in Runs, NEW to \in PCs, TypeOK,
         UNCHANGED <<mail, th, alive, loaded, forgotten, startState, job,
                     busyWith, failure, finished, aborted>>,
         pc' = [pc EXCEPT ![r] = to],
         to \in {"queued", "ended", "awaitMembers"},
         \A q \in Runs : q # r => uses'[q] = uses[q]
  PROVE  WakeInv'
<1>1. pc'[r] = to /\ \A q \in Runs : q # r => pc'[q] = pc[q]
  BY DEF TypeOK
<1>2. Composed
  BY <1>1 DEF Composed, Calm, Listening
<1> QED BY <1>2, ComposedWakes

\* A run gives its set, which has started, up.
LEMMA LosesThreads ==
  ASSUME WakeInv, Orderly, TypeOK, NEW r \in Runs, NEW to \in PCs,
         uses[r] \in Runs, startState[uses[r]] = "fulfilled",
         th' = StopThreads(uses[r]), mail' = StopMail(uses[r]),
         UNCHANGED <<alive, loaded, forgotten, startState, job,
                     busyWith, failure, finished, uses>>,
         \A q \in Runs : aborted[q] => aborted'[q],
         pc' = [pc EXCEPT ![r] = to],
         \/ to \in {"ended", "cleanup", "awaitRetire"}
         \/ to = pc[r]
         \/ Listening(r) /\ to = "woken" /\ aborted'[r]
  PROVE  WakeInv'
<1>1. pc'[r] = to /\ \A q \in Runs : q # r => pc'[q] = pc[q]
  BY DEF TypeOK
<1>2. /\ mail' = mail /\ \A e \in Runs : e # uses[r] => th'[e] = th[e]
      /\ \A e \in Runs, s \in Slots :
           \/ th'[e][s] = th[e][s]
           \/ th[e][s] \in {"loading", "up"} /\ th'[e][s] = "stopping"
  BY StopCalms
<1>3. Calm
  BY <1>2 DEF Calm
<1>4. Composed
  BY <1>1, <1>3 DEF Composed, Listening
<1> QED BY <1>4, ComposedWakes

LEMMA StartWakes ==
  ASSUME PoolInv, WakeInv, NEW r \in Runs, startState[r] = "none", Start(r),
         ~Listening(r),
         UNCHANGED <<forgotten, failure, finished, aborted>>
  PROVE  WakeInv'
<1>0. TypeOK /\ FreshSets /\ HasSet
  BY DEF PoolInv, SetsInv, TypeInv, TokensInv
<1>1. /\ loaded[r] = {}
      /\ \A s \in Slots : mail[r][s] = <<>> /\ job[r][s] = None
  BY <1>0 DEF FreshSets
<1>2. /\ UNCHANGED <<loaded, mail, job, busyWith>>
      /\ pc' = [pc EXCEPT ![r] = "awaitStart"]
      /\ uses' = [uses EXCEPT ![r] = r]
  BY DEF Start
<1>3. /\ pc'[r] = "awaitStart"
      /\ \A q \in Runs : q # r => pc'[q] = pc[q] /\ uses'[q] = uses[q]
  BY <1>0, <1>2 DEF TypeOK
<1>4. /\ \A e \in Runs : e # r => /\ th'[e] = th[e] /\ alive'[e] = alive[e]
                                  /\ startState'[e] = startState[e]
      /\ startState'[r] \in {"pending", "rejected"}
  BY <1>0 DEF Start, SpawnAll, SpawnSome, TypeOK
<1>5. startState'[r] = "pending" =>
        \A s \in Slots : th'[r][s] = "loading" /\ alive'[r][s]
  <2>1. CASE SpawnAll(r)
    BY <1>0, <2>1 DEF SpawnAll, TypeOK
  <2>2. CASE SpawnSome(r)
    <3>1. startState'[r] = "rejected"
      BY <1>0, <2>2 DEF SpawnSome, TypeOK
    <3> QED BY <3>1
  <2> QED BY <2>1, <2>2 DEF Start
<1>6. Loading'
  <2> SUFFICES ASSUME NEW e \in Runs, startState'[e] = "pending", NEW s \in Slots
               PROVE  LoadPhase(e, s)'
    BY DEF Loading
  <2>1. CASE e = r
    BY <1>1, <1>2, <1>5, <2>1 DEF LoadPhase
  <2>2. CASE e # r
    <3>1. LoadPhase(e, s)
      BY <1>4, <2>2 DEF WakeInv, StartInv, Loading
    <3> QED BY <1>2, <1>4, <2>2, <3>1 DEF LoadPhase
  <2> QED BY <2>1, <2>2
<1>7. EndsAreSaid'
  BY <1>2, <1>4 DEF WakeInv, StartInv, EndsAreSaid, EndIsSaid, InMail
<1>8. StartsAlive'
  BY <1>3, <1>4 DEF WakeInv, StartsAlive, AllAlive
<1>9. \A q \in Runs : Listening(q)' =>
        /\ q # r /\ Listening(q) /\ uses[q] \in Runs /\ uses[q] # r
        /\ uses'[q] = uses[q]
  BY <1>0, <1>3
     DEF Listening, HasSet, WithSet, PoolInv, SetsInv, StartsOnce, ListensToStarted
<1>10. \A e \in Runs : e # r => (e \in HeardSets => e \in HeardSets')
  BY <1>2, <1>4 DEF HeardSets, HeardOf, InMail
<1>11. ListenerHears'
  BY <1>9, <1>10 DEF WakeInv, ListenerHears
<1>12. WokenForSomething'
  BY <1>3 DEF WakeInv, WokenForSomething
<1>13. ParkedForSomebody'
  <2>1. Busy' = Busy
    BY <1>2 DEF Busy
  <2> QED BY <1>3, <2>1 DEF WakeInv, ParkedForSomebody
<1> QED BY <1>6, <1>7, <1>8, <1>11, <1>12, <1>13 DEF WakeInv, StartInv

LEMMA QueueWakes ==
  ASSUME PoolInv, WakeInv, NEW r \in Runs,
         Call(r) \/ CalledOff(r) \/ Release(r) \/ TakeTurn(r) \/ Retired(r)
  PROVE  WakeInv'
<1>0. TypeOK
  BY DEF PoolInv, SetsInv, TypeInv
<1>1. CASE Call(r)
  BY <1>0, <1>1, UntouchedThreads DEF Call, PCs
<1>2. CASE CalledOff(r)
  BY <1>0, <1>2, UntouchedThreads DEF CalledOff, EndWith, PCs
<1>3. CASE Release(r)
  <2>1. Composed
    BY <1>3 DEF Release, Composed, Calm, Listening
  <2> QED BY <2>1, ComposedWakes
<1>4. CASE TakeTurn(r) \/ Retired(r)
  <2>0. /\ pc[r] \in {"queued", "awaitRetire"}
        /\ UNCHANGED <<forgotten, failure, finished, aborted>>
    BY <1>4 DEF TakeTurn, Retired
  <2>1. CASE Start(r)
    <3>1. startState[r] = "none" /\ ~Listening(r)
      BY <2>0 DEF PoolInv, SetsInv, StartsOnce, NotYetStarted, Listening
    <3> QED BY <2>0, <2>1, <3>1, StartWakes
  <2>2. CASE /\ EndWith(r, "refused")
             /\ UNCHANGED <<members, startVars, threadVars, memberVars, uses>>
    BY <1>0, <2>0, <2>2, UntouchedThreads DEF EndWith, PCs
  <2>3. CASE /\ uses' = [uses EXCEPT ![r] = members]
             /\ pc' = [pc EXCEPT ![r] = "awaitMembers"]
             /\ UNCHANGED <<members, startVars, threadVars, memberVars, outcome>>
    <3>1. \A q \in Runs : q # r => uses'[q] = uses[q]
      BY <1>0, <2>3 DEF TypeOK
    <3> QED BY <1>0, <2>0, <2>3, <3>1, UntouchedThreads DEF PCs
  <2> QED BY <1>4, <2>1, <2>2, <2>3 DEF TakeTurn, Retired
<1> QED BY <1>1, <1>2, <1>3, <1>4

LEMMA AbortWakes ==
  ASSUME PoolInv, WakeInv, Orderly, NEW r \in Runs, Abort(r) PROVE WakeInv'
<1>0. TypeOK
  BY DEF PoolInv, SetsInv, TypeInv
<1>1. /\ aborted' = [aborted EXCEPT ![r] = TRUE]
      /\ UNCHANGED <<alive, loaded, forgotten, startState, job, busyWith,
                     failure, finished, uses>>
  BY DEF Abort
<1>2. aborted'[r] /\ \A q \in Runs : aborted[q] => aborted'[q]
  BY <1>0, <1>1 DEF TypeOK
<1>3. \E to \in PCs : /\ pc' = [pc EXCEPT ![r] = to]
                      /\ to = pc[r] \/ (pc[r] = "parked" /\ to = "woken")
  <2>1. CASE pc[r] = "parked"
    BY <2>1 DEF Abort, PCs
  <2>2. CASE pc[r] # "parked"
    <3>1. pc' = [pc EXCEPT ![r] = pc[r]] /\ pc[r] \in PCs
      BY <1>0, <2>2 DEF Abort, TypeOK
    <3> QED BY <3>1
  <2> QED BY <2>1, <2>2
<1>4. PICK to \in PCs : /\ pc' = [pc EXCEPT ![r] = to]
                        /\ to = pc[r] \/ (pc[r] = "parked" /\ to = "woken")
  BY <1>3
<1>5. CASE AbortDiscards(r)
  <2>1. /\ uses[r] \in Runs /\ startState[uses[r]] = "fulfilled"
        /\ th' = StopThreads(uses[r]) /\ mail' = StopMail(uses[r])
    BY <1>5 DEF Abort, AbortDiscards, RetireWith, PoolInv, SetsInv, TypeInv,
                HasSet, WithSet, Listening, StartsOnce, ListensToStarted
  <2> QED BY <1>0, <1>1, <1>2, <1>4, <2>1, LosesThreads DEF Listening
<1>6. CASE ~AbortDiscards(r)
  <2>1. UNCHANGED <<th, mail>>
    BY <1>6 DEF Abort
  <2>2. pc'[r] = to /\ \A q \in Runs : q # r => pc'[q] = pc[q]
    BY <1>0, <1>4 DEF TypeOK
  <2>3. Composed
    BY <1>1, <1>2, <1>4, <2>1, <2>2 DEF Composed, Calm, Listening
  <2> QED BY <2>3, ComposedWakes
<1> QED BY <1>5, <1>6

-----------------------------------------------------------------------------
(* What workers say.                                                       *)

LEMMA MailGrows ==
  ASSUME NEW b \in Seq(Message), NEW m \in Message
  PROVE  /\ Append(<<>>, m) = <<m>>
         /\ \A K : (\/ m.kind \in K
                    \/ \E i \in 1 .. Len(b) : b[i].kind \in K) <=>
                      \E i \in 1 .. Len(Append(b, m)) : Append(b, m)[i].kind \in K
<1>1. /\ Len(Append(b, m)) = Len(b) + 1 /\ Len(b) \in Nat
      /\ \A i \in 1 .. Len(b) : Append(b, m)[i] = b[i]
      /\ Append(b, m)[Len(b) + 1] = m
  OBVIOUS
<1>2. \A i : i \in 1 .. (Len(b) + 1) <=> i \in 1 .. Len(b) \/ i = Len(b) + 1
  BY <1>1
<1>3. ASSUME NEW K
      PROVE  (\/ m.kind \in K
              \/ \E i \in 1 .. Len(b) : b[i].kind \in K) <=>
                \E i \in 1 .. Len(Append(b, m)) : Append(b, m)[i].kind \in K
  BY <1>1, <1>2
<1>4. Append(<<>>, m) = <<m>>
  OBVIOUS
<1> QED BY <1>3, <1>4

\* What worker s of set e does when it says m.
Speaks(e, s, m) ==
  /\ m \in Message
  /\ mail' = [mail EXCEPT ![e][s] = Append(mail[e][s], m)]
  /\ UNCHANGED <<alive, loaded, forgotten, startState, busyWith, failure,
                 finished, aborted, pc, uses>>
  /\ \A f \in Runs, q \in Slots : (f # e \/ q # s) =>
       th'[f][q] = th[f][q] /\ job'[f][q] = job[f][q]
  /\ \/ /\ th[e][s] = "loading" /\ th'[e][s] = "up"
        /\ job'[e][s] = job[e][s] /\ m \in {Reply("ready"), Reply("broken")}
     \/ /\ th[e][s] = "loading" /\ th'[e][s] = "gone"
        /\ job'[e][s] = None /\ m \in {Reply("died"), Reply("exitedZero")}
     \/ /\ startState[e] # "pending"
        /\ th[e][s] \in {"up", "stopping"} /\ th'[e][s] = th[e][s]
        /\ job[e][s] # None /\ m.kind \in Answering
     \/ /\ startState[e] # "pending"
        /\ th[e][s] \in {"up", "stopping"} /\ th'[e][s] = "gone"
        /\ m.kind \in Failures

LEMMA ThreadSpeaks ==
  ASSUME TypeOK, WakeInv, Orderly, NEW e \in Runs, NEW s \in Slots,
         \/ ThreadDies(e, s) \/ ThreadExitsZero(e, s) \/ ThreadLoads(e, s)
         \/ ThreadAnswers(e, s) \/ ThreadStops(e, s)
  PROVE  \E m \in Message : Speaks(e, s, m)
<1>0. ASSUME startState[e] = "pending"
      PROVE  job[e][s] = None /\ th[e][s] # "stopping"
  BY <1>0 DEF WakeInv, StartInv, Loading, LoadPhase
<1>1. UNCHANGED <<alive, loaded, forgotten, startState, busyWith, failure,
                  finished, aborted, pc, uses>>
  BY DEF ThreadDies, ThreadExitsZero, ThreadLoads, ThreadAnswers, ThreadStops
<1>2. /\ th' = th \/ \E x : th' = [th EXCEPT ![e][s] = x]
      /\ job' = job \/ job' = [job EXCEPT ![e][s] = None]
  BY DEF ThreadDies, ThreadExitsZero, ThreadLoads, ThreadAnswers, ThreadStops
<1>3. \A f \in Runs, q \in Slots : (f # e \/ q # s) => th'[f][q] = th[f][q]
  BY <1>2 DEF TypeOK
<1>4. \A f \in Runs, q \in Slots : (f # e \/ q # s) => job'[f][q] = job[f][q]
  <2>1. CASE job' = job
    BY <2>1
  <2>2. CASE job' = [job EXCEPT ![e][s] = None]
    BY <2>2 DEF TypeOK
  <2> QED BY <1>2, <2>1, <2>2
<1>5. \A k \in {"ready", "broken", "died", "exited", "exitedZero"} :
        Reply(k) \in Message /\ Reply(k).kind = k
  BY DEF Reply, Message
<1>6. CASE ThreadLoads(e, s)
  <2>1. PICK k \in {"ready", "broken"} : Send(e, s, Reply(k))
    BY <1>6 DEF ThreadLoads
  <2>2. th[e][s] = "loading" /\ th'[e][s] = "up" /\ job'[e][s] = job[e][s]
    BY <1>6 DEF ThreadLoads, TypeOK
  <2>3. Speaks(e, s, Reply(k))
    BY <1>1, <1>3, <1>4, <1>5, <2>1, <2>2 DEF Speaks, Send
  <2> QED BY <1>5, <2>3
<1>7. CASE ThreadAnswers(e, s)
  <2>1. PICK k \in Answering : Send(e, s, Answer(k, job[e][s]))
    BY <1>7 DEF ThreadAnswers, Answering
  <2>2. job[e][s] # None /\ job[e][s] \in Jobs
    BY <1>7 DEF ThreadAnswers, TypeOK
  <2> DEFINE m == Answer(k, job[e][s])
  <2>3. m \in Message /\ m.kind \in Answering
    BY <2>2 DEF Answer, Jobs, Message, Answering
  <2>4. mail' = [mail EXCEPT ![e][s] = Append(mail[e][s], m)]
    BY <2>1 DEF Send
  <2>5. th[e][s] \in {"up", "stopping"} /\ th'[e][s] = th[e][s]
    BY <1>7 DEF ThreadAnswers
  <2> HIDE DEF m
  <2>6. startState[e] # "pending"
    BY <1>0, <2>2
  <2>7. Speaks(e, s, m)
    BY <1>1, <1>3, <1>4, <2>2, <2>3, <2>4, <2>5, <2>6 DEF Speaks
  <2> QED BY <2>3, <2>7
<1>8. CASE ThreadDies(e, s) \/ ThreadExitsZero(e, s)
  <2>1. /\ th[e][s] \in {"loading", "up"} /\ th'[e][s] = "gone"
        /\ job'[e][s] = None
    BY <1>8 DEF ThreadDies, ThreadExitsZero, TypeOK, Orderly
  <2>2. th[e][s] = "up" => startState[e] # "pending" /\ ThreadDies(e, s)
    BY <1>8 DEF ThreadDies, ThreadExitsZero, Orderly
  <2>3. CASE ThreadDies(e, s)
    <3>1. mail' = [mail EXCEPT ![e][s] = Append(mail[e][s], Reply("died"))]
      BY <2>3 DEF ThreadDies, Send
    <3>2. Reply("died").kind \in Failures
      BY <1>5 DEF Failures
    <3>3. Speaks(e, s, Reply("died"))
      BY <1>1, <1>3, <1>4, <1>5, <2>1, <2>2, <3>1, <3>2 DEF Speaks
    <3> QED BY <1>5, <3>3
  <2>4. CASE ~ThreadDies(e, s)
    <3>1. mail' = [mail EXCEPT ![e][s] = Append(mail[e][s], Reply("exitedZero"))]
      BY <1>8, <2>4 DEF ThreadExitsZero, Send
    <3>2. Speaks(e, s, Reply("exitedZero"))
      BY <1>1, <1>3, <1>4, <1>5, <2>1, <2>2, <2>4, <3>1 DEF Speaks
    <3> QED BY <1>5, <3>2
  <2> QED BY <2>3, <2>4
<1>9. CASE ThreadStops(e, s)
  <2>1. mail' = [mail EXCEPT ![e][s] = Append(mail[e][s], Reply("exited"))]
    BY <1>9 DEF ThreadStops, Send
  <2>2. Reply("exited").kind \in Failures
    BY <1>5 DEF Failures
  <2>3. th[e][s] = "stopping" /\ th'[e][s] = "gone"
    BY <1>9 DEF ThreadStops, TypeOK
  <2>4. Speaks(e, s, Reply("exited"))
    BY <1>0, <1>1, <1>3, <1>4, <1>5, <2>1, <2>2, <2>3 DEF Speaks
  <2> QED BY <1>5, <2>4
<1> QED BY <1>6, <1>7, <1>8, <1>9

LEMMA SpeaksWakes ==
  ASSUME PoolInv, WakeInv, NEW e \in Runs, NEW s \in Slots, NEW m \in Message,
         Speaks(e, s, m)
  PROVE  WakeInv'
<1>0. TypeOK /\ HasSet /\ ListensToStarted
  BY DEF PoolInv, SetsInv, TypeInv, StartsOnce
<1>1. UNCHANGED <<alive, loaded, forgotten, startState, busyWith, failure,
                  finished, aborted, pc, uses>>
  BY DEF Speaks
<1>2. \A f \in Runs, q \in Slots : (f # e \/ q # s) =>
        /\ th'[f][q] = th[f][q] /\ job'[f][q] = job[f][q]
        /\ mail'[f][q] = mail[f][q]
  BY <1>0 DEF Speaks, TypeOK
<1>3. mail[e][s] \in Seq(Message) /\ mail'[e][s] = Append(mail[e][s], m)
  BY <1>0 DEF Speaks, TypeOK
<1>4. \A K : InMail(e, s, K)' <=> m.kind \in K \/ InMail(e, s, K)
  BY <1>3, MailGrows DEF InMail
<1>5. \A f \in Runs, q \in Slots : (f # e \/ q # s) =>
        \A K : InMail(f, q, K)' <=> InMail(f, q, K)
  BY <1>2 DEF InMail
<1>6. Loading'
  <2> SUFFICES ASSUME NEW f \in Runs, startState[f] = "pending", NEW q \in Slots
               PROVE  LoadPhase(f, q)'
    BY <1>1 DEF Loading
  <2>1. LoadPhase(f, q)
    BY DEF WakeInv, StartInv, Loading
  <2>2. CASE f # e \/ q # s
    BY <1>1, <1>2, <2>1, <2>2 DEF LoadPhase
  <2>3. CASE f = e /\ q = s
    <3>1. \/ /\ th[e][s] = "loading" /\ th'[e][s] = "up"
             /\ job'[e][s] = job[e][s] /\ m \in {Reply("ready"), Reply("broken")}
          \/ /\ th[e][s] = "loading" /\ th'[e][s] = "gone"
             /\ job'[e][s] = None /\ m \in {Reply("died"), Reply("exitedZero")}
      BY <2>3 DEF Speaks
    <3>2. mail[e][s] = <<>> /\ s \notin loaded[e] /\ alive[e][s] /\ job[e][s] = None
      BY <2>1, <2>3, <3>1 DEF LoadPhase
    <3>3. mail'[e][s] = <<m>>
      BY <1>3, <3>2, MailGrows
    <3>4. job'[e][s] = None
      BY <3>1, <3>2
    <3>5. CASE th'[e][s] = "up" /\ m \in {Reply("ready"), Reply("broken")}
      BY <1>1, <2>3, <3>2, <3>3, <3>4, <3>5 DEF LoadPhase
    <3>6. CASE th'[e][s] = "gone" /\ m \in {Reply("died"), Reply("exitedZero")}
      BY <1>1, <2>3, <3>2, <3>3, <3>4, <3>6 DEF LoadPhase
    <3> QED BY <3>1, <3>5, <3>6
  <2> QED BY <2>2, <2>3
<1>7. ASSUME startState[e] = "fulfilled"
      PROVE  /\ th[e][s] \in {"up", "stopping"}
             /\ \/ th'[e][s] = th[e][s] /\ job[e][s] # None /\ m.kind \in Answering
                \/ th'[e][s] = "gone" /\ m.kind \in Failures
  <2>1. th[e][s] # "loading"
    BY <1>7 DEF WakeInv, StartInv, EndsAreSaid, EndIsSaid
  <2> QED BY <1>7, <2>1 DEF Speaks
<1>8. EndsAreSaid'
  <2> SUFFICES ASSUME NEW f \in Runs, startState[f] = "fulfilled", NEW q \in Slots
               PROVE  EndIsSaid(f, q)'
    BY <1>1 DEF EndsAreSaid
  <2>1. EndIsSaid(f, q)
    BY DEF WakeInv, StartInv, EndsAreSaid
  <2>2. CASE f # e \/ q # s
    BY <1>1, <1>2, <1>5, <2>1, <2>2 DEF EndIsSaid
  <2>3. CASE f = e /\ q = s
    <3>1. th'[e][s] \in {"up", "stopping", "gone"}
      BY <1>7, <2>3
    <3>2. th'[e][s] = "gone" => InMail(e, s, Failures)'
      BY <1>4, <1>7, <2>3
    <3> QED BY <2>3, <3>1, <3>2 DEF EndIsSaid
  <2> QED BY <2>2, <2>3
<1>9. \A f \in Runs : startState[f] = "fulfilled" /\ f \in HeardSets
        => f \in HeardSets'
  <2> SUFFICES ASSUME NEW f \in Runs, startState[f] = "fulfilled",
                      f \in HeardSets, NEW q \in Slots
               PROVE  HeardOf(f, q)'
    BY DEF HeardSets
  <2>1. HeardOf(f, q)
    BY DEF HeardSets
  <2>2. CASE f # e \/ q # s
    BY <1>1, <1>2, <1>5, <2>1, <2>2 DEF HeardOf
  <2>3. CASE f = e /\ q = s
    <3>1. InMail(e, s, Failures \cup {"done", "failed"})'
      BY <1>4, <1>7, <2>3 DEF Answering
    <3>2. th'[e][s] = "gone" => InMail(e, s, Failures)'
      BY <1>4, <1>7, <2>3
    <3> QED BY <2>3, <3>1, <3>2 DEF HeardOf
  <2> QED BY <2>2, <2>3
<1>10. StartsAlive' /\ WokenForSomething'
  BY <1>1 DEF WakeInv, StartsAlive, AllAlive, WokenForSomething
<1>11. ParkedForSomebody'
  <2>1. Busy' = Busy
    BY <1>1 DEF Busy
  <2> QED BY <1>1, <2>1 DEF WakeInv, ParkedForSomebody
<1>12. ListenerHears'
  BY <1>0, <1>1, <1>9
     DEF WakeInv, ListenerHears, Listening, HasSet, WithSet, ListensToStarted
<1> QED BY <1>6, <1>8, <1>10, <1>11, <1>12 DEF WakeInv, StartInv

-----------------------------------------------------------------------------
(* What the pool hears.                                                    *)

\* The mail of a worker, but for the message delivered.
LEMMA MailShrinks ==
  ASSUME NEW b \in Seq(Message), b # <<>>
  PROVE  /\ Head(b) \in Message
         /\ \A K : (\E i \in 1 .. Len(b) : b[i].kind \in K) <=>
                     \/ Head(b).kind \in K
                     \/ \E i \in 1 .. Len(Tail(b)) : Tail(b)[i].kind \in K
         /\ \A m : b = <<m>> => Head(b) = m /\ Tail(b) = <<>>
<1>1. /\ Len(Tail(b)) = Len(b) - 1 /\ Len(b) \in Nat \ {0}
      /\ \A i \in 1 .. (Len(b) - 1) : Tail(b)[i] = b[i + 1]
      /\ Head(b) = b[1]
  BY HeadTailProperties, EmptySeq
<1>2. ASSUME NEW K, NEW i \in 1 .. Len(b), b[i].kind \in K
      PROVE  \/ Head(b).kind \in K
             \/ \E j \in 1 .. Len(Tail(b)) : Tail(b)[j].kind \in K
  <2>1. CASE i = 1
    BY <1>1, <1>2, <2>1
  <2>2. CASE i # 1
    <3>1. i - 1 \in 1 .. (Len(b) - 1) /\ (i - 1) + 1 = i
      BY <1>1, <2>2
    <3>2. Tail(b)[i - 1] = b[i]
      BY <1>1, <3>1
    <3> QED BY <1>1, <1>2, <3>1, <3>2
  <2> QED BY <2>1, <2>2
<1>3. ASSUME NEW K, Head(b).kind \in K
      PROVE  \E i \in 1 .. Len(b) : b[i].kind \in K
  BY <1>1, <1>3
<1>4. ASSUME NEW K, NEW j \in 1 .. Len(Tail(b)), Tail(b)[j].kind \in K
      PROVE  \E i \in 1 .. Len(b) : b[i].kind \in K
  <2>1. j + 1 \in 1 .. Len(b) /\ Tail(b)[j] = b[j + 1]
    BY <1>1
  <2> QED BY <1>4, <2>1
<1>5. Head(b) \in Message
  BY <1>1
<1>6. \A m : b = <<m>> => Head(b) = m /\ Tail(b) = <<>>
  OBVIOUS
<1> QED BY <1>2, <1>3, <1>4, <1>5, <1>6

LEMMA DeliverWakes ==
  ASSUME PoolInv, OneActive, WakeInv, NEW e \in Runs, NEW s \in Slots,
         Deliver(e, s)
  PROVE  WakeInv'
<1>0. TypeOK /\ HasSet /\ ListensToStarted /\ OwnSet
  BY DEF PoolInv, SetsInv, TypeInv, StartsOnce
<1> DEFINE b == mail[e][s]
           m == Head(b)
<1>1. /\ b # <<>> /\ ReactionsDone
      /\ alive' = IF m.kind \in Failures /\ e \notin forgotten
                  THEN [alive EXCEPT ![e][s] = FALSE] ELSE alive
      /\ StartHears(e, s, m)
      /\ RunHears(e, s, m) \/ NobodyHears(e)
      /\ mail' = [mail EXCEPT ![e][s] = Tail(b)]
      /\ UNCHANGED <<forgotten, startState, th, job, uses, aborted>>
  BY DEF Deliver
<1>2. b \in Seq(Message)
  BY <1>0 DEF TypeOK
<1>3. /\ m \in Message
      /\ \A K : InMail(e, s, K) <=>
           m.kind \in K \/ \E i \in 1 .. Len(Tail(b)) : Tail(b)[i].kind \in K
      /\ \A x : b = <<x>> => m = x /\ Tail(b) = <<>>
  BY <1>1, <1>2, MailShrinks DEF InMail
<1> HIDE DEF m
<1>4. mail'[e][s] = Tail(b)
  BY <1>0, <1>1 DEF TypeOK
<1>5. \A K : InMail(e, s, K) => m.kind \in K \/ InMail(e, s, K)'
  BY <1>3, <1>4 DEF InMail
<1>6. \A f \in Runs, q \in Slots : (f # e \/ q # s) =>
        mail'[f][q] = mail[f][q] /\ alive'[f][q] = alive[f][q]
  <2>1. \A f \in Runs, q \in Slots : (f # e \/ q # s) => mail'[f][q] = mail[f][q]
    BY <1>0, <1>1 DEF TypeOK
  <2>2. \A f \in Runs, q \in Slots : (f # e \/ q # s) => alive'[f][q] = alive[f][q]
    BY <1>0, <1>1 DEF TypeOK
  <2> QED BY <2>1, <2>2
<1>7. \A f \in Runs, q \in Slots : (f # e \/ q # s) =>
        \A K : InMail(f, q, K)' <=> InMail(f, q, K)
  BY <1>6 DEF InMail
<1>8. alive'[e][s] = IF m.kind \in Failures /\ e \notin forgotten THEN FALSE
                     ELSE alive[e][s]
  BY <1>0, <1>1 DEF TypeOK
<1>9. /\ \A f \in Runs, q \in Slots : (f # e \/ q # s) =>
           (q \in loaded'[f] <=> q \in loaded[f])
      /\ s \in loaded[e] => s \in loaded'[e]
      /\ (startState[e] = "pending" /\ s \notin loaded[e]) =>
           (s \in loaded'[e] <=> m.kind = "ready")
  BY <1>0, <1>1 DEF StartHears, TypeOK
<1>10. Loading'
  <2> SUFFICES ASSUME NEW f \in Runs, startState[f] = "pending", NEW q \in Slots
               PROVE  LoadPhase(f, q)'
    BY <1>1 DEF Loading
  <2>1. LoadPhase(f, q)
    BY DEF WakeInv, StartInv, Loading
  <2>2. CASE f # e \/ q # s
    BY <1>1, <1>6, <1>9, <2>1, <2>2 DEF LoadPhase
  <2>3. CASE f = e /\ q = s
    <3>1. /\ s \notin loaded[e] /\ job[e][s] = None
          /\ \/ /\ th[e][s] = "up" /\ alive[e][s]
                /\ \E k \in {"ready", "broken"} : b = <<Reply(k)>>
             \/ /\ th[e][s] = "gone"
                /\ \E k \in {"died", "exitedZero"} : b = <<Reply(k)>>
      BY <1>1, <2>1, <2>3 DEF LoadPhase
    <3>2. mail'[e][s] = <<>>
      BY <1>3, <1>4, <3>1
    <3>3. s \in loaded'[e] => m.kind = "ready"
      BY <1>9, <2>3, <3>1
    <3>4. CASE s \in loaded'[e]
      <4>1. th[e][s] = "up" /\ alive[e][s]
        BY <1>3, <3>1, <3>3, <3>4 DEF Reply
      <4>2. alive'[e][s]
        BY <1>8, <3>3, <3>4, <4>1 DEF Failures
      <4> QED BY <1>1, <2>3, <3>1, <3>2, <3>4, <4>1, <4>2 DEF LoadPhase
    <3>5. CASE s \notin loaded'[e]
      BY <1>1, <2>3, <3>1, <3>2, <3>5 DEF LoadPhase
    <3> QED BY <3>4, <3>5
  <2> QED BY <2>2, <2>3
<1>11. EndsAreSaid'
  <2> SUFFICES ASSUME NEW f \in Runs, startState[f] = "fulfilled", NEW q \in Slots
               PROVE  EndIsSaid(f, q)'
    BY <1>1 DEF EndsAreSaid
  <2>1. EndIsSaid(f, q)
    BY DEF WakeInv, StartInv, EndsAreSaid
  <2>2. CASE f # e \/ q # s
    BY <1>1, <1>6, <1>7, <2>1, <2>2 DEF EndIsSaid
  <2>3. CASE f = e /\ q = s
    BY <1>1, <1>5, <1>8, <2>1, <2>3 DEF EndIsSaid
  <2> QED BY <2>2, <2>3
<1>12. StartsAlive'
  <2>1. \A r \in Runs : pc'[r] = "awaitStart" => pc[r] = "awaitStart"
    BY <1>0, <1>1 DEF RunHears, NobodyHears, TypeOK
  <2> QED BY <1>0, <1>1, <2>1 DEF ReactionsDone, OwnSet, StartsAlive
\* Only the run whose set it is hears anything.
<1>13. ASSUME NEW r \in Runs, Listening(r)', uses[r] = e
       PROVE  /\ Listening(r)
              /\ failure'[r] = (failure[r] \/ m.kind \in Failures \cup {"failed"})
              /\ m.kind = "done" => finished'[r] # <<>>
              /\ m.kind \in {"done", "failed"} => busyWith'[e][s] = None
              /\ m.kind \notin {"done", "failed"} => busyWith' = busyWith
              /\ \A q \in Slots : q # s => busyWith'[e][q] = busyWith[e][q]
              /\ (m.kind \in Failures \cup {"done", "failed"}) => pc'[r] # "parked"
              /\ pc'[r] # pc[r] => m.kind \in Failures \cup {"done", "failed"}
  <2>1. Listening(r)
    BY <1>0, <1>1, <1>13 DEF RunHears, NobodyHears, Listening, TypeOK
  <2>2. RunHears(e, s, m)
    BY <1>1, <1>13, <2>1 DEF NobodyHears
  <2>3. PICK q \in Runs :
          /\ Listening(q) /\ uses[q] = e
          /\ failure' = [failure EXCEPT ![q] =
                           @ \/ m.kind \in Failures \cup {"failed"}]
          /\ finished' = IF m.kind = "done"
                         THEN [finished EXCEPT ![q] = Append(@, Result(m))]
                         ELSE finished
          /\ busyWith' = IF m.kind \in {"done", "failed"}
                         THEN [busyWith EXCEPT ![e][s] = None] ELSE busyWith
          /\ pc' = IF pc[q] = "parked" /\ m.kind \in Failures \cup {"done", "failed"}
                   THEN [pc EXCEPT ![q] = "woken"] ELSE pc
    BY <2>2 DEF RunHears
  <2>4. q = r
    BY <2>1, <2>3 DEF OneActive, Active, WithSet, Listening
  <2>5. failure'[r] = (failure[r] \/ m.kind \in Failures \cup {"failed"})
    BY <1>0, <2>3, <2>4 DEF TypeOK
  <2>6. m.kind = "done" => finished'[r] # <<>>
    <3>1. m.kind = "done" => Result(m) \in Jobs
      BY <1>3 DEF Message, Result, Jobs
    <3>2. m.kind = "done" => finished'[r] = Append(finished[r], Result(m))
      BY <1>0, <2>3, <2>4 DEF TypeOK
    <3>3. finished[r] \in Seq(Jobs)
      BY <1>0 DEF TypeOK
    <3>4. m.kind = "done" => Len(finished'[r]) = Len(finished[r]) + 1
      BY <3>1, <3>2, <3>3
    <3>5. Len(<<>>) = 0 /\ Len(finished[r]) \in Nat
      BY <3>3
    <3> QED BY <3>4, <3>5
  <2>7. /\ m.kind \in {"done", "failed"} => busyWith'[e][s] = None
        /\ \A p \in Slots : p # s => busyWith'[e][p] = busyWith[e][p]
    BY <1>0, <2>3 DEF TypeOK
  <2>8. /\ (m.kind \in Failures \cup {"done", "failed"}) => pc'[r] # "parked"
        /\ pc'[r] # pc[r] => m.kind \in Failures \cup {"done", "failed"}
    BY <1>0, <2>3, <2>4 DEF TypeOK
  <2> QED BY <2>1, <2>3, <2>5, <2>6, <2>7, <2>8
<1>14. ASSUME NEW r \in Runs, Listening(r)', uses[r] # e
       PROVE  /\ Listening(r) /\ pc'[r] = pc[r] /\ failure'[r] = failure[r]
              /\ finished'[r] = finished[r] /\ uses[r] \in Runs
              /\ busyWith'[uses[r]] = busyWith[uses[r]]
  <2>1. Listening(r)
    BY <1>0, <1>1, <1>14 DEF RunHears, NobodyHears, Listening, TypeOK
  <2>2. uses[r] \in Runs
    BY <1>0, <2>1 DEF HasSet, WithSet, Listening
  <2>3. \A q \in Runs : Listening(q) => uses[q] # e
    BY <1>14, <2>1 DEF OneActive, Active, WithSet, Listening
  <2>4. NobodyHears(e)
    BY <1>1, <2>3 DEF RunHears
  <2> QED BY <2>1, <2>2, <2>4 DEF NobodyHears
<1>15. ListenerHears'
  <2> SUFFICES ASSUME NEW r \in Runs, Listening(r)', ~failure'[r]
               PROVE  uses'[r] \in HeardSets'
    BY DEF ListenerHears
  <2>1. CASE uses[r] # e
    <3>1. uses[r] \in HeardSets
      BY <1>14, <2>1 DEF WakeInv, ListenerHears
    <3>2. \A q \in Slots : HeardOf(uses[r], q)
      BY <3>1 DEF HeardSets
    <3>3. busyWith'[uses[r]] = busyWith[uses[r]] /\ uses[r] \in Runs
      BY <1>14, <2>1
    <3>4. \A q \in Slots : HeardOf(uses[r], q)'
      BY <1>1, <1>7, <2>1, <3>2, <3>3 DEF HeardOf
    <3> QED BY <1>1, <3>3, <3>4 DEF HeardSets
  <2>2. CASE uses[r] = e
    <3>1. Listening(r) /\ ~failure[r] /\ m.kind \notin Failures \cup {"failed"}
      BY <1>13, <2>2
    <3>2. \A q \in Slots : HeardOf(e, q)
      BY <2>2, <3>1 DEF WakeInv, ListenerHears, HeardSets
    <3> SUFFICES ASSUME NEW q \in Slots PROVE HeardOf(e, q)'
      BY <1>1, <2>2 DEF HeardSets
    <3>3. CASE q # s
      BY <1>1, <1>7, <1>13, <2>2, <3>2, <3>3 DEF HeardOf
    <3>4. CASE q = s
      <4>1. th[e][s] = "gone" => InMail(e, s, Failures)'
        BY <1>5, <3>1, <3>2 DEF HeardOf
      <4>2. CASE m.kind \in {"done", "failed"}
        BY <1>1, <1>13, <2>2, <3>4, <4>1, <4>2 DEF HeardOf
      <4>3. CASE m.kind \notin {"done", "failed"}
        <5>1. busyWith' = busyWith
          BY <1>13, <2>2, <4>3
        <5>2. InMail(e, s, Failures \cup {"done", "failed"}) =>
                InMail(e, s, Failures \cup {"done", "failed"})'
          BY <1>5, <3>1, <4>3
        <5> QED BY <1>1, <3>2, <3>4, <4>1, <5>1, <5>2 DEF HeardOf
      <4> QED BY <4>2, <4>3
    <3> QED BY <3>3, <3>4
  <2> QED BY <2>1, <2>2
<1>16. WokenForSomething'
  <2> SUFFICES ASSUME NEW r \in Runs, pc'[r] = "woken"
               PROVE  failure'[r] \/ finished'[r] # <<>>
    BY DEF WokenForSomething
  <2>1. pc[r] # "woken"
    BY <1>1 DEF ReactionsDone
  <2>2. Listening(r)'
    BY DEF Listening
  <2>3. uses[r] = e
    BY <1>14, <2>1, <2>2
  <2> QED BY <1>13, <2>1, <2>2, <2>3
<1>17. ParkedForSomebody'
  <2> SUFFICES ASSUME NEW r \in Runs, pc'[r] = "parked"
               PROVE  ~failure'[r] /\ Busy'[uses'[r]] # {}
    BY DEF ParkedForSomebody
  <2>1. Listening(r)'
    BY DEF Listening
  <2>2. CASE uses[r] # e
    <3>1. pc[r] = "parked" /\ uses[r] \in Runs
      BY <1>14, <2>1, <2>2
    <3>2. ~failure[r] /\ Busy[uses[r]] # {}
      BY <3>1 DEF WakeInv, ParkedForSomebody
    <3>3. Busy'[uses[r]] = Busy[uses[r]]
      BY <1>14, <2>1, <2>2 DEF Busy
    <3> QED BY <1>1, <1>14, <2>1, <2>2, <3>2, <3>3
  <2>3. CASE uses[r] = e
    <3>1. m.kind \notin Failures \cup {"done", "failed"} /\ pc[r] = "parked"
      BY <1>13, <2>1, <2>3
    <3>2. ~failure[r] /\ Busy[e] # {}
      BY <2>3, <3>1 DEF WakeInv, ParkedForSomebody
    <3>3. busyWith' = busyWith /\ ~failure'[r]
      BY <1>13, <2>1, <2>3, <3>1, <3>2
    <3>4. Busy' = Busy
      BY <3>3 DEF Busy
    <3> QED BY <1>1, <2>3, <3>2, <3>3, <3>4
  <2> QED BY <2>2, <2>3
<1> QED BY <1>10, <1>11, <1>12, <1>15, <1>16, <1>17 DEF WakeInv, StartInv

-----------------------------------------------------------------------------
(* A run hands its workers elements, and waits only for those that have some. *)

\* A member handed an element works on it, unless its thread is gone.
LEMMA DispatchPosts ==
  ASSUME TypeOK, NEW r \in Runs, uses[r] \in Runs, Dispatch(r), NEW s \in Slots
  PROVE  \/ /\ busyWith'[uses[r]][s] = busyWith[uses[r]][s]
            /\ job'[uses[r]][s] = job[uses[r]][s]
         \/ /\ busyWith[uses[r]][s] = None
            /\ th[uses[r]][s] = "up" => job'[uses[r]][s] # None
<1> DEFINE e == uses[r]
<1>1. /\ busyWith'[e][s] = IF s \in Given(r) THEN handedOut[r] + Rank(r, s)
                           ELSE busyWith[e][s]
      /\ job'[e][s] = IF s \in Given(r) /\ th[e][s] \in {"up", "stopping"}
                      THEN [run |-> r, id |-> handedOut[r] + Rank(r, s)]
                      ELSE job[e][s]
  BY DEF Dispatch, Hand, TypeOK
<1>2. handedOut[r] + Rank(r, s) \in Nat
  <2>1. handedOut[r] \in Nat
    BY DEF TypeOK
  <2> QED BY <2>1, RankIsNat
<1>3. [run |-> r, id |-> handedOut[r] + Rank(r, s)] # None
  <2>1. [run |-> r, id |-> handedOut[r] + Rank(r, s)] \in [run : Runs, id : Nat]
    BY <1>2
  <2> QED BY <2>1, PoolAssumption
<1>4. s \in Given(r) => busyWith[e][s] = None
  BY DEF Given, Free
<1> QED BY <1>1, <1>3, <1>4


\* Workers a run finds ready are listened to from the first on.
LEMMA ReadyIsHeard ==
  ASSUME PoolInv, OneActive, WakeInv, NEW r \in Runs,
         pc[r] \in {"awaitMembers", "awaitStart"},
         startState[uses[r]] = "fulfilled", ~closed, AllAlive(uses[r])
  PROVE  uses[r] \in HeardSets
<1>1. uses[r] \in Runs /\ \A s \in Slots : busyWith[uses[r]][s] = None
  BY ReadyIsFree
<1>2. members = uses[r]
  BY <1>1, PoolAssumption
     DEF PoolInv, SetsInv, InHand, ClosedHoldsNone, Tended, AwaitedIsHeld, Holds
<1>3. uses[r] \notin forgotten
  BY <1>2 DEF PoolInv, SetsInv, InHand, HeldIsKept
<1>4. \A s \in Slots : EndIsSaid(uses[r], s)
  BY <1>1 DEF WakeInv, StartInv, EndsAreSaid
<1> QED BY <1>1, <1>3, <1>4 DEF HeardSets, HeardOf, EndIsSaid, AllAlive

LEMMA LoopWakes ==
  ASSUME PoolInv, PoolInv', OneActive, WakeInv, Orderly, NEW r \in Runs,
         UNCHANGED <<asideVars, alive, uses, aborted, failure>>,
         startState[uses[r]] = "fulfilled",
         \/ Listening(r)
         \/ pc[r] \in {"awaitMembers", "awaitStart"} /\ uses[r] \in HeardSets,
         \/ DispatchAndLoop(r)
         \/ LoopOnly(r) /\ pc[r] = "woken"
         \/ Finally(r, "abandoned") /\ NoDispatch /\ UNCHANGED <<got, finished>>
  PROVE  WakeInv'
<1> DEFINE e == uses[r]
<1>0. TypeOK /\ e \in Runs
  BY DEF PoolInv, SetsInv, TypeInv, HasSet, WithSet, Listening
<1>1. LoopPass(r)
  BY DEF DispatchAndLoop, LoopOnly, LoopPass
<1>2. /\ \A q \in Runs : q # r => pc'[q] = pc[q] /\ finished'[q] = finished[q]
      /\ pc'[r] \in {"parked", "yielded", "cleanup", "ended"}
  <2>1. /\ \E x \in {"parked", "yielded", "cleanup", "ended"} :
             pc' = [pc EXCEPT ![r] = x]
        /\ finished' = finished \/ \E x : finished' = [finished EXCEPT ![r] = x]
    BY DEF DispatchAndLoop, LoopOnly, Finish, Throw, Yield, Park, PostThrows,
           Finally, Leave
  <2>2. \A q \in Runs : q # r => finished'[q] = finished[q]
    BY <1>0, <2>1 DEF TypeOK
  <2>3. /\ \A q \in Runs : q # r => pc'[q] = pc[q]
        /\ pc'[r] \in {"parked", "yielded", "cleanup", "ended"}
    BY <1>0, <2>1 DEF TypeOK
  <2> QED BY <2>2, <2>3
<1>3. /\ mail' = mail /\ \A f \in Runs : f # e => th'[f] = th[f]
      /\ \A f \in Runs, s \in Slots :
           \/ th'[f][s] = th[f][s]
           \/ th[f][s] \in {"loading", "up"} /\ th'[f][s] = "stopping"
  <2>1. UNCHANGED <<th, mail>> \/ (th' = StopThreads(e) /\ mail' = StopMail(e))
    BY <1>1 DEF LoopPass, Finish, Throw, Yield, Park, PostThrows, Finally, Leave,
                RetireWith
  <2> QED BY <1>0, <2>1, StopCalms
<1>4. \/ Dispatch(r) \/ UNCHANGED <<job, busyWith>>
      \/ DispatchThrows(r) /\ PostThrows(r)
  BY DEF DispatchAndLoop, LoopOnly, PostThrows, NoDispatch
<1>5. \A f \in Runs : f # e => job'[f] = job[f] /\ busyWith'[f] = busyWith[f]
  BY <1>0, <1>4, HandsElsewhere
<1>6. Calm
  BY <1>3, <1>5 DEF Calm
<1>7. StartInv'
  BY <1>6, CalmStarts DEF WakeInv
<1>8. StartsAlive'
  BY <1>2 DEF WakeInv, StartsAlive, AllAlive
\* No other run listens.
<1>9. \A q \in Runs : Listening(q)' => q = r
  BY <1>2 DEF OneActive, Active, WithSet, Listening
<1>10. ListenerHears'
  <2> SUFFICES ASSUME Listening(r)', ~failure[r], NEW s \in Slots
               PROVE  HeardOf(e, s)'
    BY <1>0, <1>9 DEF ListenerHears, HeardSets
  <2>1. HeardOf(e, s)
    BY DEF WakeInv, ListenerHears, HeardSets
  <2>2. EndIsSaid(e, s)
    BY <1>0 DEF WakeInv, StartInv, EndsAreSaid
  <2>3. \A K : InMail(e, s, K)' <=> InMail(e, s, K)
    BY <1>3 DEF InMail
  <2>4. InMail(e, s, Failures) => InMail(e, s, Failures \cup {"done", "failed"})
    BY DEF InMail
  <2>5. \/ busyWith'[e][s] = busyWith[e][s] /\ job'[e][s] = job[e][s]
        \/ /\ busyWith[e][s] = None
           /\ th[e][s] = "up" => job'[e][s] # None
    <3>1. ~PostThrows(r)
      BY <1>0, PostThrowsGivesUp DEF Listening, TypeOK
    <3> QED BY <1>0, <1>4, <3>1, DispatchPosts
  <2>6. \/ th'[e][s] = th[e][s]
        \/ th[e][s] \in {"loading", "up"} /\ th'[e][s] = "stopping"
    BY <1>0, <1>3
  <2>7. th'[e][s] = "gone" => InMail(e, s, Failures)
    BY <2>1, <2>6 DEF HeardOf
  <2>8. ASSUME busyWith'[e][s] # None
        PROVE  \/ th'[e][s] = "stopping"
               \/ th'[e][s] = "up" /\ job'[e][s] # None
               \/ InMail(e, s, Failures \cup {"done", "failed"})
    <3>1. CASE busyWith'[e][s] = busyWith[e][s] /\ job'[e][s] = job[e][s]
      BY <2>1, <2>6, <2>8, <3>1 DEF HeardOf
    <3>2. CASE th[e][s] = "up" => job'[e][s] # None
      <4>1. th[e][s] \in {"up", "stopping", "gone"}
        BY <2>2 DEF EndIsSaid
      <4>2. th[e][s] = "gone" => InMail(e, s, Failures)
        BY <2>1 DEF HeardOf
      <4> QED BY <2>4, <2>6, <3>2, <4>1, <4>2
    <3> QED BY <2>5, <3>1, <3>2
  <2> QED BY <2>3, <2>7, <2>8 DEF HeardOf
<1>11. WokenForSomething'
  BY <1>2 DEF WakeInv, WokenForSomething
<1>12. ParkedForSomebody'
  <2> SUFFICES ASSUME pc'[r] = "parked"
               PROVE  ~failure[r] /\ Busy'[e] # {}
    BY <1>9 DEF ParkedForSomebody, Listening
  <2>1. Park(r)
    <3>1. Finish(r) \/ Throw(r) \/ Yield(r) \/ PostThrows(r)
            \/ Finally(r, "abandoned") =>
              \E x \in {"yielded", "cleanup", "ended"} : pc' = [pc EXCEPT ![r] = x]
      BY DEF Finish, Throw, Yield, PostThrows, Finally, Leave
    <3>2. (\E x \in {"yielded", "cleanup", "ended"} : pc' = [pc EXCEPT ![r] = x])
            => pc'[r] # "parked"
      BY <1>0 DEF TypeOK
    <3> QED BY <1>1, <3>1, <3>2 DEF LoopPass
  <2>2. /\ ~aborted[r] /\ ~failure[r] /\ finished[r] = <<>>
        /\ Len(got[r]) < Count[r] /\ UNCHANGED <<got, finished>>
    BY <2>1 DEF Park
  <2>3. Dispatch(r)
    <3>1. ~(LoopOnly(r) /\ pc[r] = "woken")
      BY <2>2 DEF WakeInv, WokenForSomething
    <3>2. ~PostThrows(r) /\ ~Finally(r, "abandoned")
      <4>1. PostThrows(r) \/ Finally(r, "abandoned") =>
              \E x \in {"cleanup", "ended"} : pc' = [pc EXCEPT ![r] = x]
        BY DEF PostThrows, Finally, Leave
      <4>2. (\E x \in {"cleanup", "ended"} : pc' = [pc EXCEPT ![r] = x])
              => pc'[r] # "parked"
        BY <1>0 DEF TypeOK
      <4> QED BY <4>1, <4>2
    <3> QED BY <2>2, <3>1, <3>2 DEF DispatchAndLoop, MayDispatch
  <2>4. (\A s \in Slots : busyWith'[e][s] = None) => handedOut'[r] >= Count[r]
    BY <1>0, <2>3, DispatchHands
  <2>5. Listening(r)' /\ Balanced'
    BY DEF PoolInv, RunsInv, Listening
  <2>6. Len(Kept'[r]) + Cardinality(Busy'[e]) = handedOut'[r]
    BY <2>2, <2>5 DEF Balanced
  <2>7. Kept' = Kept
    BY <2>2 DEF Kept
  <2>8. Len(Kept[r]) = Len(got[r]) /\ Len(got[r]) \in Nat /\ Count[r] \in Nat
    <3>1. Len(Kept[r]) = Len(got[r]) + Len(finished[r])
      BY <1>0, KeptType
    <3>2. Len(finished[r]) = 0 /\ Len(got[r]) \in Nat
      BY <1>0, <2>2 DEF TypeOK
    <3> QED BY <3>1, <3>2, PoolAssumption
  <2>9. ASSUME Busy'[e] = {} PROVE FALSE
    <3>1. Cardinality(Busy'[e]) = 0
      BY <2>9, FS_EmptySet
    <3>2. \A s \in Slots : busyWith'[e][s] = None
      BY <1>0, <2>9 DEF Busy
    <3> QED BY <2>2, <2>4, <2>6, <2>7, <2>8, <3>1, <3>2
  <2> QED BY <2>2, <2>9
<1> QED BY <1>7, <1>8, <1>10, <1>11, <1>12 DEF WakeInv

LEMMA EnterWakes ==
  ASSUME PoolInv, PoolInv', OneActive, WakeInv, Orderly, NEW r \in Runs,
         Enter(r), pc[r] \in {"awaitMembers", "awaitStart"},
         startState[uses[r]] = "fulfilled", ~closed, AllAlive(uses[r]),
         UNCHANGED <<asideVars, alive, uses, aborted, failure>>
  PROVE  WakeInv'
<1>1. CASE DispatchAndLoop(r)
  BY <1>1, ReadyIsHeard, LoopWakes
<1>2. CASE /\ Count[r] = 0 /\ EndWith(r, "ok") /\ NoDispatch
           /\ UNCHANGED <<members, retiring, th, mail, got, finished, discarding>>
  <2>1. TypeOK
    BY DEF PoolInv, SetsInv, TypeInv
  <2> QED BY <1>2, <2>1, UntouchedThreads DEF EndWith, NoDispatch, PCs
<1> QED BY <1>1, <1>2 DEF Enter

LEMMA NotReadyWakes ==
  ASSUME PoolInv, WakeInv, NEW r \in Runs, NotReady(r), UNCHANGED asideVars
  PROVE  WakeInv'
<1>1. TypeOK
  BY DEF PoolInv, SetsInv, TypeInv
<1> QED BY <1>1, UntouchedThreads DEF NotReady, EndWith, PCs

LEMMA RunWakes ==
  ASSUME PoolInv, PoolInv', OneActive, WakeInv, Orderly, NEW r \in Runs,
         \/ MembersReady(r) \/ Started(r) \/ Resume(r) \/ CleanedUp(r)
         \/ Pull(r) \/ Return(r)
  PROVE  WakeInv'
<1>0. TypeOK /\ uses[r] \in Runs
  BY DEF PoolInv, SetsInv, TypeInv, HasSet, WithSet, MembersReady, Started,
         Resume, CleanedUp, Pull, Return
<1>1. CASE MembersReady(r)
  <2>0. pc[r] = "awaitMembers" /\ UNCHANGED asideVars
    BY <1>1 DEF MembersReady
  <2>1. CASE NotReady(r)
    BY <2>0, <2>1, NotReadyWakes
  <2>2. CASE /\ startState[uses[r]] = "fulfilled" /\ ~closed
             /\ AllAlive(uses[r]) /\ Enter(r)
             /\ UNCHANGED <<alive, uses, aborted, failure>>
    BY <2>0, <2>2, EnterWakes
  <2>3. CASE /\ startState[uses[r]] = "fulfilled"
             /\ RetireWith(uses[r])
             /\ pc' = [pc EXCEPT ![r] = "awaitRetire"]
             /\ UNCHANGED <<job, memberVars, outcome, uses, loopVars>>
    BY <1>0, <2>0, <2>3, LosesThreads DEF RetireWith, PCs
  <2> QED BY <1>1, <2>1, <2>2, <2>3 DEF MembersReady
<1>2. CASE Started(r)
  <2>0. pc[r] = "awaitStart" /\ UNCHANGED asideVars
    BY <1>2 DEF Started
  <2>1. CASE NotReady(r)
    BY <2>0, <2>1, NotReadyWakes
  <2>2. CASE /\ startState[uses[r]] = "fulfilled" /\ ~closed /\ Enter(r)
             /\ UNCHANGED <<alive, uses, aborted, failure>>
    <3>1. uses[r] = r
      BY <2>0 DEF PoolInv, SetsInv, StartsOnce, OwnSet
    <3>2. AllAlive(uses[r])
      BY <2>0, <2>2, <3>1 DEF WakeInv, StartsAlive
    <3> QED BY <2>0, <2>2, <3>2, EnterWakes
  <2> QED BY <1>2, <2>1, <2>2 DEF Started
<1>3. CASE Resume(r) \/ Pull(r) \/ Return(r)
  <2>1. /\ Listening(r)
        /\ UNCHANGED <<asideVars, alive, uses, aborted, failure>>
        /\ \/ DispatchAndLoop(r)
           \/ LoopOnly(r) /\ pc[r] = "woken"
           \/ /\ Finally(r, "abandoned") /\ NoDispatch
              /\ UNCHANGED <<got, finished>>
    BY <1>3 DEF Resume, Pull, Return, Listening
  <2>2. startState[uses[r]] = "fulfilled"
    BY <2>1 DEF PoolInv, SetsInv, StartsOnce, ListensToStarted
  <2> QED BY <2>1, <2>2, LoopWakes
<1>4. CASE CleanedUp(r)
  BY <1>0, <1>4, UntouchedThreads DEF CleanedUp, PCs
<1> QED BY <1>1, <1>2, <1>3, <1>4

LEMMA NextKeepsWake ==
  ASSUME PoolInv, PoolInv', WakeInv, Orderly, [Next]_vars PROVE WakeInv'
<1>0. TypeOK /\ OneActive
  BY ChainOneActive DEF PoolInv, SetsInv, TypeInv
<1>1. CASE (\E e \in Runs : SetStep(e)) \/ Close \/ CloseStep \/ UNCHANGED vars
  BY <1>1, SetsWake
<1>2. ASSUME NEW r \in Runs,
             Call(r) \/ CalledOff(r) \/ Release(r) \/ TakeTurn(r) \/ Retired(r)
      PROVE  WakeInv'
  BY <1>2, QueueWakes
<1>3. ASSUME NEW r \in Runs, Abort(r) PROVE WakeInv'
  BY <1>3, AbortWakes
<1>4. ASSUME NEW r \in Runs,
             \/ MembersReady(r) \/ Started(r) \/ Resume(r) \/ CleanedUp(r)
             \/ Pull(r) \/ Return(r)
      PROVE  WakeInv'
  BY <1>0, <1>4, RunWakes
<1>5. ASSUME NEW e \in Runs, NEW s \in Slots,
             \/ ThreadDies(e, s) \/ ThreadExitsZero(e, s) \/ ThreadLoads(e, s)
             \/ ThreadAnswers(e, s) \/ ThreadStops(e, s)
      PROVE  WakeInv'
  BY <1>0, <1>5, ThreadSpeaks, SpeaksWakes
<1>6. ASSUME NEW e \in Runs, NEW s \in Slots, Deliver(e, s) PROVE WakeInv'
  BY <1>0, <1>6, DeliverWakes
<1>7. ASSUME NEW r \in Runs, RunStep(r) \/ Consume(r) PROVE WakeInv'
  BY <1>2, <1>4, <1>7 DEF RunStep, Consume
<1>8. ASSUME NEW e \in Runs, NEW s \in Slots, ThreadStep(e, s) PROVE WakeInv'
  BY <1>5, <1>6, <1>8 DEF ThreadStep
<1> QED BY <1>1, <1>2, <1>3, <1>5, <1>7, <1>8 DEF Next, Outside

LEMMA InitWake == ASSUME Init PROVE WakeInv
<1>1. \A e \in Runs : startState[e] = "none" /\ pc[e] = "idle"
  BY DEF Init
<1> QED BY <1>1 DEF WakeInv, StartInv, Loading, EndsAreSaid, StartsAlive,
                    ListenerHears, WokenForSomething, ParkedForSomebody, Listening

\* A run that waits for its workers is woken: one of them works for it, is
\* being stopped, or has sent something it reacts to.  Assumed is that no
\* worker ends where nobody is told (Orderly): the pool has no handler for an
\* exit with code 0, nor, while a set starts, for one that has loaded; and a
\* browser does not tell of the workers that close() terminates.
THEOREM NoStrandedRunHolds == ASSUME Orderly PROVE Spec => []NoStrandedRun
<1>1. Init => WakeInv
  BY InitWake
<1>2. WakeInv /\ PoolInv /\ PoolInv' /\ [Next]_vars => WakeInv'
  BY NextKeepsWake
<1>3. WakeInv /\ PoolInv => NoStrandedRun
  <2> SUFFICES ASSUME WakeInv, PoolInv, NEW r \in Runs, pc[r] = "parked"
               PROVE  \E s \in Slots :
                        \/ th[uses[r]][s] = "stopping"
                        \/ th[uses[r]][s] = "up" /\ job[uses[r]][s] # None
                        \/ InMail(uses[r], s, Failures \cup {"done", "failed"})
    BY DEF NoStrandedRun
  <2>1. ~failure[r] /\ Busy[uses[r]] # {} /\ uses[r] \in Runs
    BY DEF WakeInv, ParkedForSomebody, PoolInv, SetsInv, TypeInv, HasSet, WithSet
  <2>2. PICK s \in Slots : busyWith[uses[r]][s] # None
    BY <2>1 DEF Busy
  <2>3. HeardOf(uses[r], s)
    BY <2>1 DEF WakeInv, ListenerHears, HeardSets, Listening
  <2> QED BY <2>2, <2>3 DEF HeardOf
<1> QED BY <1>1, <1>2, <1>3, PoolInvHolds, PTL DEF Spec
=============================================================================

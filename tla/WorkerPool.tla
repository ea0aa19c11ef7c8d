----------------------------- MODULE WorkerPool -----------------------------
(***************************************************************************)
(* The worker pool of packages/parallel (src/pool/index.ts) together with  *)
(* the two things it talks to: the script every worker runs                *)
(* (src/worker/entry.ts) and the platform handle of a worker               *)
(* (src/backend/node.ts, src/backend/browser.ts).                          *)
(*                                                                         *)
(* One step of the model is one stretch of JavaScript between two awaits,  *)
(* or one thing a worker thread does.  A run starts at most one set of     *)
(* workers, so a set is named by the run that started it, and no bound on  *)
(* the number of sets is needed.                                           *)
(***************************************************************************)
EXTENDS Naturals, Sequences, FiniteSets

CONSTANTS
  Runs,       \* calls of map or stream that may be made on the pool
  Size,       \* createPool's `workers`
  Count,      \* Count[r]: how many elements run r is given
  Signalled,  \* the runs given an AbortSignal
  Streams,    \* the runs read through stream(), whose consumer may break off
  Platform,   \* which adapter spawns the workers
  Faults,     \* what may go wrong outside the pool
  None        \* null

FaultKinds ==
  {"load",         \* the task module cannot be loaded, or lacks the export
   "task",         \* the task throws for an element
   "dies",         \* an uncaught error in a worker of a started set
   "diesInStart",  \* the same, in a loaded worker whose siblings are loading
   "exitsZero",    \* a worker thread that has loaded ends with exit code 0
   "exitsInStart", \* one that is loading does
   "spawnThrows",  \* constructing a worker throws
   "postThrows"}   \* an element cannot be cloned

ASSUME PoolAssumption ==
  /\ Size \in Nat \ {0}
  /\ Count \in [Runs -> Nat]
  /\ Signalled \subseteq Runs
  /\ Streams \subseteq Runs
  /\ Platform \in {"node", "browser"}
  /\ Faults \subseteq FaultKinds
  /\ None \notin Runs
  /\ None \notin Nat
  /\ None \notin [run : Runs, id : Nat]

Slots == 1 .. Size

VARIABLES
  \* the pool
  members,    \* the set of workers in use, named by the run that started it
  closed,
  retiring,   \* sets whose termination is still in progress
  forgotten,  \* sets whose `alive` listener has been removed
  order,      \* the runs in the order they were called
  released,   \* the runs whose place in the `inProgress` chain is free
  \* close()
  closing, closeSet, closeWaits,
  \* per set: the promise of start(), and the workers that answered `ready`
  startState, loaded, startFailed,
  \* per worker: the thread, what it sent and is not yet delivered, its job
  th, mail, job,
  \* per worker: the Member
  busyWith, alive,
  \* per run
  pc, outcome, uses, aborted, got, finished, failure, handedOut, discarding

chainVars == <<order, released>>
closeVars == <<closing, closeSet, closeWaits>>
startVars == <<startState, loaded, startFailed>>
threadVars == <<th, mail, job>>
memberVars == <<busyWith, alive>>
loopVars == <<aborted, got, finished, failure, handedOut, discarding>>
runVars == <<pc, outcome, uses, loopVars>>
poolVars == <<members, closed, retiring, forgotten, chainVars, closeVars>>
vars == <<poolVars, startVars, threadVars, memberVars, runVars>>

\* What no step of a run that has its workers changes.
asideVars == <<closed, forgotten, chainVars, closeVars, startVars>>

-----------------------------------------------------------------------------
Jobs == [run : Runs, id : Nat]

\* What reaches the pool from a worker: a reply, or a failure of the worker.
\* `from` names the run that posted the task; the code sends only the id.
Message == [kind : {"ready", "broken", "died", "exited", "exitedZero"}]
             \cup [kind : {"done", "failed"}, from : Runs, id : Nat]

Reply(k) == [kind |-> k]
Answer(k, j) == [kind |-> k, from |-> j.run, id |-> j.id]

\* Mutant: the end of a thread is no failure.
OnlyErrors == {"died"}

\* The messages for which listen() calls handler(_, failure).
Failures == {"died", "exited"}

\* What a run keeps of a `done` message.
Result(m) == [run |-> m.from, id |-> m.id]

PCs == {"idle", "queued", "awaitMembers", "awaitRetire", "awaitStart",
        "parked", "woken", "yielded", "cleanup", "ended"}
Outcomes == {"none", "ok", "aborted", "failed", "refused", "abandoned"}
ThreadStates == {"unborn", "loading", "up", "stopping", "gone"}

TypeOK ==
  /\ members \in Runs \cup {None}
  /\ closed \in BOOLEAN
  /\ retiring \subseteq Runs
  /\ forgotten \subseteq Runs
  /\ order \in Seq(Runs)
  /\ released \subseteq Runs
  /\ closing \in {"none", "awaitStart", "terminating", "awaitRetiring",
                  "settled"}
  /\ closeSet \in Runs \cup {None}
  /\ closeWaits \subseteq Runs
  /\ startState \in [Runs -> {"none", "pending", "retiring", "fulfilled",
                              "rejected"}]
  /\ loaded \in [Runs -> SUBSET Slots]
  /\ startFailed \in [Runs -> BOOLEAN]
  /\ th \in [Runs -> [Slots -> ThreadStates]]
  /\ mail \in [Runs -> [Slots -> Seq(Message)]]
  /\ job \in [Runs -> [Slots -> Jobs \cup {None}]]
  /\ busyWith \in [Runs -> [Slots -> Nat \cup {None}]]
  /\ alive \in [Runs -> [Slots -> BOOLEAN]]
  /\ pc \in [Runs -> PCs]
  /\ outcome \in [Runs -> Outcomes]
  /\ uses \in [Runs -> Runs \cup {None}]
  /\ aborted \in [Runs -> BOOLEAN]
  /\ got \in [Runs -> Seq(Jobs)]
  /\ finished \in [Runs -> Seq(Jobs)]
  /\ failure \in [Runs -> BOOLEAN]
  /\ handedOut \in [Runs -> Nat]
  /\ discarding \in [Runs -> BOOLEAN]

Init ==
  /\ members = None
  /\ closed = FALSE
  /\ retiring = {}
  /\ forgotten = {}
  /\ order = <<>>
  /\ released = {}
  /\ closing = "none"
  /\ closeSet = None
  /\ closeWaits = {}
  /\ startState = [r \in Runs |-> "none"]
  /\ loaded = [r \in Runs |-> {}]
  /\ startFailed = [r \in Runs |-> FALSE]
  /\ th = [r \in Runs |-> [s \in Slots |-> "unborn"]]
  /\ mail = [r \in Runs |-> [s \in Slots |-> <<>>]]
  /\ job = [r \in Runs |-> [s \in Slots |-> None]]
  /\ busyWith = [r \in Runs |-> [s \in Slots |-> None]]
  /\ alive = [r \in Runs |-> [s \in Slots |-> FALSE]]
  /\ pc = [r \in Runs |-> "idle"]
  /\ outcome = [r \in Runs |-> "none"]
  /\ uses = [r \in Runs |-> None]
  /\ aborted = [r \in Runs |-> FALSE]
  /\ got = [r \in Runs |-> <<>>]
  /\ finished = [r \in Runs |-> <<>>]
  /\ failure = [r \in Runs |-> FALSE]
  /\ handedOut = [r \in Runs |-> 0]
  /\ discarding = [r \in Runs |-> FALSE]

-----------------------------------------------------------------------------
(* The platform: what a thread is, and what terminating one does.          *)

Lives(e, s) == th[e][s] \in {"loading", "up", "stopping"}
LiveSet(e) == \E s \in Slots : Lives(e, s)

\* terminate() resolved: on Node when the exit event has been emitted, which
\* comes after every message the thread sent.
Stopped(e) ==
  \A s \in Slots : th[e][s] \in {"unborn", "gone"} /\ mail[e][s] = <<>>

\* The threads of a set after terminate() was called on each.  Node tells the
\* thread to stop; a browser worker and what it sent are gone at once, and no
\* event says so.
StopThreads(e) ==
  [th EXCEPT ![e] = [s \in Slots |->
     IF ~Lives(e, s) THEN th[e][s]
     ELSE IF Platform = "node" THEN "stopping" ELSE "gone"]]

StopMail(e) ==
  IF Platform = "node" THEN mail
  ELSE [mail EXCEPT ![e] = [s \in Slots |-> <<>>]]

Send(e, s, m) == mail' = [mail EXCEPT ![e][s] = Append(@, m)]

-----------------------------------------------------------------------------
(* Worker threads (worker/entry.ts) and the ways they end.                 *)

\* initialize: the module is imported and the export found, or it is not.
ThreadLoads(e, s) ==
  /\ th[e][s] = "loading"
  /\ \E k \in {"ready"} \cup (IF "load" \in Faults THEN {"broken"} ELSE {}) :
       Send(e, s, Reply(k))
  /\ th' = [th EXCEPT ![e][s] = "up"]
  /\ UNCHANGED <<poolVars, startVars, job, memberVars, runVars>>

\* run: the task settles for the element in hand.  A thread told to stop may
\* still answer before it is stopped.
ThreadAnswers(e, s) ==
  /\ th[e][s] \in {"up", "stopping"}
  /\ job[e][s] # None
  /\ \E k \in {"done"} \cup (IF "task" \in Faults THEN {"failed"} ELSE {}) :
       Send(e, s, Answer(k, job[e][s]))
  /\ job' = [job EXCEPT ![e][s] = None]
  /\ UNCHANGED <<poolVars, startVars, th, memberVars, runVars>>

\* An error nobody caught.  It ends a Node thread; a browser worker reports
\* it and carries on.
ThreadDies(e, s) ==
  /\ th[e][s] \in {"loading", "up"}
  /\ IF startState[e] = "pending" /\ th[e][s] = "up"
     THEN "diesInStart" \in Faults
     ELSE "dies" \in Faults
  /\ alive[e][s]
  /\ \A i \in 1 .. Len(mail[e][s]) : mail[e][s][i].kind # "died"
  /\ Send(e, s, Reply("died"))
  /\ IF Platform = "node"
     THEN /\ th' = [th EXCEPT ![e][s] = "gone"]
          /\ job' = [job EXCEPT ![e][s] = None]
     ELSE UNCHANGED <<th, job>>
  /\ UNCHANGED <<poolVars, startVars, memberVars, runVars>>

\* The thread ends by itself with exit code 0, as process.exit(0) does.
ThreadExitsZero(e, s) ==
  /\ Platform = "node"
  /\ \/ th[e][s] = "loading" /\ "exitsInStart" \in Faults
     \/ th[e][s] = "up" /\ "exitsZero" \in Faults
  /\ Send(e, s, Reply("exitedZero"))
  /\ th' = [th EXCEPT ![e][s] = "gone"]
  /\ job' = [job EXCEPT ![e][s] = None]
  /\ UNCHANGED <<poolVars, startVars, memberVars, runVars>>

\* A thread told to stop is gone, and says so with exit code 1.
ThreadStops(e, s) ==
  /\ th[e][s] = "stopping"
  /\ Send(e, s, Reply("exited"))
  /\ th' = [th EXCEPT ![e][s] = "gone"]
  /\ job' = [job EXCEPT ![e][s] = None]
  /\ UNCHANGED <<poolVars, startVars, memberVars, runVars>>

-----------------------------------------------------------------------------
(* retire, start: giving a set up, and making one.                         *)

RetireWith(e) ==
  /\ retiring' = retiring \cup {e}
  /\ th' = StopThreads(e)
  /\ mail' = StopMail(e)

\* Every termination of the set has settled: the listeners are removed.
RetireSettles(e) ==
  /\ e \in retiring
  /\ Stopped(e)
  /\ retiring' = retiring \ {e}
  /\ forgotten' = forgotten \cup {e}
  /\ UNCHANGED <<members, closed, chainVars, closeVars, startVars, threadVars,
                 memberVars, runVars>>

\* start: every worker is spawned, listened to and told what to import.
SpawnAll(r) ==
  /\ th' = [th EXCEPT ![r] = [s \in Slots |-> "loading"]]
  /\ alive' = [alive EXCEPT ![r] = [s \in Slots |-> TRUE]]
  /\ startState' = [startState EXCEPT ![r] = "pending"]

\* start: constructing a worker throws after k of them were made.  The throw
\* is outside the try, so the promise is rejected and nothing is retired.
SpawnSome(r) ==
  /\ "spawnThrows" \in Faults
  /\ \E k \in 0 .. (Size - 1) :
       /\ th' = [th EXCEPT ![r] =
                   [s \in Slots |-> IF s <= k THEN "up" ELSE "unborn"]]
       /\ alive' = [alive EXCEPT ![r] = [s \in Slots |-> s <= k]]
  /\ startState' = [startState EXCEPT ![r] = "rejected"]

\* ready: `members = start()`, and wait for it.
Start(r) ==
  /\ SpawnAll(r) \/ SpawnSome(r)
  /\ members' = r
  /\ uses' = [uses EXCEPT ![r] = r]
  /\ pc' = [pc EXCEPT ![r] = "awaitStart"]
  /\ UNCHANGED <<loaded, startFailed, mail, job, busyWith>>

StartCanSettle(e) ==
  startState[e] = "pending" /\ (startFailed[e] \/ loaded[e] = Slots)

StartFulfils(e) ==
  /\ startState[e] = "pending"
  /\ ~startFailed[e]
  /\ loaded[e] = Slots
  /\ startState' = [startState EXCEPT ![e] = "fulfilled"]
  /\ UNCHANGED <<poolVars, loaded, startFailed, threadVars, memberVars,
                 runVars>>

\* The catch block: the workers that did start are given up.
StartFails(e) ==
  /\ startState[e] = "pending"
  /\ startFailed[e]
  /\ startState' = [startState EXCEPT ![e] = "retiring"]
  /\ members' = None
  /\ RetireWith(e)
  /\ UNCHANGED <<closed, forgotten, chainVars, closeVars, loaded, startFailed,
                 job, memberVars, runVars>>

\* ... and the failure is rethrown once they are gone.
StartRejects(e) ==
  /\ startState[e] = "retiring"
  /\ e \notin retiring
  /\ startState' = [startState EXCEPT ![e] = "rejected"]
  /\ UNCHANGED <<poolVars, loaded, startFailed, threadVars, memberVars,
                 runVars>>

-----------------------------------------------------------------------------
(* run: one run's generator, from its turn to its finally block.           *)

Listening(r) == pc[r] \in {"parked", "woken", "yielded"}

\* Mutant: a run that ends forgets what it has out.
NothingOut(r) == {}

\* The keys of `outstanding`: a position is put there when a member is made
\* busy with it and removed when that member is freed; only discard clears
\* the one without the other.
Outstanding(r) ==
  IF discarding[r] THEN {}
  ELSE {s \in Slots : busyWith[uses[r]][s] # None}

\* The free members are handed the next elements, in the order of the members.
Free(r) == {s \in Slots : busyWith[uses[r]][s] = None}

Rank(r, s) == Cardinality({q \in Free(r) : q < s})
Given(r) == {s \in Free(r) : handedOut[r] + Rank(r, s) < Count[r]}

\* The members `taken` are marked busy with the next elements, and those in
\* `posted` are sent theirs.  A thread that is gone never takes what is posted.
Hand(r, taken, posted) ==
  LET e == uses[r] IN
  /\ busyWith' = [busyWith EXCEPT ![e] = [s \in Slots |->
       IF s \in taken THEN handedOut[r] + Rank(r, s) ELSE @[s]]]
  /\ job' = [job EXCEPT ![e] = [s \in Slots |->
       IF s \in posted /\ th[e][s] \in {"up", "stopping"}
       THEN [run |-> r, id |-> handedOut[r] + Rank(r, s)] ELSE @[s]]]
  /\ handedOut' = [handedOut EXCEPT ![r] = @ + Cardinality(taken)]

\* dispatch, when every element can be posted.
Dispatch(r) == Hand(r, Given(r), Given(r))

NoDispatch == UNCHANGED <<job, busyWith, handedOut>>

\* The finally block, reached with this outcome and these members not free: a
\* run that ends with elements still out gives its workers up and waits until
\* they are stopped.
Leave(r, out, busy) ==
  /\ outcome' = [outcome EXCEPT ![r] = out]
  /\ IF busy # {}
     THEN /\ members' = None
          /\ RetireWith(uses[r])
          /\ discarding' = [discarding EXCEPT ![r] = TRUE]
          /\ pc' = [pc EXCEPT ![r] = "cleanup"]
     ELSE /\ UNCHANGED <<members, retiring, th, mail, discarding>>
          /\ pc' = [pc EXCEPT ![r] = IF discarding[r] THEN "cleanup"
                                     ELSE "ended"]

Finally(r, out) == Leave(r, out, Outstanding(r))

\* A throw before there is anything to clean up.
EndWith(r, out) ==
  /\ outcome' = [outcome EXCEPT ![r] = out]
  /\ pc' = [pc EXCEPT ![r] = "ended"]

\* One pass of the loop: stop, throw, yield a result or park.
Finish(r) ==
  /\ Len(got[r]) = Count[r]
  /\ Finally(r, "ok")
  /\ UNCHANGED <<got, finished>>

Throw(r) ==
  /\ Len(got[r]) < Count[r]
  /\ aborted[r] \/ failure[r]
  /\ Finally(r, IF aborted[r] THEN "aborted" ELSE "failed")
  /\ UNCHANGED <<got, finished>>

Yield(r) ==
  /\ Len(got[r]) < Count[r]
  /\ ~aborted[r] /\ ~failure[r]
  /\ finished[r] # <<>>
  /\ got' = [got EXCEPT ![r] = Append(@, Head(finished[r]))]
  /\ finished' = [finished EXCEPT ![r] = Tail(@)]
  /\ pc' = [pc EXCEPT ![r] = "yielded"]
  /\ UNCHANGED <<members, retiring, th, mail, outcome, discarding>>

Park(r) ==
  /\ Len(got[r]) < Count[r]
  /\ ~aborted[r] /\ ~failure[r]
  /\ finished[r] = <<>>
  /\ pc' = [pc EXCEPT ![r] = "parked"]
  /\ UNCHANGED <<members, retiring, th, mail, outcome, got, finished,
                 discarding>>

MayDispatch(r) == ~aborted[r] /\ ~failure[r]

\* dispatch, when post throws for an element that cannot be cloned: its member
\* is marked busy with it and was sent nothing, the members before it were sent
\* theirs, the ones behind it stay as they are.
DispatchThrows(r) ==
  \E bad \in Given(r) :
    Hand(r, {s \in Given(r) : s <= bad}, {s \in Given(r) : s < bad})

\* Nothing of it is undone before the finally block looks at what is out.
PostThrows(r) ==
  /\ "postThrows" \in Faults
  /\ MayDispatch(r)
  /\ DispatchThrows(r)
  /\ Leave(r, "failed", {s \in Slots : busyWith'[uses[r]][s] # None})
  /\ UNCHANGED <<got, finished>>

\* dispatch(), then the loop until it yields, parks or leaves.
DispatchAndLoop(r) ==
  \/ /\ IF MayDispatch(r) THEN Dispatch(r) ELSE NoDispatch
     /\ Finish(r) \/ Throw(r) \/ Yield(r) \/ Park(r)
  \/ PostThrows(r)

LoopOnly(r) ==
  /\ NoDispatch
  /\ Finish(r) \/ Throw(r) \/ Yield(r) \/ Park(r)

-----------------------------------------------------------------------------
(* process and ready: queueing, and the workers a run is to use.           *)

Called(r) == pc[r] # "idle"

\* Mutant: runs do not queue.
NoQueue(r) == TRUE

\* The run ahead has released its place, or there is none.
TurnCame(r) ==
  \/ order[1] = r
  \/ \E i \in 1 .. (Len(order) - 1) :
       order[i + 1] = r /\ order[i] \in released

\* process: the run joins the chain behind whatever was called before it.
Call(r) ==
  /\ ~Called(r)
  /\ order' = Append(order, r)
  /\ pc' = [pc EXCEPT ![r] = "queued"]
  /\ UNCHANGED <<members, closed, retiring, forgotten, released, closeVars,
                 startVars, threadVars, memberVars, outcome, uses, loopVars>>

\* turnAfter: called off while still queued.
CalledOff(r) ==
  /\ pc[r] = "queued"
  /\ aborted[r]
  /\ EndWith(r, "aborted")
  /\ UNCHANGED <<poolVars, startVars, threadVars, memberVars, uses, loopVars>>

\* process, finally: the place is given up after the run ahead has given up
\* its own.
Release(r) ==
  /\ pc[r] = "ended"
  /\ r \notin released
  /\ TurnCame(r)
  /\ released' = released \cup {r}
  /\ UNCHANGED <<members, closed, retiring, forgotten, order, closeVars,
                 startVars, threadVars, memberVars, runVars>>

\* The turn has come: run() and then ready() up to its first wait.
TakeTurn(r) ==
  /\ pc[r] = "queued"
  /\ TurnCame(r)
  /\ ~aborted[r]
  /\ \/ /\ closed
        /\ EndWith(r, "refused")
        /\ UNCHANGED <<members, startVars, threadVars, memberVars, uses>>
     \/ /\ ~closed
        /\ members # None
        /\ uses' = [uses EXCEPT ![r] = members]
        /\ pc' = [pc EXCEPT ![r] = "awaitMembers"]
        /\ UNCHANGED <<members, startVars, threadVars, memberVars, outcome>>
     \/ /\ ~closed
        /\ members = None
        /\ Start(r)
        /\ UNCHANGED outcome
  /\ UNCHANGED <<closed, retiring, forgotten, chainVars, closeVars, loopVars>>

\* ready() has returned: no elements, or the listeners are registered, the
\* first elements handed out, and the loop entered.
Enter(r) ==
  \/ /\ Count[r] = 0
     /\ EndWith(r, "ok")
     /\ NoDispatch
     /\ UNCHANGED <<members, retiring, th, mail, got, finished, discarding>>
  \/ /\ Count[r] > 0
     /\ DispatchAndLoop(r)

\* ready: the set awaited failed to start, or the pool was closed meanwhile.
NotReady(r) ==
  \/ /\ startState[uses[r]] = "rejected"
     /\ EndWith(r, "failed")
     /\ UNCHANGED <<members, retiring, threadVars, memberVars, uses, loopVars>>
  \/ /\ startState[uses[r]] = "fulfilled"
     /\ closed
     /\ EndWith(r, "refused")
     /\ UNCHANGED <<members, retiring, threadVars, memberVars, uses, loopVars>>

AllAlive(e) == \A s \in Slots : alive[e][s]

\* ready, after `await current`: a set with a dead worker is replaced.
MembersReady(r) ==
  LET e == uses[r] IN
  /\ pc[r] = "awaitMembers"
  /\ \/ NotReady(r)
     \/ /\ startState[e] = "fulfilled" /\ ~closed
        /\ AllAlive(e)
        /\ Enter(r)
        /\ UNCHANGED <<alive, uses, aborted, failure>>
     \/ /\ startState[e] = "fulfilled" /\ ~closed
        /\ ~AllAlive(e)
        /\ members' = IF members = e THEN None ELSE members
        /\ RetireWith(e)
        /\ pc' = [pc EXCEPT ![r] = "awaitRetire"]
        /\ UNCHANGED <<job, memberVars, outcome, uses, loopVars>>
  /\ UNCHANGED asideVars

\* Mutant: `closed` is not read again after the wait.
RetiredUnchecked(r) ==
  /\ pc[r] = "awaitRetire"
  /\ uses[r] \notin retiring
  /\ Start(r)
  /\ UNCHANGED <<closed, retiring, forgotten, chainVars, closeVars, outcome,
                 loopVars>>

\* ready, after `await retire(running)`: a fresh set is started.
Retired(r) ==
  /\ pc[r] = "awaitRetire"
  /\ uses[r] \notin retiring
  /\ \/ /\ closed
        /\ EndWith(r, "refused")
        /\ UNCHANGED <<members, startVars, threadVars, memberVars, uses>>
     \/ /\ ~closed
        /\ Start(r)
        /\ UNCHANGED outcome
  /\ UNCHANGED <<closed, retiring, forgotten, chainVars, closeVars, loopVars>>

\* ready, after `await starting`.
Started(r) ==
  /\ pc[r] = "awaitStart"
  /\ \/ NotReady(r)
     \/ /\ startState[uses[r]] = "fulfilled" /\ ~closed
        /\ Enter(r)
        /\ UNCHANGED <<alive, uses, aborted, failure>>
  /\ UNCHANGED asideVars

\* The loop resumes after a wake.
Resume(r) ==
  /\ pc[r] = "woken"
  /\ LoopOnly(r)
  /\ UNCHANGED <<asideVars, alive, uses, aborted, failure>>

\* The consumer asks for the next result.
Pull(r) ==
  /\ pc[r] = "yielded"
  /\ DispatchAndLoop(r)
  /\ UNCHANGED <<asideVars, alive, uses, aborted, failure>>

\* The consumer of a stream leaves it at a result.
Return(r) ==
  /\ r \in Streams
  /\ pc[r] = "yielded"
  /\ Finally(r, "abandoned")
  /\ NoDispatch
  /\ UNCHANGED <<asideVars, alive, uses, aborted, got, finished, failure>>

\* The finally block's wait is over.
CleanedUp(r) ==
  /\ pc[r] = "cleanup"
  /\ uses[r] \notin retiring
  /\ pc' = [pc EXCEPT ![r] = "ended"]
  /\ UNCHANGED <<poolVars, startVars, threadVars, memberVars, outcome, uses,
                 loopVars>>

AbortDiscards(r) == Listening(r) /\ Outstanding(r) # {}

\* The run's signal is aborted.  onAbort stops the workers at once, and wakes
\* the loop if it is waiting.
Abort(r) ==
  /\ r \in Signalled
  /\ ~aborted[r]
  /\ pc[r] # "ended"
  /\ aborted' = [aborted EXCEPT ![r] = TRUE]
  /\ IF AbortDiscards(r)
     THEN /\ members' = None
          /\ RetireWith(uses[r])
          /\ discarding' = [discarding EXCEPT ![r] = TRUE]
     ELSE UNCHANGED <<members, retiring, th, mail, discarding>>
  /\ pc' = IF pc[r] = "parked" THEN [pc EXCEPT ![r] = "woken"] ELSE pc
  /\ UNCHANGED <<asideVars, job, memberVars, outcome, uses, got, finished,
                 failure, handedOut>>

-----------------------------------------------------------------------------
(* What a worker sent is delivered to every handler listening to it.       *)

\* Promise reactions run before the next event is delivered.
ReactionsDone ==
  /\ \A e \in Runs : ~StartCanSettle(e)
  /\ \A r \in Runs :
       /\ pc[r] # "woken"
       /\ pc[r] = "awaitStart" =>
            startState[uses[r]] \notin {"fulfilled", "rejected"}

\* The run listening to set e hears message m of its worker s.
RunHears(e, s, m) ==
  \E r \in Runs :
    /\ Listening(r) /\ uses[r] = e
    /\ failure' = [failure EXCEPT ![r] =
                     @ \/ m.kind \in Failures \cup {"failed"}]
    /\ finished' = IF m.kind = "done"
                   THEN [finished EXCEPT ![r] = Append(@, Result(m))]
                   ELSE finished
    /\ busyWith' = IF m.kind \in {"done", "failed"}
                   THEN [busyWith EXCEPT ![e][s] = None] ELSE busyWith
    /\ pc' = IF pc[r] = "parked" /\ m.kind \in Failures \cup {"done", "failed"}
             THEN [pc EXCEPT ![r] = "woken"] ELSE pc

NobodyHears(e) ==
  /\ \A r \in Runs : ~(Listening(r) /\ uses[r] = e)
  /\ UNCHANGED <<busyWith, pc, finished, failure>>

\* start's own handler, while the set is starting and until it is answered.
StartHears(e, s, m) ==
  IF startState[e] = "pending" /\ s \notin loaded[e]
  THEN /\ loaded' = IF m.kind = "ready"
                    THEN [loaded EXCEPT ![e] = @ \cup {s}] ELSE loaded
       /\ startFailed' = IF m.kind \in Failures \cup {"broken"}
                         THEN [startFailed EXCEPT ![e] = TRUE]
                         ELSE startFailed
  ELSE UNCHANGED <<loaded, startFailed>>

Deliver(e, s) ==
  /\ mail[e][s] # <<>>
  /\ ReactionsDone
  /\ LET m == Head(mail[e][s]) IN
       /\ alive' = IF m.kind \in Failures /\ e \notin forgotten
                   THEN [alive EXCEPT ![e][s] = FALSE] ELSE alive
       /\ StartHears(e, s, m)
       /\ RunHears(e, s, m) \/ NobodyHears(e)
  /\ mail' = [mail EXCEPT ![e][s] = Tail(@)]
  /\ UNCHANGED <<poolVars, startState, th, job, outcome, uses, aborted, got,
                 handedOut, discarding>>

-----------------------------------------------------------------------------
(* close().                                                                *)

\* Mutant: what runs are still terminating is not waited for.
AwaitNothing == closing' = "awaitRetiring" /\ closeWaits' = {}

\* Promise.all([...retiring])
AwaitRetiring == closing' = "awaitRetiring" /\ closeWaits' = retiring

Close ==
  /\ closing = "none"
  /\ closed' = TRUE
  /\ members' = None
  /\ closeSet' = members
  /\ IF members # None
     THEN /\ closing' = "awaitStart"
          /\ UNCHANGED closeWaits
     ELSE /\ AwaitRetiring
  /\ UNCHANGED <<retiring, forgotten, chainVars, startVars, threadVars,
                 memberVars, runVars>>

\* Mutant: a start that failed is not caught.
CloseStartedUncaught ==
  /\ closing = "awaitStart"
  /\ startState[closeSet] = "fulfilled"
  /\ closing' = "terminating"
  /\ th' = StopThreads(closeSet)
  /\ mail' = StopMail(closeSet)
  /\ UNCHANGED <<members, closed, retiring, forgotten, chainVars, closeSet,
                 closeWaits, startVars, job, memberVars, runVars>>

\* The set it found has started, and is terminated; a start that failed has
\* terminated its own.
CloseStarted ==
  /\ closing = "awaitStart"
  /\ \/ /\ startState[closeSet] = "fulfilled"
        /\ closing' = "terminating"
        /\ th' = StopThreads(closeSet)
        /\ mail' = StopMail(closeSet)
        /\ UNCHANGED closeWaits
     \/ /\ startState[closeSet] = "rejected"
        /\ AwaitRetiring
        /\ UNCHANGED <<th, mail>>
  /\ UNCHANGED <<members, closed, retiring, forgotten, chainVars, closeSet,
                 startVars, job, memberVars, runVars>>

CloseTerminated ==
  /\ closing = "terminating"
  /\ Stopped(closeSet)
  /\ forgotten' = forgotten \cup {closeSet}
  /\ AwaitRetiring
  /\ UNCHANGED <<members, closed, retiring, chainVars, closeSet, startVars,
                 threadVars, memberVars, runVars>>

CloseSettles ==
  /\ closing = "awaitRetiring"
  /\ closeWaits \cap retiring = {}
  /\ closing' = "settled"
  /\ UNCHANGED <<members, closed, retiring, forgotten, chainVars, closeSet,
                 closeWaits, startVars, threadVars, memberVars, runVars>>

-----------------------------------------------------------------------------
\* What happens only if somebody outside the pool chooses it.
Outside ==
  \/ \E r \in Runs : Call(r) \/ Abort(r)
  \/ Close
  \/ \E e \in Runs, s \in Slots : ThreadDies(e, s) \/ ThreadExitsZero(e, s)

\* The pool's own reactions, in some order.
RunStep(r) ==
  \/ CalledOff(r) \/ Release(r) \/ TakeTurn(r) \/ MembersReady(r)
  \/ Retired(r) \/ Started(r) \/ Resume(r) \/ CleanedUp(r)
SetStep(e) ==
  RetireSettles(e) \/ StartFulfils(e) \/ StartFails(e) \/ StartRejects(e)
CloseStep == CloseStarted \/ CloseTerminated \/ CloseSettles

\* A worker and its thread.
ThreadStep(e, s) ==
  ThreadLoads(e, s) \/ ThreadAnswers(e, s) \/ ThreadStops(e, s) \/ Deliver(e, s)

Consume(r) == Pull(r) \/ Return(r)

Next ==
  \/ Outside
  \/ \E r \in Runs : RunStep(r) \/ SetStep(r) \/ Consume(r)
  \/ CloseStep
  \/ \E e \in Runs, s \in Slots : ThreadStep(e, s)

Spec == Init /\ [][Next]_vars

\* Promise reactions run, threads load, answer and stop, events arrive: while one
\* of these can happen, one does.  Which of them comes first is nobody's promise.
PoolStep ==
  \/ \E r \in Runs : RunStep(r) \/ SetStep(r)
  \/ CloseStep
  \/ \E e \in Runs, s \in Slots : ThreadStep(e, s)

PoolFairness == WF_vars(PoolStep)

\* Consumers need never read on.
FairSpec == Spec /\ PoolFairness

-----------------------------------------------------------------------------
(* Properties.                                                             *)

\* The threads of two sets never run side by side, so `workers` is the number
\* of threads and not a multiple of it: whoever starts a set has waited until
\* the one before was stopped (ready awaits retire; so do start and discard).
OneSetAtATime ==
  \A e, f \in Runs : LiveSet(e) /\ LiveSet(f) => e = f

InMail(e, s, kinds) ==
  \E i \in 1 .. Len(mail[e][s]) : mail[e][s][i].kind \in kinds

\* A run parked on `wake` is always going to be woken: some worker of its set
\* is working, or stopping, or has sent something the run reacts to.
NoStrandedRun ==
  \A r \in Runs : pc[r] = "parked" =>
    \E s \in Slots :
      \/ th[uses[r]][s] = "stopping"
      \/ th[uses[r]][s] = "up" /\ job[uses[r]][s] # None
      \/ InMail(uses[r], s, Failures \cup {"done", "failed"})

\* A run keeps only answers to elements it handed out itself, each once: the
\* positions on the wire start at zero in every run and tell no runs apart.
ResultsAreOwn ==
  \A r \in Runs :
    LET all == got[r] \o finished[r] IN
    /\ \A i \in 1 .. Len(all) : all[i].run = r /\ all[i].id < handedOut[r]
    /\ \A i, j \in 1 .. Len(all) : all[i] = all[j] => i = j

\* A member marked free has nothing in hand and no answer on its way, so no
\* element is ever posted to a worker that is still busy with another; and
\* between runs the workers kept for the next one are all free, as a run that
\* ends with elements out has given its workers up.
FreeMeansFree ==
  /\ \A e \in Runs, s \in Slots :
       (busyWith[e][s] = None /\ members = e) =>
         job[e][s] = None /\ ~InMail(e, s, {"done", "failed"})
  /\ (members # None /\ \A r \in Runs : ~Listening(r)) =>
       \A s \in Slots : busyWith[members][s] = None

\* Once close() has settled every worker is gone, including those of a run that
\* was called off or failed meanwhile.
CloseLeavesNoThread ==
  closing = "settled" => \A e \in Runs : ~LiveSet(e)

\* A failure of a worker always finds a listener: on Node an error event
\* without one is thrown in the main thread.
FailuresAreHeard ==
  \A e \in forgotten, s \in Slots : ~InMail(e, s, {"died"})

\* One set at a time, its members free when they are said to be, and listened to
\* for as long as they can fail.
SetsAreSound == OneSetAtATime /\ FreeMeansFree /\ FailuresAreHeard

\* A closed pool starts no thread.
ClosedStartsNothing ==
  [][closed => \A e \in Runs, s \in Slots :
       th[e][s] = "unborn" => th'[e][s] = "unborn"]_vars

\* Whatever fails, every call of map and stream settles, unless a consumer never
\* reads on (a run is called once and stays ended, so again and again nobody
\* waits), and so does close(); a run that is called off in the queue is
\* rejected although such a consumer is before it, and an abort stops the workers
\* still busy for one.
EveryCallSettles ==
  /\ \/ []<>(\A r \in Runs : pc[r] \in {"idle", "ended"})
     \/ <>[](\E q \in Runs : pc[q] = "yielded")
  /\ closed ~> closing = "settled"
  /\ \A r \in Signalled :
       /\ (pc[r] = "queued" /\ aborted[r]) ~> pc[r] = "ended"
       /\ (/\ pc[r] = "yielded" /\ aborted[r]
           /\ \E e \in Runs, s \in Slots : e = uses[r] /\ job[e][s] # None)
            ~> \A e \in Runs : e = uses[r] => ~LiveSet(e)

-----------------------------------------------------------------------------
(* The pool implements the abstract queue of runs.                         *)

RunStatus == [r \in Runs |->
  IF pc[r] = "idle" THEN "idle"
  ELSE IF pc[r] = "queued" THEN "waiting"
  ELSE IF pc[r] # "ended" THEN "active"
  ELSE IF outcome[r] = "ok" THEN "resolved" ELSE "rejected"]

\* The positions whose results a run's consumer has.
Consumed == [r \in Runs |-> {got[r][i].id : i \in 1 .. Len(got[r])}]

Queue == INSTANCE RunQueue WITH
  status <- RunStatus, calls <- order, results <- Consumed, shut <- closed

\* Runs are served one at a time in the order of their calls, also when one of
\* them is called off in the queue; results are given once; a run that resolves
\* gave them all; nothing begins after close().
ImplementsRunQueue == Queue!Spec
=============================================================================

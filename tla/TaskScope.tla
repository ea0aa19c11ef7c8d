------------------------------ MODULE TaskScope ------------------------------
(***************************************************************************)
(* A scope of tasks that start together and end together: createTaskScope  *)
(* (packages/parallel/src/task/index.ts) with its queue of waiting tasks   *)
(* (src/task/queue.ts).  A step is one call, or one promise reaction: the  *)
(* gap between a task's rejection and the reaction that reads it is there. *)
(***************************************************************************)
EXTENDS Naturals, Sequences, FiniteSets

CONSTANTS
  Count,         \* how many tasks are spawned; task t is the t-th of them
  Limit,         \* how many may run at once
  CompactAfter,  \* how far the head of the queue may move before it is cut
  Joins,         \* calls of join
  Disposals      \* calls of the scope's async dispose

ASSUME ScopeAssumption ==
  /\ Limit \in Nat \ {0}
  /\ CompactAfter \in Nat
  /\ Count \in Nat
  /\ Joins \cap Disposals = {}

Tasks == 1 .. Count

NoTask == 0

Callers == Joins \cup Disposals

VARIABLES
  state,          \* what each task is doing
  outcome,        \* how its promise settled
  cancelled,      \* the tasks whose own token is cancelled
  entries, head,  \* the waiting queue; `start` is null once state is past it
  running, outstanding,
  scopeCancelled, \* the scope's source is cancelled
  failure,        \* the task whose failure called the scope off, or NoTask
  reported, closed,
  ending,         \* the wait that join and disposal share
  awaiting,       \* who waits for the end, in the order they asked
  report          \* what each of them was told

queueVars == <<entries, head>>
endVars == <<reported, closed, awaiting, report>>
vars == <<state, outcome, cancelled, queueVars, running, outstanding,
          scopeCancelled, failure, ending, endVars>>

States == {"unborn", "waiting", "begun", "working", "resolved", "threw",
           "read", "done"}

TypeOK ==
  /\ state \in [Tasks -> States]
  /\ outcome \in [Tasks -> {"pending", "value", "error", "cancelled"}]
  /\ cancelled \subseteq Tasks
  /\ entries \in Seq(Tasks)
  /\ head \in Nat
  /\ running \in Nat
  /\ outstanding \in Nat
  /\ scopeCancelled \in BOOLEAN
  /\ failure \in Tasks \cup {NoTask}
  /\ reported \in BOOLEAN
  /\ closed \in BOOLEAN
  /\ ending \in {"none", "parked", "woken", "over"}
  /\ awaiting \in Seq(Callers)
  /\ report \in [Callers -> {"none", "ok", "failure", "cancelled"}]

Init ==
  /\ state = [t \in Tasks |-> "unborn"]
  /\ outcome = [t \in Tasks |-> "pending"]
  /\ cancelled = {}
  /\ entries = <<>>
  /\ head = 0
  /\ running = 0
  /\ outstanding = 0
  /\ scopeCancelled = FALSE
  /\ failure = NoTask
  /\ reported = FALSE
  /\ closed = FALSE
  /\ ending = "none"
  /\ awaiting = <<>>
  /\ report = [c \in Callers |-> "none"]

-----------------------------------------------------------------------------
(* The waiting queue.                                                      *)

\* The places of a queue, past its head, whose entry is still to be started.
Live(q, h, st) == {i \in (h + 1) .. Len(q) : st[q[i]] = "waiting"}

\* Mutant: the last to come is the first to be started.
StartedNewestFirst(q, h, st, run) ==
  {i \in Live(q, h, st) :
     run + Cardinality({j \in Live(q, h, st) : j > i}) < Limit}

\* startWhile, given how many tasks run: the first live entries, as many as
\* there is room for.
Started(q, h, st, run) ==
  {i \in Live(q, h, st) :
     run + Cardinality({j \in Live(q, h, st) : j < i}) < Limit}

\* Where it leaves the head: before the first live entry it did not start,
\* past every withdrawn one before that.
HeadAfter(q, h, st, run) ==
  LET left == Live(q, h, st) \ Started(q, h, st, run) IN
  IF left = {} THEN Len(q)
  ELSE (CHOOSE i \in left : \A j \in left : i <= j) - 1

\* compact: the entries in front of the head are let go when the queue is
\* empty, or when they are both many and the larger part.
Compact(q, h) ==
  IF h = Len(q) THEN <<>>
  ELSE IF h < CompactAfter \/ h * 2 < Len(q) THEN q
  ELSE SubSeq(q, h + 1, Len(q))

\* pump, once the queue is q, the states are st and run tasks are running.
Pump(q, st, run) ==
  LET begun == {q[i] : i \in Started(q, head, st, run)}
      h == HeadAfter(q, head, st, run)
  IN /\ state' = [t \in Tasks |-> IF t \in begun THEN "begun" ELSE st[t]]
     /\ running' = run + Cardinality(begun)
     /\ entries' = Compact(q, h)
     /\ head' = IF Compact(q, h) = q THEN h ELSE 0

-----------------------------------------------------------------------------
(* Counting tasks, and calling them off.                                   *)

\* Mutant: the wait is woken by every task that settles but the last.
SettleWakingEarly(n) ==
  /\ outstanding' = outstanding - n
  /\ ending' = IF n > 0 /\ outstanding > n /\ ending = "parked"
               THEN "woken" ELSE ending

\* settled, called n times: the count going to zero wakes whoever waits for it.
Settle(n) ==
  /\ outstanding' = outstanding - n
  /\ ending' = IF n > 0 /\ outstanding = n /\ ending = "parked"
               THEN "woken" ELSE ending

\* The tasks whose place in the queue is given up when these are called off:
\* one already called off before it was queued keeps its place.
Withdrawn(called) == {t \in called \ cancelled : state[t] = "waiting"}

\* The tokens of these tasks are cancelled; the waiting ones settle at once.
CallOff(called) ==
  LET gone == Withdrawn(called) IN
  /\ cancelled' = cancelled \cup called
  /\ state' = [t \in Tasks |-> IF t \in gone THEN "done" ELSE state[t]]
  /\ outcome' = [t \in Tasks |-> IF t \in gone THEN "cancelled" ELSE outcome[t]]
  /\ Settle(Cardinality(gone))

\* The tasks whose source still follows the scope's.
Following == {t \in Tasks : state[t] \notin {"unborn", "done"}}

\* source.cancel: only the first call counts.
CancelSource ==
  IF scopeCancelled
  THEN UNCHANGED <<scopeCancelled, cancelled, state, outcome, outstanding,
                   ending>>
  ELSE scopeCancelled' = TRUE /\ CallOff(Following)

\* scope.cancel, or the token the scope was given being cancelled.
CancelScope ==
  /\ ~scopeCancelled
  /\ CancelSource
  /\ UNCHANGED <<queueVars, running, failure, endVars>>

\* task.cancel
CancelTask(t) ==
  /\ state[t] # "unborn"
  /\ t \notin cancelled
  /\ CallOff({t})
  /\ UNCHANGED <<queueVars, running, scopeCancelled, failure, endVars>>

-----------------------------------------------------------------------------
(* One task.                                                               *)

\* spawn: the task joins the back of the queue, and what has room is started.
\* In a scope already called off its token starts cancelled.
Spawn(t) ==
  /\ state[t] = "unborn"
  /\ \A u \in 1 .. (t - 1) : state[u] # "unborn"
  /\ ~closed
  /\ cancelled' = IF scopeCancelled THEN cancelled \cup {t} ELSE cancelled
  /\ outstanding' = outstanding + 1
  /\ Pump(Append(entries, t), [state EXCEPT ![t] = "waiting"], running)
  /\ UNCHANGED <<outcome, scopeCancelled, failure, ending, endVars>>

\* Mutant: the work is called without a look at its token.
BeginUnchecked(t) ==
  /\ state[t] = "begun"
  /\ state' = [state EXCEPT ![t] = "working"]
  /\ UNCHANGED <<outcome, cancelled, queueVars, running, outstanding,
                 scopeCancelled, failure, ending, endVars>>

\* The microtask of begin: the work is called, unless it was called off first.
Begin(t) ==
  /\ state[t] = "begun"
  /\ state' = [state EXCEPT ![t] = IF t \in cancelled THEN "threw"
                                   ELSE "working"]
  /\ UNCHANGED <<outcome, cancelled, queueVars, running, outstanding,
                 scopeCancelled, failure, ending, endVars>>

\* The work settles.
Work(t) ==
  /\ state[t] = "working"
  /\ \E s \in {"resolved", "threw"} : state' = [state EXCEPT ![t] = s]
  /\ UNCHANGED <<outcome, cancelled, queueVars, running, outstanding,
                 scopeCancelled, failure, ending, endVars>>

\* The reaction to a value.
ReadValue(t) ==
  /\ state[t] = "resolved"
  /\ state' = [state EXCEPT ![t] = "read"]
  /\ outcome' = [outcome EXCEPT ![t] = "value"]
  /\ UNCHANGED <<cancelled, queueVars, running, outstanding, scopeCancelled,
                 failure, ending, endVars>>

\* The reaction to a rejection: the first of a task nobody called off is the
\* scope's failure, and calls every other task off.
Fails(t) == t \notin cancelled /\ failure = NoTask

ReadError(t) ==
  /\ state[t] = "threw"
  /\ LET rest == IF Fails(t) /\ ~scopeCancelled THEN Following ELSE {}
         gone == Withdrawn(rest)
     IN /\ failure' = IF Fails(t) THEN t ELSE failure
        /\ scopeCancelled' = (scopeCancelled \/ Fails(t))
        /\ cancelled' = cancelled \cup rest
        /\ state' = [u \in Tasks |-> IF u = t THEN "read"
                                     ELSE IF u \in gone THEN "done"
                                     ELSE state[u]]
        /\ outcome' = [u \in Tasks |->
             IF u = t THEN IF t \in cancelled THEN "cancelled" ELSE "error"
             ELSE IF u \in gone THEN "cancelled" ELSE outcome[u]]
        /\ Settle(Cardinality(gone))
  /\ UNCHANGED <<queueVars, running, endVars>>

\* finally: its place is free, the next are started, and it is counted out.
Finish(t) ==
  /\ state[t] = "read"
  /\ Pump(entries, [state EXCEPT ![t] = "done"], running - 1)
  /\ Settle(1)
  /\ UNCHANGED <<outcome, cancelled, scopeCancelled, failure, endVars>>

-----------------------------------------------------------------------------
(* Waiting for the end.                                                    *)

\* end, for a caller that finds n tasks unsettled: the first call starts the
\* wait, and an empty scope closes in that call.
End(n) ==
  IF ending # "none" THEN ending' = ending /\ closed' = closed
  ELSE IF n > 0 THEN ending' = "parked" /\ closed' = closed
  ELSE ending' = "over" /\ closed' = TRUE

Asks(c) ==
  /\ report[c] = "none"
  /\ \A i \in 1 .. Len(awaiting) : awaiting[i] # c
  /\ awaiting' = Append(awaiting, c)
  /\ UNCHANGED <<queueVars, running, failure, reported, report>>

\* join is called.
Join(c) ==
  /\ c \in Joins
  /\ Asks(c)
  /\ End(outstanding)
  /\ UNCHANGED <<state, outcome, cancelled, outstanding, scopeCancelled>>

\* The scope is disposed of: what is unsettled is called off first, and what
\* that settles at once is already counted out when end looks.
Dispose(c) ==
  /\ c \in Disposals
  /\ Asks(c)
  /\ LET called == IF outstanding > 0 /\ ~scopeCancelled THEN Following ELSE {}
         gone == Withdrawn(called)
     IN /\ scopeCancelled' = (scopeCancelled \/ outstanding > 0)
        /\ cancelled' = cancelled \cup called
        /\ state' = [t \in Tasks |-> IF t \in gone THEN "done" ELSE state[t]]
        /\ outcome' =
             [t \in Tasks |-> IF t \in gone THEN "cancelled" ELSE outcome[t]]
        /\ outstanding' = outstanding - Cardinality(gone)
        /\ IF ending = "parked" /\ gone # {} /\ outstanding' = 0
           THEN ending' = "woken" /\ closed' = closed
           ELSE End(outstanding')

\* Mutant: the wait takes its waking for the end of the last task.
WakeUnchecked ==
  /\ ending = "woken"
  /\ ending' = "over"
  /\ closed' = TRUE
  /\ UNCHANGED <<state, outcome, cancelled, queueVars, running, outstanding,
                 scopeCancelled, failure, reported, awaiting, report>>

\* The wait resumes: another task may have come meanwhile.  The scope closes
\* in the step that finds it empty.
Wake ==
  /\ ending = "woken"
  /\ IF outstanding > 0 THEN ending' = "parked" /\ closed' = closed
                        ELSE ending' = "over" /\ closed' = TRUE
  /\ UNCHANGED <<state, outcome, cancelled, queueVars, running, outstanding,
                 scopeCancelled, failure, reported, awaiting, report>>

\* What a caller is told once the scope has ended.
Answer(c) ==
  IF failure # NoTask /\ (c \in Joins \/ ~reported) THEN "failure"
  ELSE IF c \in Joins /\ scopeCancelled THEN "cancelled"
  ELSE "ok"

\* The first of the callers still waiting resumes.
Return ==
  /\ ending = "over"
  /\ awaiting # <<>>
  /\ report' = [report EXCEPT ![Head(awaiting)] = Answer(Head(awaiting))]
  /\ reported' = TRUE
  /\ awaiting' = Tail(awaiting)
  /\ UNCHANGED <<state, outcome, cancelled, queueVars, running, outstanding,
                 scopeCancelled, failure, closed, ending>>

-----------------------------------------------------------------------------

\* What the engine goes on to do by itself once a task's work has settled.
Reaction(t) == Begin(t) \/ ReadValue(t) \/ ReadError(t) \/ Finish(t)

Next ==
  \/ CancelScope
  \/ Wake
  \/ Return
  \/ \E t \in Tasks : Spawn(t) \/ CancelTask(t) \/ Work(t) \/ Reaction(t)
  \/ \E c \in Callers : Join(c) \/ Dispose(c)

Spec == Init /\ [][Next]_vars

\* Promise reactions run; and every task's work settles, which a scope can
\* only wait for.
Fairness ==
  /\ WF_vars(Wake)
  /\ WF_vars(Return)
  /\ \A t \in Tasks : WF_vars(Work(t)) /\ WF_vars(Reaction(t))

FairSpec == Spec /\ Fairness

-----------------------------------------------------------------------------
(* Properties.                                                             *)

Running == {t \in Tasks :
              state[t] \in {"begun", "working", "resolved", "threw", "read"}}

Unsettled == {t \in Tasks : state[t] \notin {"unborn", "done"}}

\* The limit holds of what really runs, and nobody waits while there is room:
\* the counters agree with the tasks whatever is called off, and a task still
\* waiting is in the queue past its head, so that it will be found.
FullWhileAnyoneWaits ==
  /\ Cardinality(Running) <= Limit
  /\ running = Cardinality(Running)
  /\ \A t \in Tasks : state[t] = "waiting" =>
       /\ running = Limit
       /\ \E i \in (head + 1) .. Len(entries) : entries[i] = t

\* Tasks start in the order they were spawned: while one waits, of those
\* spawned after it some may have been called off but none has been started.
NobodyOvertakes ==
  \A t, u \in Tasks :
    t < u /\ state[t] = "waiting" =>
      \/ state[u] \in {"unborn", "waiting"}
      \/ state[u] = "done" /\ u \in cancelled

\* Room is used, in the order of the calls.
QueueIsServed == TypeOK /\ FullWhileAnyoneWaits /\ NobodyOvertakes

\* A scope that has closed has no task left, and has nobody's answer ready
\* before it has closed: a task that the last one's end caused to be spawned
\* is refused or waited for.
NoTaskOutlivesTheScope ==
  /\ closed => Unsettled = {} /\ outstanding = 0
  /\ \A c \in Callers : report[c] # "none" => closed

\* The first failure of a task nobody called off calls every other task off,
\* those waiting and those spawned later too, and is the one the scope keeps.
FirstFailureStands ==
  [][/\ failure' # failure => failure = NoTask /\ failure' \notin cancelled
     /\ failure' # NoTask => Unsettled' \subseteq cancelled']_vars

\* Once the scope is called off no work begins, not even that of a task
\* already started or spawned afterwards.
NoWorkOnceCalledOff ==
  [][\A t \in Tasks : state[t] # "working" /\ state'[t] = "working" =>
       ~scopeCancelled]_vars

\* A failure is never silent: the first to hear how the scope ended hears of
\* it, and so does every join; a disposal does not repeat it.
FailureIsTold ==
  [][/\ \A c \in Callers : report'[c] # "none" /\ failure # NoTask =>
          /\ c \in Joins => report'[c] = "failure"
          /\ \E d \in Callers : report'[d] = "failure"
     /\ \A d \in Disposals : report[d] # "failure" /\ report'[d] = "failure" =>
          \A c \in Callers : report[c] = "none"]_vars

\* What a failure does to the others, and who hears of it.
FailureEndsTheScope == FirstFailureStands /\ NoWorkOnceCalledOff /\ FailureIsTold

\* Whoever waits for the scope to end is answered, and every task spawned
\* settles, called off or not, started or not.
EveryoneIsAnswered ==
  /\ \A c \in Callers :
       (\E i \in 1 .. Len(awaiting) : awaiting[i] = c) ~> report[c] # "none"
  /\ \A t \in Tasks : state[t] # "unborn" ~> outcome[t] # "pending"
=============================================================================

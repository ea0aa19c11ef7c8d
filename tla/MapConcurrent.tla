---------------------------- MODULE MapConcurrent ----------------------------
(***************************************************************************)
(* mapConcurrent (packages/collections/src/functions/concurrency): a       *)
(* projection over an asynchronous source, several elements at a time.     *)
(* The engine's queue of microtasks is explicit, because whether the loop  *)
(* can park for ever depends on the order of jobs in it.  What settles a   *)
(* promise from outside (the source, a selector, the consumer) may do so   *)
(* between any two jobs.                                                   *)
(***************************************************************************)
EXTENDS Naturals, Sequences, FiniteSets

CONSTANTS
  Count,  \* how many elements the source has
  Limits  \* the limits asked for

ASSUME MapAssumption ==
  /\ Count \in Nat
  /\ Limits \subseteq Nat \ {0}

Positions == 0 .. (Count - 1)

None == Count  \* no position

VARIABLES
  options,    \* the limit, and whether results keep the source's order
  pc,         \* where the generator is
  jobs,       \* the microtasks queued
  answer,     \* what the source last answered
  task,       \* what each selector's call is doing
  arrived, finished, running, failure, started, delivered, exhausted,
  outcome,    \* how the traversal ended
  handed,     \* the positions handed over, in order
  settled,    \* the positions whose result arrived, in order
  returned    \* how often the source's return was called

workVars == <<arrived, finished, running, failure, task, settled>>
countVars == <<started, delivered, exhausted>>
endVars == <<outcome, handed, returned>>
vars == <<options, pc, jobs, answer, workVars, countVars, endVars>>

concurrency == options.concurrency

ordered == options.ordered

Loop == <<"loop", None>>
Settling(p) == <<"settling", p>>
Deleting(p) == <<"deleting", p>>

Jobs == {Loop} \cup {Settling(p) : p \in Positions} \cup {Deleting(p) : p \in Positions}

TypeOK ==
  /\ options \in [concurrency : Limits, ordered : BOOLEAN]
  /\ pc \in {"start", "pulling", "filled", "yielding", "yielded", "parked",
             "woken", "draining", "closing", "done"}
  /\ jobs \in Seq(Jobs)
  /\ answer \in {"none", "item", "done", "throws"}
  /\ task \in [Positions -> {"none", "running", "value", "error", "over"}]
  /\ arrived \subseteq Positions
  /\ finished \in Seq(Positions)
  /\ running \subseteq Positions
  /\ failure \in Positions \cup {None}
  /\ started \in 0 .. Count
  /\ delivered \in 0 .. started
  /\ exhausted \in BOOLEAN
  /\ outcome \in {"none", "ended", "failed", "source", "left"}
  /\ handed \in Seq(Positions)
  /\ settled \in Seq(Positions)
  /\ returned \in 0 .. 1

Init ==
  /\ options \in [concurrency : Limits, ordered : BOOLEAN]
  /\ pc = "start"
  /\ jobs = <<>>
  /\ answer = "none"
  /\ task = [p \in Positions |-> "none"]
  /\ arrived = {}
  /\ finished = <<>>
  /\ running = {}
  /\ failure = None
  /\ started = 0
  /\ delivered = 0
  /\ exhausted = FALSE
  /\ outcome = "none"
  /\ handed = <<>>
  /\ settled = <<>>
  /\ returned = 0

-----------------------------------------------------------------------------

\* Mutant: the limit is measured by what is running.
WantsByRunning(over, fails, out, going) ==
  ~over /\ fails = None /\ Cardinality(going) < concurrency

\* fill goes on: the limit counts what was pulled and not yet handed over.
Wants(over, fails, out, going) ==
  ~over /\ fails = None /\ out < concurrency

\* fill, with jobs q queued before it: it asks the source, or it returns and
\* the loop goes on one job later.
Fill(fails, out, going, q) ==
  IF Wants(exhausted, fails, out, going)
  THEN pc' = "pulling" /\ jobs' = q
  ELSE pc' = "filled" /\ jobs' = Append(q, Loop)

\* The consumer asks for the first result, or for the next.
Ask ==
  /\ pc \in {"start", "yielded"}
  /\ Fill(failure, started - delivered, running, jobs)
  /\ UNCHANGED <<options, answer, workVars, countVars, endVars>>

\* The consumer stops: nothing was begun, or everything is ended first.
Leave ==
  /\ pc \in {"start", "yielded"}
  /\ pc' = IF pc = "start" THEN "done" ELSE "draining"
  /\ outcome' = "left"
  /\ UNCHANGED <<options, jobs, answer, workVars, countVars, handed, returned>>

\* The source settles the promise of iterator.next.
SourceAnswers ==
  /\ pc = "pulling"
  /\ answer = "none"
  /\ answer' \in {IF started < Count THEN "item" ELSE "done", "throws"}
  /\ jobs' = Append(jobs, Loop)
  /\ UNCHANGED <<options, pc, workVars, countVars, endVars>>

\* A selector's promise settles.
SelectorSettles(p) ==
  /\ task[p] = "running"
  /\ \E how \in {"value", "error"} : task' = [task EXCEPT ![p] = how]
  /\ jobs' = Append(jobs, Settling(p))
  /\ UNCHANGED <<options, pc, answer, arrived, finished, running, failure, settled,
                 countVars, endVars>>

-----------------------------------------------------------------------------
(* The jobs.                                                               *)

\* The position the next element held in the source.
Position == started

\* start: the element's work begins; a selector may throw in the very call,
\* and its task is over before anything awaits.
Starts ==
  /\ answer = "item"
  /\ LET p == Position IN
     /\ started' = started + 1
     /\ running' = running \cup {p}
     /\ \/ /\ task' = [task EXCEPT ![p] = "running"]
           /\ failure' = failure
           /\ Fill(failure, started + 1 - delivered, running', Tail(jobs))
        \/ /\ task' = [task EXCEPT ![p] = "over"]
           /\ failure' = IF failure = None THEN p ELSE failure
           /\ Fill(failure', started + 1 - delivered, running',
                   Append(Tail(jobs), Deleting(p)))
  /\ UNCHANGED <<options, arrived, finished, settled, delivered, exhausted, endVars>>

\* The source has no more: fill returns.
Exhausts ==
  /\ answer = "done"
  /\ exhausted' = TRUE
  /\ pc' = "filled"
  /\ jobs' = Append(Tail(jobs), Loop)
  /\ UNCHANGED <<options, workVars, started, delivered, endVars>>

\* The source fails: the traversal ends on its error.
SourceThrows ==
  /\ answer = "throws"
  /\ outcome' = "source"
  /\ pc' = "draining"
  /\ jobs' = Tail(jobs)
  /\ UNCHANGED <<options, workVars, countVars, handed, returned>>

\* fill resumes with the source's answer.
Pulled ==
  /\ pc = "pulling"
  /\ answer' = "none"
  /\ Starts \/ Exhausts \/ SourceThrows

\* deliverable: the position ready to be handed over.
Deliverable ==
  {p \in arrived : IF ordered THEN p = delivered
                   ELSE finished # <<>> /\ p = Head(finished)}

\* Nothing to hand over, and nothing left that could produce any.
NothingLeft == exhausted /\ running = {}

\* Mutant: what has arrived is handed over before a failure is looked at.
BrokenAtLast == failure # None /\ Deliverable = {}

\* The loop has a failure to end on.
Broken == failure # None

\* One turn of the loop: it throws, hands over, ends, or parks.
Turn ==
  /\ pc \in {"filled", "woken"}
  /\ \/ /\ Broken
        /\ pc' = "draining"
        /\ outcome' = "failed"
        /\ jobs' = Tail(jobs)
        /\ UNCHANGED <<options, arrived, finished, delivered, handed>>
     \/ /\ ~Broken
        /\ \E p \in Deliverable :
             /\ arrived' = arrived \ {p}
             /\ handed' = Append(handed, p)
        /\ finished' = IF ordered THEN finished ELSE Tail(finished)
        /\ delivered' = delivered + 1
        /\ pc' = "yielding"
        /\ jobs' = Append(Tail(jobs), Loop)
        /\ UNCHANGED <<outcome>>
     \/ /\ ~Broken /\ Deliverable = {}
        /\ pc' = IF NothingLeft THEN "draining" ELSE "parked"
        /\ outcome' = IF NothingLeft THEN "ended" ELSE outcome
        /\ jobs' = Tail(jobs)
        /\ UNCHANGED <<options, arrived, finished, delivered, handed>>
  /\ UNCHANGED <<options, answer, running, failure, task, settled, started, exhausted,
                 returned>>

\* yield waits one job for its value, then answers the consumer.
Yield ==
  /\ pc = "yielding"
  /\ pc' = "yielded"
  /\ jobs' = Tail(jobs)
  /\ UNCHANGED <<options, answer, workVars, countVars, endVars>>

\* Mutant: a selector that fails does not release the loop.
NotifiesValue(how) == pc = "parked" /\ how = "value"

\* notify: the loop is waiting.
Notifies(how) == pc = "parked"

\* The body of a task resumes; then the loop, and after it the reaction that
\* takes the task off the set, have their jobs.
TaskBody(p) ==
  /\ task' = [task EXCEPT ![p] = "over"]
  /\ IF task[p] = "value"
     THEN /\ arrived' = arrived \cup {p}
          /\ finished' = Append(finished, p)
          /\ settled' = Append(settled, p)
          /\ failure' = failure
     ELSE /\ failure' = IF failure = None THEN p ELSE failure
          /\ UNCHANGED <<options, arrived, finished, settled>>
  /\ pc' = IF Notifies(task[p]) THEN "woken" ELSE pc
  /\ jobs' = Tail(jobs) \o (IF Notifies(task[p]) THEN <<Loop>> ELSE <<>>)
                        \o <<Deleting(p)>>
  /\ UNCHANGED <<options, answer, running, countVars, endVars>>

Delete(p) ==
  /\ running' = running \ {p}
  /\ jobs' = Tail(jobs)
  /\ UNCHANGED <<options, pc, answer, arrived, finished, failure, task, settled,
                 countVars, endVars>>

\* The engine runs the first job of its queue.
RunJob ==
  /\ jobs # <<>>
  /\ \/ Head(jobs) = Loop /\ (Pulled \/ Turn \/ Yield)
     \/ \E p \in Positions :
          \/ Head(jobs) = Settling(p) /\ TaskBody(p)
          \/ Head(jobs) = Deleting(p) /\ Delete(p)

-----------------------------------------------------------------------------
(* The end.                                                                *)

\* Mutant: nobody waits for what is running.
DrainAtOnce ==
  /\ pc = "draining"
  /\ pc' = "closing"
  /\ running' = {}
  /\ UNCHANGED <<options, jobs, answer, arrived, finished, failure, task, settled,
                 countVars, endVars>>

\* drain: everything still running has settled.
Drain ==
  /\ pc = "draining"
  /\ \A p \in running : task[p] = "over"
  /\ pc' = "closing"
  /\ running' = {}
  /\ UNCHANGED <<options, jobs, answer, arrived, finished, failure, task, settled,
                 countVars, endVars>>

\* iterator.return settles, and the generator is over.
Close ==
  /\ pc = "closing"
  /\ pc' = "done"
  /\ returned' = returned + 1
  /\ UNCHANGED <<options, jobs, answer, workVars, countVars, outcome, handed>>

Next ==
  \/ Ask \/ Leave \/ SourceAnswers \/ RunJob \/ Drain \/ Close
  \/ \E p \in Positions : SelectorSettles(p)

Spec == Init /\ [][Next]_vars

\* Jobs run; the source answers and selectors settle, which the traversal can
\* only wait for.  Nothing is assumed of the consumer.
Fairness ==
  /\ WF_vars(RunJob)
  /\ WF_vars(SourceAnswers)
  /\ WF_vars(Drain)
  /\ WF_vars(Close)
  /\ \A p \in Positions : WF_vars(SelectorSettles(p))

FairSpec == Spec /\ Fairness

-----------------------------------------------------------------------------
(* Properties.                                                             *)

\* Results come in the order asked for: that of the source, or the one in
\* which they arrived; and none comes twice or is passed over.
HandedInOrder ==
  IF ordered
  THEN \A i \in 1 .. Len(handed) : handed[i] = i - 1
  ELSE handed = SubSeq(settled, 1, Len(handed))

\* What is pulled and not handed over never outgrows the limit, however fast
\* selectors answer and however slow the consumer is.
BufferIsBounded ==
  started - Len(handed) <= concurrency

\* In order, and within the limit.
HandsOverInOrder == TypeOK /\ HandedInOrder /\ BufferIsBounded

\* A traversal that ends by itself has handed over every element, and nothing
\* failed; however it ends, by then no selector is running, and the source was
\* closed once if it was ever opened.
EndsCleanly ==
  /\ outcome = "ended" => Len(handed) = Count /\ failure = None /\ exhausted
  /\ pc = "done" =>
       /\ \A p \in Positions : task[p] \in {"none", "over"}
       /\ returned = IF handed = <<>> /\ started = 0 /\ outcome = "left" THEN 0 ELSE 1

\* Once a selector has failed, no later failure of a selector takes its place,
\* nothing more is handed over, the source is not asked again, and the traversal
\* does not end as if it were whole.  An answer of the source that was on its way
\* still counts: a selector is begun on one last element (:156), or the source's
\* own error is what the traversal ends on (:149).  docs/concurrency.md:126-128
\* promises more than this: "The sequence rejects with the first error,
\* and: 1. No further work is started".
FirstFailureEndsIt ==
  [][failure # None =>
       /\ failure' = failure /\ handed' = handed
       /\ pc' = "pulling" => pc = "pulling"
       /\ started' # started => pc = "pulling" /\ pc' = "filled"
       /\ outcome' # outcome =>
            \/ outcome' \in {"failed", "left"}
            \/ outcome' = "source" /\ pc = "pulling" /\ answer = "throws"]_vars

\* A consumer that asked is answered: with a result, the end, or an error.
EveryAskIsAnswered ==
  pc \notin {"start", "yielded", "done"} ~> pc \in {"yielded", "done"}
=============================================================================

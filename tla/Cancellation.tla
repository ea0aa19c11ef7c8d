---------------------------- MODULE Cancellation ----------------------------
(***************************************************************************)
(* Sources of cancellation that follow one another                         *)
(* (packages/parallel/src/cancellation/index.ts), over the platform's      *)
(* AbortController.  All of it is synchronous, so the state is a call      *)
(* stack: the code that uses it runs when the stack is empty, or inside a  *)
(* handler that a cancellation has called, and may call anything there.    *)
(***************************************************************************)
EXTENDS Naturals, Sequences

CONSTANTS
  Count,         \* how many sources are created; source s is the s-th of them
  Handlers       \* the handlers given to onCancelled

ASSUME CancellationAssumption ==
  /\ Count \in Nat
  /\ Handlers \cap (0 .. Count) = {}

Sources == 1 .. Count

NoSource == 0

VARIABLES
  created,      \* how many sources there are
  parent,       \* whom each was created to follow
  following,    \* the sources that have not been disposed of
  reason,       \* whose call of cancel aborted it, NoSource while live
  asked,        \* the sources whose own cancel was called
  listeners,    \* the listeners of each signal: sources that follow, handlers
  on,           \* where each handler is registered
  calls,        \* how often each handler was called
  propagating,  \* null, or the children waiting their turn
  stack         \* the calls in progress, the latest first

sourceVars == <<created, parent, following>>
handlerVars == <<on, calls>>
vars == <<sourceVars, reason, asked, listeners, handlerVars, propagating, stack>>

\* No list of steps.
null == <<<<NoSource, NoSource>>>>

Idle == [kind |-> "idle", of |-> NoSource]
Aborting(s) == [kind |-> "abort", of |-> s]
Draining == [kind |-> "drain", of |-> NoSource]
Handling(h) == [kind |-> "handler", of |-> h]

Frames == {Aborting(s) : s \in Sources} \cup {Draining} \cup
          {Handling(h) : h \in Handlers}

Steps == Sources \X Sources  \* <<who, with whose reason>>

TypeOK ==
  /\ created \in 0 .. Count
  /\ parent \in [Sources -> 0 .. Count]
  /\ following \subseteq Sources
  /\ reason \in [Sources -> 0 .. Count]
  /\ asked \subseteq Sources
  /\ listeners \in [Sources -> Seq(Sources \cup Handlers)]
  /\ on \in [Handlers -> 0 .. Count]
  /\ calls \in [Handlers -> 0 .. 1]
  /\ propagating = null \/ propagating \in Seq(Steps)
  /\ stack \in Seq(Frames)

Init ==
  /\ created = 0
  /\ parent = [s \in Sources |-> NoSource]
  /\ following = {}
  /\ reason = [s \in Sources |-> NoSource]
  /\ asked = {}
  /\ listeners = [s \in Sources |-> <<>>]
  /\ on = [h \in Handlers |-> NoSource]
  /\ calls = [h \in Handlers |-> 0]
  /\ propagating = null
  /\ stack = <<>>

-----------------------------------------------------------------------------

isCancelled(s) == reason[s] # NoSource

\* The caller's own code is running: at the top, or in a handler.
Top == IF stack = <<>> THEN Idle ELSE Head(stack)

InCallersCode == Top.kind \in {"idle", "handler"}

\* removeEventListener: the list without a listener that is registered once.
Without(list, x) ==
  IF \A i \in 1 .. Len(list) : list[i] # x THEN list
  ELSE LET i == CHOOSE i \in 1 .. Len(list) : list[i] = x
       IN  SubSeq(list, 1, i - 1) \o SubSeq(list, i + 1, Len(list))

\* controller.abort, with the rest of the stack below it: a signal is aborted
\* once, and its listeners are then called one by one.
AbortOver(s, r, below) ==
  IF isCancelled(s)
  THEN reason' = reason /\ stack' = below
  ELSE /\ reason' = [reason EXCEPT ![s] = r]
       /\ stack' = <<Aborting(s)>> \o below

\* Mutant: a child is cancelled inside its parent's listener.
PropagateNested(c, r, below) ==
  /\ propagating' = <<<<c, r>>>>
  /\ stack' = <<Draining>> \o below

\* Mutant: a child that has to wait its turn is forgotten.
PropagateOrDrop(c, r, below) ==
  IF propagating # null
  THEN propagating' = propagating /\ stack' = below
  ELSE propagating' = <<<<c, r>>>> /\ stack' = <<Draining>> \o below

\* propagate: a child's cancellation now, or after the one in progress.
Propagate(c, r, below) ==
  IF propagating # null
  THEN propagating' = Append(propagating, <<c, r>>) /\ stack' = below
  ELSE propagating' = <<<<c, r>>>> /\ stack' = <<Draining>> \o below

\* source.cancel, with a reason of its own.
Cancel(s) ==
  /\ InCallersCode
  /\ s <= created
  /\ s \notin asked
  /\ asked' = asked \cup {s}
  /\ AbortOver(s, s, stack)
  /\ UNCHANGED <<sourceVars, listeners, handlerVars, propagating>>

\* createCancellationSource: it listens to the parent it is given, and is
\* called at once by one already cancelled.
Create(p) ==
  /\ InCallersCode
  /\ created < Count
  /\ p <= created
  /\ LET s == created + 1 IN
     /\ created' = s
     /\ parent' = [parent EXCEPT ![s] = p]
     /\ following' = IF p = NoSource THEN following ELSE following \cup {s}
     /\ IF p # NoSource /\ isCancelled(p)
        THEN Propagate(s, reason[p], stack) /\ listeners' = listeners
        ELSE /\ listeners' = IF p = NoSource THEN listeners
                             ELSE [listeners EXCEPT ![p] = Append(@, s)]
             /\ UNCHANGED <<propagating, stack>>
  /\ UNCHANGED <<reason, asked, handlerVars>>

\* The source stops following its parent.
Dispose(s) ==
  /\ InCallersCode
  /\ s \in following
  /\ following' = following \ {s}
  /\ listeners' = [listeners EXCEPT ![parent[s]] = Without(@, s)]
  /\ UNCHANGED <<created, parent, reason, asked, handlerVars, propagating, stack>>

\* Mutant: a handler that comes late is registered like any other.
OnCancelledInTime(h, s) ==
  /\ InCallersCode
  /\ on[h] = NoSource
  /\ s <= created
  /\ on' = [on EXCEPT ![h] = s]
  /\ listeners' = [listeners EXCEPT ![s] = Append(@, h)]
  /\ UNCHANGED <<sourceVars, reason, asked, calls, propagating, stack>>

\* onCancelled: a handler that comes late is called at once.
OnCancelled(h, s) ==
  /\ InCallersCode
  /\ on[h] = NoSource
  /\ s <= created
  /\ on' = [on EXCEPT ![h] = s]
  /\ IF isCancelled(s)
     THEN /\ calls' = [calls EXCEPT ![h] = @ + 1]
          /\ stack' = <<Handling(h)>> \o stack
          /\ listeners' = listeners
     ELSE /\ listeners' = [listeners EXCEPT ![s] = Append(@, h)]
          /\ UNCHANGED <<calls, stack>>
  /\ UNCHANGED <<sourceVars, reason, asked, propagating>>

\* A registration is disposed of.
Release(h) ==
  /\ InCallersCode
  /\ on[h] # NoSource
  /\ calls[h] = 0
  /\ listeners' = [listeners EXCEPT ![on[h]] = Without(@, h)]
  /\ on' = [on EXCEPT ![h] = NoSource]
  /\ UNCHANGED <<sourceVars, reason, asked, calls, propagating, stack>>

\* A handler returns; what it throws the platform reports, and goes on.
HandlerReturns ==
  /\ Top.kind = "handler"
  /\ stack' = Tail(stack)
  /\ UNCHANGED <<sourceVars, reason, asked, listeners, handlerVars, propagating>>

-----------------------------------------------------------------------------

\* The platform calls the next listener of the signal being aborted: a source
\* that follows it, or a handler.
Listener ==
  /\ Top.kind = "abort"
  /\ LET s == Top.of IN
     /\ listeners[s] # <<>>
     /\ listeners' = [listeners EXCEPT ![s] = Tail(@)]
     /\ LET l == Head(listeners[s]) IN
        IF l \in Handlers
        THEN /\ calls' = [calls EXCEPT ![l] = @ + 1]
             /\ stack' = <<Handling(l)>> \o stack
             /\ propagating' = propagating
        ELSE Propagate(l, reason[s], stack) /\ calls' = calls
  /\ UNCHANGED <<sourceVars, reason, asked, on>>

\* No listener is left: abort, and with it cancel, returns.
AbortReturns ==
  /\ Top.kind = "abort"
  /\ listeners[Top.of] = <<>>
  /\ stack' = Tail(stack)
  /\ UNCHANGED <<sourceVars, reason, asked, listeners, handlerVars, propagating>>

\* The loop of propagate runs the next child's cancellation.
Drain ==
  /\ Top.kind = "drain"
  /\ propagating # <<>>
  /\ propagating' = Tail(propagating)
  /\ AbortOver(Head(propagating)[1], Head(propagating)[2], stack)
  /\ UNCHANGED <<sourceVars, asked, listeners, handlerVars>>

\* The loop ends.
DrainReturns ==
  /\ Top.kind = "drain"
  /\ propagating = <<>>
  /\ propagating' = null
  /\ stack' = Tail(stack)
  /\ UNCHANGED <<sourceVars, reason, asked, listeners, handlerVars>>

Next ==
  \/ HandlerReturns \/ Listener \/ AbortReturns \/ Drain \/ DrainReturns
  \/ \E s \in Sources : Cancel(s) \/ Dispose(s)
  \/ \E p \in 0 .. Count : Create(p)
  \/ \E h \in Handlers : Release(h) \/ \E s \in Sources : OnCancelled(h, s)

Spec == Init /\ [][Next]_vars

-----------------------------------------------------------------------------
(* Properties.                                                             *)

\* Outside every call, a cancellation has reached whatever follows what it
\* cancelled, and no loop is left believing that another one runs: neither a
\* chain, nor a handler that cancels, creates or disposes, strands a source.
NothingStranded ==
  /\ TypeOK
  /\ stack = <<>> =>
       /\ propagating = null
       /\ \A s \in following : isCancelled(parent[s]) => isCancelled(s)

\* A source is cancelled by its own cancel, or with the reason its parent has.
ReasonComesFromAbove ==
  \A s \in Sources : isCancelled(s) =>
    \/ reason[s] = s /\ s \in asked
    \/ parent[s] # NoSource /\ reason[s] = reason[parent[s]]

\* A handler is called for a source that is cancelled only, and has been by the
\* end of every call once its source is, however late it came.
CancelledMeansCalled ==
  \A h \in Handlers :
    /\ calls[h] # 0 => isCancelled(on[h])
    /\ stack = <<>> /\ on[h] # NoSource /\ isCancelled(on[h]) => calls[h] = 1

\* Whoever is to hear of a cancellation does, with the reason it was given.
HandlersHear == ReasonComesFromAbove /\ CancelledMeansCalled

\* The stack is as deep for a chain of any length: between two of the caller's
\* handlers there are at most a cancel, the loop, and the child it cancels; and
\* one loop runs whenever a child waits for its turn.
ConstantDepth ==
  /\ propagating # null <=> \E i \in 1 .. Len(stack) : stack[i] = Draining
  /\ \A i \in 1 .. Len(stack) :
       \E j \in i .. (i + 3) :
         IF j > Len(stack) THEN TRUE ELSE stack[j].kind = "handler"

=============================================================================

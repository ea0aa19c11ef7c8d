------------------------------ MODULE RunQueue ------------------------------
(***************************************************************************)
(* What the worker pool promises of its runs, without saying how: runs are *)
(* served one at a time in the order they were called, a run hands each    *)
(* element's result to its consumer at most once and resolves only when it *)
(* has handed over all of them, and a closed pool begins no run.           *)
(***************************************************************************)
EXTENDS Naturals, Sequences

CONSTANTS
  Runs,   \* calls of map or stream
  Count   \* Count[r]: how many elements run r is given

VARIABLES
  status,   \* what each run is doing
  calls,    \* the runs in the order they were called
  results,  \* the positions whose result each consumer has
  shut      \* the pool has been closed

vars == <<status, calls, results, shut>>

Over == {"resolved", "rejected"}

Init ==
  /\ status = [r \in Runs |-> "idle"]
  /\ calls = <<>>
  /\ results = [r \in Runs |-> {}]
  /\ shut = FALSE

Become(r, to) == status' = [status EXCEPT ![r] = to]

Call(r) ==
  /\ status[r] = "idle"
  /\ Become(r, "waiting")
  /\ calls' = Append(calls, r)
  /\ UNCHANGED <<results, shut>>

\* Every run called before r is over.
Ahead(r) == {calls[i] : i \in {j \in 1 .. Len(calls) :
                                \E k \in (j + 1) .. Len(calls) : calls[k] = r}}

Begin(r) ==
  /\ status[r] = "waiting"
  /\ ~shut
  /\ \A q \in Ahead(r) : status[q] \in Over
  /\ Become(r, "active")
  /\ UNCHANGED <<calls, results, shut>>

Give(r) ==
  /\ status[r] = "active"
  /\ \E p \in (0 .. (Count[r] - 1)) \ results[r] :
       results' = [results EXCEPT ![r] = @ \cup {p}]
  /\ UNCHANGED <<status, calls, shut>>

Resolve(r) ==
  /\ status[r] = "active"
  /\ results[r] = 0 .. (Count[r] - 1)
  /\ Become(r, "resolved")
  /\ UNCHANGED <<calls, results, shut>>

\* Failed, refused, called off or left by its consumer.
Reject(r) ==
  /\ status[r] \in {"waiting", "active"}
  /\ Become(r, "rejected")
  /\ UNCHANGED <<calls, results, shut>>

Shut ==
  /\ ~shut
  /\ shut' = TRUE
  /\ UNCHANGED <<status, calls, results>>

Next ==
  \/ \E r \in Runs : Call(r) \/ Begin(r) \/ Give(r) \/ Resolve(r) \/ Reject(r)
  \/ Shut

Spec == Init /\ [][Next]_vars

-----------------------------------------------------------------------------
\* Two runs are never served side by side.
OneActive ==
  \A r, q \in Runs : status[r] = "active" /\ status[q] = "active" => r = q
=============================================================================

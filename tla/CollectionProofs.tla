-------------------------- MODULE CollectionProofs --------------------------
(***************************************************************************)
(* For a source of any length and any limit: mapConcurrent hands results   *)
(* over in the order asked for, what is pulled stays within the limit, and *)
(* a traversal that ends by itself has handed over everything.             *)
(***************************************************************************)
EXTENDS MapConcurrent, FiniteSetTheorems, SequenceTheorems, TLAPS

-----------------------------------------------------------------------------
(* mapConcurrent.  The argument is one inductive invariant, IInv: a        *)
(* position is pulled, settles and is handed over once, whatever the order *)
(* of the jobs, since a task that is not over is still counted as running  *)
(* and has at most one job that settles it.                                *)

Elements(list) == {list[i] : i \in 1 .. Len(list)}
Distinct(list) == \A i, j \in 1 .. Len(list) : list[i] = list[j] => i = j

\* The positions whose result arrived.
Settled == Elements(settled)

\* The tasks that something may still settle.
Unsettled == {p \in Positions : task[p] \in {"running", "value", "error"}}

\* Those that a selector settled, and that nobody looked at yet.
Awaited == {p \in Positions : task[p] \in {"value", "error"}}

\* Those that are.
Over == {p \in Positions : task[p] = "over"}

\* A queue in which each of some tasks is looked at once, at most, and no other,
\* and which takes those of others off the set.
LooksAt(queue, tasks, over) ==
  /\ queue \in Seq(Jobs)
  /\ \A p \in Positions : Deleting(p) \in Elements(queue) => p \in over
  /\ \A p \in Positions : Settling(p) \in Elements(queue) => p \in tasks
  /\ \A p \in Positions : \A i, j \in 1 .. Len(queue) :
       queue[i] = Settling(p) /\ queue[j] = Settling(p) => i = j

JobsSettle == LooksAt(jobs, Awaited, Over)

\* What was pulled has a task, and counts as running until that is over.
TasksAreCounted ==
  /\ \A p \in Positions : p >= started <=> task[p] = "none"
  /\ Unsettled \subseteq running

\* A result arrives once, and of every task that is over unless one failed.
ResultsArrive ==
  /\ \A p \in Settled : task[p] = "over"
  /\ failure = None => \A p \in Positions : task[p] = "over" => p \in Settled
  /\ IsFiniteSet(Settled) /\ Cardinality(Settled) = Len(settled)

\* What was counted is what happened.
CountsAgree ==
  /\ Len(handed) = delivered
  /\ started - delivered <= concurrency
  /\ pc = "pulling" => started - delivered < concurrency /\ ~exhausted
  /\ answer # "none" => pc = "pulling"
  /\ answer = "item" => started < Count
  /\ answer = "done" => started = Count
  /\ exhausted => started = Count

\* What has arrived and was not handed over is there to be handed over.
InSourceOrder ==
  /\ \A i \in 1 .. Len(handed) : handed[i] = i - 1
  /\ \A p \in Positions : p < delivered => p \in Settled
  /\ arrived = {p \in Settled : p >= delivered}

InOrderOfArrival ==
  /\ settled = handed \o finished
  /\ Distinct(finished)
  /\ Elements(finished) \subseteq arrived

OrderIsKept == IF ordered THEN InSourceOrder ELSE InOrderOfArrival

\* How the traversal stands tells how it can have ended.
EndsAsItStands ==
  /\ outcome = "none" <=> pc \notin {"draining", "closing", "done"}
  /\ pc = "start" => started = 0 /\ handed = <<>>
  /\ pc \in {"yielding", "yielded"} => handed # <<>>
  /\ pc \in {"closing", "done"} => Unsettled = {}
  /\ pc \in {"draining", "closing"} /\ outcome = "left" => handed # <<>>
  /\ pc # "done" => returned = 0
  /\ outcome = "ended" => delivered = Count /\ failure = None /\ exhausted /\ Unsettled = {}
  /\ pc = "done" => returned = IF handed = <<>> /\ started = 0 /\ outcome = "left" THEN 0 ELSE 1

IInv ==
  /\ TypeOK /\ JobsSettle /\ TasksAreCounted /\ ResultsArrive
  /\ CountsAgree /\ OrderIsKept /\ EndsAsItStands

-----------------------------------------------------------------------------
(* Lists.                                                                  *)

LEMMA Popped ==
  ASSUME NEW S, NEW q \in Seq(S), q # <<>>
  PROVE  /\ Tail(q) \in Seq(S)
         /\ Len(q) \in Nat /\ Len(Tail(q)) = Len(q) - 1
         /\ \A i \in 1 .. (Len(q) - 1) : Tail(q)[i] = q[i + 1]
         /\ Head(q) = q[1]
         /\ Head(q) \in S
         /\ Elements(q) = {Head(q)} \cup Elements(Tail(q))
         /\ Distinct(q) => Head(q) \notin Elements(Tail(q)) /\ Distinct(Tail(q))
<1> DEFINE t == Tail(q)
<1>1. /\ t \in Seq(S) /\ Len(q) \in Nat \ {0} /\ Len(t) = Len(q) - 1
      /\ Head(q) = q[1] /\ Head(q) \in S
  OBVIOUS
<1>2. \A i \in 1 .. (Len(q) - 1) : t[i] = q[i + 1]
  OBVIOUS
<1> HIDE DEF t
<1>3. Elements(q) \subseteq {Head(q)} \cup Elements(t)
  <2> SUFFICES ASSUME NEW i \in 1 .. Len(q)
               PROVE  q[i] \in {Head(q)} \cup Elements(t)
    BY DEF Elements
  <2>1. CASE i = 1
    BY <2>1, <1>1
  <2>2. CASE i # 1
    <3>1. i - 1 \in 1 .. Len(t) /\ (i - 1) + 1 = i
      BY <2>2, <1>1
    <3>2. t[i - 1] = q[i]
      BY <3>1, <1>1, <1>2
    <3> QED
      BY <3>1, <3>2 DEF Elements
  <2> QED
    BY <2>1, <2>2
<1>4. {Head(q)} \cup Elements(t) \subseteq Elements(q)
  <2>1. Head(q) \in Elements(q)
    BY <1>1 DEF Elements
  <2>2. ASSUME NEW i \in 1 .. Len(t)
        PROVE  t[i] \in Elements(q)
    <3>1. i + 1 \in 1 .. Len(q) /\ i \in 1 .. (Len(q) - 1)
      BY <1>1
    <3> QED
      BY <3>1, <1>2 DEF Elements
  <2> QED
    BY <2>1, <2>2 DEF Elements
<1>5. ASSUME Distinct(q) PROVE Head(q) \notin Elements(t) /\ Distinct(t)
  <2>1. ASSUME NEW i \in 1 .. Len(t) PROVE t[i] # Head(q)
    <3>1. i + 1 \in 1 .. Len(q) /\ 1 \in 1 .. Len(q) /\ i \in 1 .. (Len(q) - 1) /\ i + 1 # 1
      BY <1>1
    <3>2. t[i] = q[i + 1]
      BY <3>1, <1>2
    <3> QED
      BY <3>1, <3>2, <1>1, <1>5 DEF Distinct
  <2>2. ASSUME NEW i \in 1 .. Len(t), NEW j \in 1 .. Len(t), t[i] = t[j]
        PROVE  i = j
    <3>1. /\ i + 1 \in 1 .. Len(q) /\ i \in 1 .. (Len(q) - 1)
          /\ j + 1 \in 1 .. Len(q) /\ j \in 1 .. (Len(q) - 1)
      BY <1>1
    <3>2. q[i + 1] = q[j + 1]
      BY <2>2, <3>1, <1>2
    <3>3. i + 1 = j + 1
      BY <3>1, <3>2, <1>5 DEF Distinct
    <3> QED
      BY <3>3, <3>1
  <2>3. Head(q) \notin Elements(t)
    BY <2>1 DEF Elements
  <2>4. Distinct(t)
    BY <2>2 DEF Distinct
  <2> QED
    BY <2>3, <2>4
<1> QED
  BY <1>1, <1>2, <1>3, <1>4, <1>5 DEF t

LEMMA Appended ==
  ASSUME NEW S, NEW x \in S, NEW q \in Seq(S)
  PROVE  /\ Append(q, x) \in Seq(S)
         /\ Elements(Append(q, x)) = Elements(q) \cup {x}
         /\ Distinct(q) /\ x \notin Elements(q) => Distinct(Append(q, x))
<1> DEFINE p == Append(q, x)
<1>1. p \in Seq(S) /\ Len(q) \in Nat /\ Len(p) = Len(q) + 1 /\ p[Len(q) + 1] = x
  OBVIOUS
<1>2. \A i \in 1 .. Len(q) : p[i] = q[i]
  OBVIOUS
<1> HIDE DEF p
<1>0. \A i \in 1 .. Len(p) : i = Len(q) + 1 \/ i \in 1 .. Len(q)
  BY <1>1
<1>3. Elements(p) \subseteq Elements(q) \cup {x}
  BY <1>0, <1>1, <1>2 DEF Elements
<1>4. Elements(q) \cup {x} \subseteq Elements(p)
  <2>1. x \in Elements(p)
    <3>1. Len(q) + 1 \in 1 .. Len(p)
      BY <1>1
    <3> QED
      BY <3>1, <1>1 DEF Elements
  <2>2. ASSUME NEW i \in 1 .. Len(q)
        PROVE  q[i] \in Elements(p)
    <3>1. i \in 1 .. Len(p)
      BY <1>1
    <3> QED
      BY <3>1, <1>2 DEF Elements
  <2> QED
    BY <2>1, <2>2 DEF Elements
<1>5. ASSUME Distinct(q), x \notin Elements(q) PROVE Distinct(p)
  <2> SUFFICES ASSUME NEW i \in 1 .. Len(p), NEW j \in 1 .. Len(p), p[i] = p[j]
               PROVE  i = j
    BY DEF Distinct
  <2>1. CASE i \in 1 .. Len(q) /\ j \in 1 .. Len(q)
    BY <2>1, <1>2, <1>5 DEF Distinct
  <2>2. CASE i \in 1 .. Len(q) /\ j = Len(q) + 1
    BY <2>2, <1>1, <1>2, <1>5 DEF Elements
  <2>3. CASE i = Len(q) + 1 /\ j \in 1 .. Len(q)
    BY <2>3, <1>1, <1>2, <1>5 DEF Elements
  <2>4. CASE i = Len(q) + 1 /\ j = Len(q) + 1
    BY <2>4
  <2> QED
    BY <2>1, <2>2, <2>3, <2>4, <1>0
<1> QED
  BY <1>1, <1>3, <1>4, <1>5 DEF p

LEMMA Regrouped ==
  ASSUME NEW S, NEW a \in Seq(S), NEW b \in Seq(S), NEW c \in Seq(S)
  PROVE  a \o (b \o c) = (a \o b) \o c
OBVIOUS

LEMMA Joined ==
  ASSUME NEW S, NEW x \in S, NEW q \in Seq(S)
  PROVE  q \o <<x>> = Append(q, x)
OBVIOUS

-----------------------------------------------------------------------------
(* Queues of jobs.                                                         *)

LEMMA JobsDiffer ==
  /\ Loop \in Jobs
  /\ \A p \in Positions : Settling(p) \in Jobs /\ Deleting(p) \in Jobs
  /\ \A p, q \in Positions : Settling(p) = Settling(q) => p = q
  /\ \A p, q \in Positions : Loop # Settling(p) /\ Deleting(q) # Settling(p) /\ Loop # Deleting(p)
  /\ \A p, q \in Positions : Deleting(p) = Deleting(q) => p = q
BY DEF Jobs, Loop, Settling, Deleting

LEMMA PositionsAre ==
  /\ Count \in Nat /\ Positions \subseteq Nat /\ None = Count /\ None \notin Positions
  /\ \A p \in Positions : p < Count
  /\ \A n \in Nat : n < Count => n \in Positions
BY MapAssumption DEF Positions, None

LEMMA LooksAfter ==
  ASSUME NEW q, NEW S, NEW O, LooksAt(q, S, O), NEW x \in Jobs,
         \A p \in Positions : x # Settling(p) /\ (x = Deleting(p) => p \in O)
  PROVE  LooksAt(Append(q, x), S, O)
<1> DEFINE a == Append(q, x)
<1>1. q \in Seq(Jobs) /\ Len(q) \in Nat
  BY DEF LooksAt
<1>2. a \in Seq(Jobs) /\ Elements(a) = Elements(q) \cup {x}
  BY <1>1, Appended
<1>3. Len(a) = Len(q) + 1 /\ a[Len(q) + 1] = x /\ \A i \in 1 .. Len(q) : a[i] = q[i]
  BY <1>1
<1> HIDE DEF a
<1>4. ASSUME NEW p \in Positions, NEW i \in 1 .. Len(a), a[i] = Settling(p)
      PROVE  i \in 1 .. Len(q) /\ q[i] = Settling(p)
  BY <1>1, <1>3, <1>4
<1>5. \A p \in Positions : \A i, j \in 1 .. Len(a) :
        a[i] = Settling(p) /\ a[j] = Settling(p) => i = j
  BY <1>4 DEF LooksAt
<1> QED
  BY <1>2, <1>5 DEF LooksAt, a

LEMMA LooksAtOneMore ==
  ASSUME NEW q, NEW S, NEW O, LooksAt(q, S, O), NEW p \in Positions, p \notin S
  PROVE  LooksAt(Append(q, Settling(p)), S \cup {p}, O)
<1> DEFINE x == Settling(p)
           a == Append(q, x)
<1>1. q \in Seq(Jobs) /\ Len(q) \in Nat /\ x \in Jobs
  BY JobsDiffer DEF LooksAt
<1>2. a \in Seq(Jobs) /\ Elements(a) = Elements(q) \cup {x}
  BY <1>1, Appended
<1>3. Len(a) = Len(q) + 1 /\ a[Len(q) + 1] = x /\ \A i \in 1 .. Len(q) : a[i] = q[i]
  BY <1>1
<1> HIDE DEF a
<1>4. \A i \in 1 .. Len(q) : q[i] # x
  BY DEF LooksAt, Elements
<1>5. \A r \in Positions : x = Settling(r) => r = p
  BY JobsDiffer
<1>6. ASSUME NEW r \in Positions, NEW i \in 1 .. Len(a), NEW j \in 1 .. Len(a),
             a[i] = Settling(r), a[j] = Settling(r)
      PROVE  i = j
  <2>1. CASE r = p
    BY <1>1, <1>3, <1>4, <1>6, <2>1
  <2>2. CASE r # p
    <3>1. i \in 1 .. Len(q) /\ j \in 1 .. Len(q)
      BY <1>1, <1>3, <1>5, <1>6, <2>2
    <3> QED
      BY <3>1, <1>3, <1>6 DEF LooksAt
  <2> QED
    BY <2>1, <2>2
<1>7. \A r \in Positions : Settling(r) \in Elements(a) => r \in S \cup {p}
  BY <1>2, <1>5 DEF LooksAt
<1>8. \A r \in Positions : \A i, j \in 1 .. Len(a) :
        a[i] = Settling(r) /\ a[j] = Settling(r) => i = j
  BY <1>6
<1>9. \A r \in Positions : Deleting(r) \in Elements(a) => r \in O
  BY <1>2, JobsDiffer DEF LooksAt
<1>10. a \in Seq(Jobs)
  BY <1>2
<1>11. LooksAt(a, S \cup {p}, O)
  <2> HIDE DEF x
  <2> QED
    BY <1>7, <1>8, <1>9, <1>10 DEF LooksAt
<1> QED
  BY <1>11 DEF a

LEMMA LooksNext ==
  ASSUME NEW q, NEW S, NEW O, LooksAt(q, S, O), q # <<>>
  PROVE  /\ LooksAt(Tail(q), S, O)
         /\ \A p \in Positions : Head(q) = Settling(p) =>
              p \in S /\ LooksAt(Tail(q), S \ {p}, O)
         /\ \A p \in Positions : Head(q) = Deleting(p) => p \in O
<1> DEFINE t == Tail(q)
<1>1. /\ q \in Seq(Jobs) /\ t \in Seq(Jobs) /\ Len(q) \in Nat /\ Len(t) = Len(q) - 1
      /\ \A i \in 1 .. (Len(q) - 1) : t[i] = q[i + 1]
      /\ Head(q) = q[1]
      /\ Elements(q) = {Head(q)} \cup Elements(t)
  BY Popped DEF LooksAt
<1> HIDE DEF t
<1>2. \A i \in 1 .. Len(t) : i + 1 \in 1 .. Len(q) /\ t[i] = q[i + 1]
  BY <1>1
<1>3. ASSUME NEW r \in Positions, NEW i \in 1 .. Len(t), NEW j \in 1 .. Len(t),
             t[i] = Settling(r), t[j] = Settling(r)
      PROVE  i = j
  <2>1. i + 1 = j + 1
    BY <1>2, <1>3 DEF LooksAt
  <2> QED
    BY <2>1
<1>4. LooksAt(t, S, O)
  BY <1>1, <1>3 DEF LooksAt
<1>5. ASSUME NEW p \in Positions, Head(q) = Settling(p)
      PROVE  p \in S /\ LooksAt(t, S \ {p}, O)
  <2>1. p \in S
    BY <1>1, <1>5 DEF LooksAt
  <2>2. Settling(p) \notin Elements(t)
    <3> SUFFICES ASSUME NEW i \in 1 .. Len(t), t[i] = Settling(p) PROVE FALSE
      BY DEF Elements
    <3>1. i + 1 \in 1 .. Len(q) /\ 1 \in 1 .. Len(q) /\ q[i + 1] = Settling(p)
          /\ q[1] = Settling(p) /\ i + 1 # 1
      BY <1>1, <1>2, <1>5
    <3> QED
      BY <3>1 DEF LooksAt
  <2> QED
    BY <2>1, <2>2, <1>4 DEF LooksAt
<1>6. \A p \in Positions : Head(q) = Deleting(p) => p \in O
  BY <1>1 DEF LooksAt
<1> QED
  BY <1>4, <1>5, <1>6 DEF t

-----------------------------------------------------------------------------
(* Steps that move the loop on, and touch no task and no result.           *)

LEMMA OptionsAre ==
  ASSUME TypeOK
  PROVE  /\ concurrency \in Nat \ {0} /\ ordered \in BOOLEAN
         /\ started \in Nat /\ delivered \in Nat /\ started <= Count /\ delivered <= started
         /\ Count \in Nat
<1>1. options.concurrency \in Limits /\ options.ordered \in BOOLEAN
  BY DEF TypeOK
<1>2. started \in Nat /\ delivered \in Nat /\ started <= Count /\ delivered <= started
  BY MapAssumption DEF TypeOK
<1> QED
  BY <1>1, <1>2, MapAssumption DEF concurrency, ordered

LEMMA SameNames ==
  /\ task' = task => Unsettled' = Unsettled /\ Awaited' = Awaited /\ Over' = Over
  /\ settled' = settled => Settled' = Settled
  /\ options' = options => concurrency' = concurrency /\ ordered' = ordered
BY DEF Unsettled, Awaited, Over, Settled, Elements, concurrency, ordered

LEMMA FillDoes ==
  ASSUME NEW fails, NEW out, NEW going, NEW q, NEW S, NEW O, LooksAt(q, S, O),
         Fill(fails, out, going, q)
  PROVE  /\ LooksAt(jobs', S, O)
         /\ pc' \in {"pulling", "filled"}
         /\ pc' = "pulling" => ~exhausted /\ out < concurrency
<1>1. CASE Wants(exhausted, fails, out, going)
  <2>1. pc' = "pulling" /\ jobs' = q
    BY <1>1 DEF Fill
  <2> QED
    BY <1>1, <2>1 DEF Wants
<1>2. CASE ~Wants(exhausted, fails, out, going)
  <2>1. pc' = "filled" /\ jobs' = Append(q, Loop)
    BY <1>2 DEF Fill
  <2>2. LooksAt(Append(q, Loop), S, O)
    BY LooksAfter, JobsDiffer
  <2> QED
    BY <2>1, <2>2
<1> QED
  BY <1>1, <1>2

LEMMA OnlyMoves ==
  ASSUME IInv,
         UNCHANGED <<options, arrived, finished, failure, task, settled, started, delivered,
                     handed>>,
         Unsettled \subseteq running',
         LooksAt(jobs', Awaited, Over)
  PROVE  JobsSettle' /\ TasksAreCounted' /\ ResultsArrive' /\ OrderIsKept'
<1>1. Unsettled' = Unsettled /\ Awaited' = Awaited /\ Over' = Over /\ Settled' = Settled /\ ordered' = ordered
  BY SameNames
<1>2. JobsSettle'
  BY <1>1 DEF JobsSettle, LooksAt, Elements
<1>3. TasksAreCounted'
  BY <1>1 DEF IInv, TasksAreCounted
<1>4. ResultsArrive'
  BY <1>1 DEF IInv, ResultsArrive
<1>5. OrderIsKept'
  BY <1>1 DEF IInv, OrderIsKept, InSourceOrder, InOrderOfArrival, Elements, Distinct
<1> QED
  BY <1>2, <1>3, <1>4, <1>5

LEMMA LoopMoves ==
  ASSUME IInv, Ask \/ Leave \/ SourceAnswers
  PROVE  IInv'
<1>1. LooksAt(jobs, Awaited, Over)
  BY DEF IInv, JobsSettle
<1>2. /\ concurrency \in Nat \ {0} /\ started \in Nat /\ delivered \in Nat /\ started <= Count
      /\ Count \in Nat
  BY OptionsAre DEF IInv
<1>3. Unsettled \subseteq running
  BY DEF IInv, TasksAreCounted
<1>4. CASE Ask
  <2>1. /\ pc \in {"start", "yielded"}
        /\ Fill(failure, started - delivered, running, jobs)
        /\ UNCHANGED <<options, answer, arrived, finished, running, failure, task, settled,
                       started, delivered, exhausted, outcome, handed, returned>>
    BY <1>4 DEF Ask, workVars, countVars, endVars
  <2>2. /\ LooksAt(jobs', Awaited, Over)
        /\ pc' \in {"pulling", "filled"}
        /\ pc' = "pulling" => ~exhausted /\ started - delivered < concurrency
    BY <1>1, <2>1, FillDoes
  <2>3. JobsSettle' /\ TasksAreCounted' /\ ResultsArrive' /\ OrderIsKept'
    BY <1>3, <2>1, <2>2, OnlyMoves
  <2>4. TypeOK'
    BY <2>1, <2>2 DEF IInv, TypeOK, LooksAt
  <2>5. concurrency' = concurrency /\ Unsettled' = Unsettled
    BY <2>1, SameNames
  <2>6. CountsAgree'
    BY <2>1, <2>2, <2>5 DEF IInv, CountsAgree
  <2>7. EndsAsItStands'
    BY <2>1, <2>2, <2>5 DEF IInv, EndsAsItStands
  <2> QED
    BY <2>3, <2>4, <2>6, <2>7 DEF IInv
<1>5. CASE Leave
  <2>1. /\ pc \in {"start", "yielded"}
        /\ pc' = IF pc = "start" THEN "done" ELSE "draining"
        /\ outcome' = "left"
        /\ UNCHANGED <<options, jobs, answer, arrived, finished, running, failure, task, settled,
                       started, delivered, exhausted, handed, returned>>
    BY <1>5 DEF Leave, workVars, countVars
  <2>3. JobsSettle' /\ TasksAreCounted' /\ ResultsArrive' /\ OrderIsKept'
    BY <1>1, <1>3, <2>1, OnlyMoves
  <2>4. TypeOK'
    BY <2>1 DEF IInv, TypeOK
  <2>5. concurrency' = concurrency /\ Unsettled' = Unsettled
    BY <2>1, SameNames
  <2>6. CountsAgree'
    BY <2>1, <2>5 DEF IInv, CountsAgree
  <2>7. pc = "start" => Unsettled = {}
    <3> SUFFICES ASSUME pc = "start", NEW p \in Positions PROVE task[p] = "none"
      BY DEF Unsettled
    <3>1. p >= started
      BY PositionsAre DEF IInv, EndsAsItStands
    <3> QED
      BY <3>1 DEF IInv, TasksAreCounted
  <2>8. EndsAsItStands'
    BY <2>1, <2>5, <2>7 DEF IInv, EndsAsItStands
  <2> QED
    BY <2>3, <2>4, <2>6, <2>8 DEF IInv
<1>6. CASE SourceAnswers
  <2>1. /\ pc = "pulling" /\ answer = "none"
        /\ answer' \in {IF started < Count THEN "item" ELSE "done", "throws"}
        /\ jobs' = Append(jobs, Loop)
        /\ UNCHANGED <<options, pc, arrived, finished, running, failure, task, settled,
                       started, delivered, exhausted, outcome, handed, returned>>
    BY <1>6 DEF SourceAnswers, workVars, countVars, endVars
  <2>2. LooksAt(jobs', Awaited, Over)
    BY <1>1, <2>1, LooksAfter, JobsDiffer
  <2>3. JobsSettle' /\ TasksAreCounted' /\ ResultsArrive' /\ OrderIsKept'
    BY <1>3, <2>1, <2>2, OnlyMoves
  <2>4. TypeOK'
    BY <2>1, <2>2 DEF IInv, TypeOK, LooksAt
  <2>5. concurrency' = concurrency /\ Unsettled' = Unsettled
    BY <2>1, SameNames
  <2>6. (answer' = "item" => started < Count) /\ (answer' = "done" => started = Count)
    BY <1>2, <2>1
  <2>7. CountsAgree'
    BY <2>1, <2>5, <2>6 DEF IInv, CountsAgree
  <2>8. EndsAsItStands'
    BY <2>1, <2>5 DEF IInv, EndsAsItStands
  <2> QED
    BY <2>3, <2>4, <2>7, <2>8 DEF IInv
<1> QED
  BY <1>4, <1>5, <1>6

LEMMA TraversalEnds ==
  ASSUME IInv, Drain \/ Close
  PROVE  IInv'
<1>1. LooksAt(jobs, Awaited, Over)
  BY DEF IInv, JobsSettle
<1>2. Unsettled \subseteq running
  BY DEF IInv, TasksAreCounted
<1>3. CASE Drain
  <2>1. /\ pc = "draining" /\ pc' = "closing"
        /\ \A p \in running : task[p] = "over"
        /\ running' = {}
        /\ UNCHANGED <<options, jobs, answer, arrived, finished, failure, task, settled,
                       started, delivered, exhausted, outcome, handed, returned>>
    BY <1>3 DEF Drain, countVars, endVars
  <2>2. Unsettled = {}
    BY <1>2, <2>1 DEF Unsettled
  <2>3. JobsSettle' /\ TasksAreCounted' /\ ResultsArrive' /\ OrderIsKept'
    BY <1>1, <2>1, <2>2, OnlyMoves
  <2>4. TypeOK'
    BY <2>1 DEF IInv, TypeOK
  <2>5. concurrency' = concurrency /\ Unsettled' = Unsettled
    BY <2>1, SameNames
  <2>6. CountsAgree'
    BY <2>1, <2>5 DEF IInv, CountsAgree
  <2>7. EndsAsItStands'
    BY <2>1, <2>2, <2>5 DEF IInv, EndsAsItStands
  <2> QED
    BY <2>3, <2>4, <2>6, <2>7 DEF IInv
<1>4. CASE Close
  <2>1. /\ pc = "closing" /\ pc' = "done"
        /\ returned' = returned + 1
        /\ UNCHANGED <<options, jobs, answer, arrived, finished, running, failure, task, settled,
                       started, delivered, exhausted, outcome, handed>>
    BY <1>4 DEF Close, workVars, countVars
  <2>2. returned = 0 /\ returned' = 1
    BY <2>1 DEF IInv, EndsAsItStands
  <2>3. JobsSettle' /\ TasksAreCounted' /\ ResultsArrive' /\ OrderIsKept'
    BY <1>1, <1>2, <2>1, OnlyMoves
  <2>4. TypeOK'
    BY <2>1, <2>2 DEF IInv, TypeOK
  <2>5. concurrency' = concurrency /\ Unsettled' = Unsettled
    BY <2>1, SameNames
  <2>6. CountsAgree'
    BY <2>1, <2>5 DEF IInv, CountsAgree
  <2>7. EndsAsItStands'
    BY <2>1, <2>2, <2>5 DEF IInv, EndsAsItStands
  <2> QED
    BY <2>3, <2>4, <2>6, <2>7 DEF IInv
<1> QED
  BY <1>3, <1>4

LEMMA JobsAre ==
  ASSUME IInv, jobs # <<>>
  PROVE  /\ LooksAt(Tail(jobs), Awaited, Over)
         /\ LooksAt(Append(Tail(jobs), Loop), Awaited, Over)
         /\ \A p \in Positions : Head(jobs) = Deleting(p) => task[p] = "over"
         /\ \A p \in Positions : Head(jobs) = Settling(p) =>
              p \in Awaited /\ LooksAt(Tail(jobs), Awaited \ {p}, Over)
<1>1. LooksAt(jobs, Awaited, Over)
  BY DEF IInv, JobsSettle
<1>2. /\ LooksAt(Tail(jobs), Awaited, Over)
      /\ \A p \in Positions : Head(jobs) = Deleting(p) => p \in Over
      /\ \A p \in Positions : Head(jobs) = Settling(p) =>
           p \in Awaited /\ LooksAt(Tail(jobs), Awaited \ {p}, Over)
  BY <1>1, LooksNext
<1>3. LooksAt(Append(Tail(jobs), Loop), Awaited, Over)
  BY <1>2, LooksAfter, JobsDiffer
<1> QED
  BY <1>2, <1>3 DEF Over

LEMMA JobMoves ==
  ASSUME IInv, jobs # <<>>,
         \/ pc = "pulling" /\ answer' = "none" /\ (Exhausts \/ SourceThrows)
         \/ Yield
         \/ \E p \in Positions : Head(jobs) = Deleting(p) /\ Delete(p)
  PROVE  IInv'
<1>1. LooksAt(Tail(jobs), Awaited, Over) /\ LooksAt(Append(Tail(jobs), Loop), Awaited, Over)
  BY JobsAre
<1>2. Unsettled \subseteq running
  BY DEF IInv, TasksAreCounted
<1>3. CASE pc = "pulling" /\ answer' = "none" /\ Exhausts
  <2>1. /\ pc = "pulling" /\ answer' = "none" /\ answer = "done"
        /\ exhausted' = TRUE
        /\ pc' = "filled"
        /\ jobs' = Append(Tail(jobs), Loop)
        /\ UNCHANGED <<options, arrived, finished, running, failure, task, settled,
                       started, delivered, outcome, handed, returned>>
    BY <1>3 DEF Exhausts, workVars, endVars
  <2>2. LooksAt(jobs', Awaited, Over)
    BY <1>1, <2>1
  <2>3. JobsSettle' /\ TasksAreCounted' /\ ResultsArrive' /\ OrderIsKept'
    BY <1>2, <2>1, <2>2, OnlyMoves
  <2>4. TypeOK'
    BY <2>1, <2>2 DEF IInv, TypeOK, LooksAt
  <2>5. concurrency' = concurrency /\ Unsettled' = Unsettled
    BY <2>1, SameNames
  <2>6. CountsAgree'
    BY <2>1, <2>5 DEF IInv, CountsAgree
  <2>7. EndsAsItStands'
    BY <2>1, <2>5 DEF IInv, EndsAsItStands
  <2> QED
    BY <2>3, <2>4, <2>6, <2>7 DEF IInv
<1>4. CASE pc = "pulling" /\ answer' = "none" /\ SourceThrows
  <2>1. /\ pc = "pulling" /\ answer' = "none"
        /\ outcome' = "source"
        /\ pc' = "draining"
        /\ jobs' = Tail(jobs)
        /\ UNCHANGED <<options, arrived, finished, running, failure, task, settled,
                       started, delivered, exhausted, handed, returned>>
    BY <1>4 DEF SourceThrows, workVars, countVars
  <2>2. LooksAt(jobs', Awaited, Over)
    BY <1>1, <2>1
  <2>3. JobsSettle' /\ TasksAreCounted' /\ ResultsArrive' /\ OrderIsKept'
    BY <1>2, <2>1, <2>2, OnlyMoves
  <2>4. TypeOK'
    BY <2>1, <2>2 DEF IInv, TypeOK, LooksAt
  <2>5. concurrency' = concurrency /\ Unsettled' = Unsettled
    BY <2>1, SameNames
  <2>6. CountsAgree'
    BY <2>1, <2>5 DEF IInv, CountsAgree
  <2>7. EndsAsItStands'
    BY <2>1, <2>5 DEF IInv, EndsAsItStands
  <2> QED
    BY <2>3, <2>4, <2>6, <2>7 DEF IInv
<1>5. CASE Yield
  <2>1. /\ pc = "yielding" /\ pc' = "yielded"
        /\ jobs' = Tail(jobs)
        /\ UNCHANGED <<options, answer, arrived, finished, running, failure, task, settled,
                       started, delivered, exhausted, outcome, handed, returned>>
    BY <1>5 DEF Yield, workVars, countVars, endVars
  <2>2. LooksAt(jobs', Awaited, Over)
    BY <1>1, <2>1
  <2>3. JobsSettle' /\ TasksAreCounted' /\ ResultsArrive' /\ OrderIsKept'
    BY <1>2, <2>1, <2>2, OnlyMoves
  <2>4. TypeOK'
    BY <2>1, <2>2 DEF IInv, TypeOK, LooksAt
  <2>5. concurrency' = concurrency /\ Unsettled' = Unsettled
    BY <2>1, SameNames
  <2>6. CountsAgree'
    BY <2>1, <2>5 DEF IInv, CountsAgree
  <2>7. EndsAsItStands'
    BY <2>1, <2>5 DEF IInv, EndsAsItStands
  <2> QED
    BY <2>3, <2>4, <2>6, <2>7 DEF IInv
<1>6. ASSUME NEW p \in Positions, Head(jobs) = Deleting(p), Delete(p)
      PROVE  IInv'
  <2>1. /\ running' = running \ {p}
        /\ jobs' = Tail(jobs)
        /\ UNCHANGED <<options, pc, answer, arrived, finished, failure, task, settled,
                       started, delivered, exhausted, outcome, handed, returned>>
    BY <1>6 DEF Delete, countVars, endVars
  <2>2. task[p] = "over"
    BY <1>6, JobsAre
  <2>8. LooksAt(jobs', Awaited, Over) /\ Unsettled \subseteq running'
    BY <1>1, <1>2, <2>1, <2>2 DEF Unsettled
  <2>3. JobsSettle' /\ TasksAreCounted' /\ ResultsArrive' /\ OrderIsKept'
    BY <2>1, <2>8, OnlyMoves
  <2>4. TypeOK'
    BY <2>1, <2>8 DEF IInv, TypeOK, LooksAt
  <2>5. concurrency' = concurrency /\ Unsettled' = Unsettled
    BY <2>1, SameNames
  <2>6. CountsAgree'
    BY <2>1, <2>5 DEF IInv, CountsAgree
  <2>7. EndsAsItStands'
    BY <2>1, <2>5 DEF IInv, EndsAsItStands
  <2> QED
    BY <2>3, <2>4, <2>6, <2>7 DEF IInv
<1> QED
  BY <1>3, <1>4, <1>5, <1>6

-----------------------------------------------------------------------------
(* Steps of a task.                                                        *)

LEMMA SelectorMoves ==
  ASSUME IInv, NEW p \in Positions, SelectorSettles(p)
  PROVE  IInv'
<1>1. /\ task[p] = "running"
      /\ \E how \in {"value", "error"} : task' = [task EXCEPT ![p] = how]
      /\ jobs' = Append(jobs, Settling(p))
      /\ UNCHANGED <<options, pc, answer, arrived, finished, running, failure, settled,
                     started, delivered, exhausted, outcome, handed, returned>>
  BY DEF SelectorSettles, countVars, endVars
<1>2. PICK how \in {"value", "error"} : task' = [task EXCEPT ![p] = how]
  BY <1>1
<1>3. /\ task' \in [Positions -> {"none", "running", "value", "error", "over"}]
      /\ task'[p] = how
      /\ \A q \in Positions : q # p => task'[q] = task[q]
  BY <1>2 DEF IInv, TypeOK
<1>4. /\ Awaited' = Awaited \cup {p} /\ p \notin Awaited
      /\ Over' = Over /\ p \notin Over
      /\ Unsettled' = Unsettled /\ p \in Unsettled
  BY <1>1, <1>3 DEF Awaited, Over, Unsettled
<1>5. LooksAt(jobs', Awaited', Over')
  BY <1>1, <1>4, LooksAtOneMore DEF IInv, JobsSettle
<1>6. JobsSettle'
  BY <1>5 DEF JobsSettle, LooksAt, Elements
<1>7. TasksAreCounted'
  BY <1>1, <1>3, <1>4 DEF IInv, TasksAreCounted
<1>8. Settled' = Settled /\ concurrency' = concurrency /\ ordered' = ordered
  BY <1>1, SameNames
<1>9. ResultsArrive'
  <2>1. \A q \in Settled : task'[q] = "over"
    <3>1. Settled \subseteq Positions
      BY DEF IInv, TypeOK, Settled, Elements
    <3> QED
      BY <3>1, <1>1, <1>3 DEF IInv, ResultsArrive
  <2>2. failure = None => \A q \in Positions : task'[q] = "over" => q \in Settled
    BY <1>3 DEF IInv, ResultsArrive
  <2> QED
    BY <2>1, <2>2, <1>1, <1>8 DEF IInv, ResultsArrive
<1>10. CountsAgree'
  BY <1>1, <1>8 DEF IInv, CountsAgree
<1>11. OrderIsKept'
  BY <1>1, <1>8 DEF IInv, OrderIsKept, InSourceOrder, InOrderOfArrival, Elements, Distinct
<1>12. EndsAsItStands'
  BY <1>1, <1>4 DEF IInv, EndsAsItStands
<1>13. TypeOK'
  BY <1>1, <1>3, <1>5 DEF IInv, TypeOK, LooksAt
<1> QED
  BY <1>6, <1>7, <1>9, <1>10, <1>11, <1>12, <1>13 DEF IInv

LEMMA TaskStarts ==
  ASSUME IInv, jobs # <<>>, pc = "pulling", answer' = "none", Starts
  PROVE  IInv'
<1> DEFINE p == started
<1>0. /\ concurrency \in Nat \ {0} /\ started \in Nat /\ delivered \in Nat
      /\ Count \in Nat /\ delivered <= started
  BY OptionsAre DEF IInv
<1>1. /\ answer = "item"
      /\ started' = started + 1
      /\ running' = running \cup {p}
      /\ UNCHANGED <<options, arrived, finished, settled, delivered, exhausted,
                     outcome, handed, returned>>
      /\ \/ /\ task' = [task EXCEPT ![p] = "running"]
            /\ failure' = failure
            /\ Fill(failure, started + 1 - delivered, running', Tail(jobs))
         \/ /\ task' = [task EXCEPT ![p] = "over"]
            /\ failure' = IF failure = None THEN p ELSE failure
            /\ Fill(failure', started + 1 - delivered, running',
                    Append(Tail(jobs), Deleting(p)))
  BY DEF Starts, Position, endVars
<1>2. /\ started < Count /\ p \in Positions /\ ~exhausted
      /\ started - delivered < concurrency
  BY <1>0, <1>1, PositionsAre DEF IInv, CountsAgree
<1>3. task[p] = "none"
  BY <1>0, <1>2 DEF IInv, TasksAreCounted
<1>4. LooksAt(Tail(jobs), Awaited, Over)
  BY JobsAre
<1>5. /\ task' \in [Positions -> {"none", "running", "value", "error", "over"}]
      /\ task'[p] \in {"running", "over"}
      /\ \A q \in Positions : q # p => task'[q] = task[q]
      /\ task'[p] = "over" => failure' # None
      /\ failure # None => failure' = failure
      /\ failure' \in Positions \cup {None}
      /\ task'[p] # "over" => failure' = failure
  <2>1. CASE task' = [task EXCEPT ![p] = "running"] /\ failure' = failure
    BY <1>2, <2>1 DEF IInv, TypeOK
  <2>2. CASE task' = [task EXCEPT ![p] = "over"]
             /\ failure' = IF failure = None THEN p ELSE failure
    BY <1>2, <2>2, PositionsAre DEF IInv, TypeOK
  <2> QED
    BY <1>1, <2>1, <2>2
<1>6. /\ LooksAt(jobs', Awaited', Over')
      /\ pc' \in {"pulling", "filled"}
      /\ pc' = "pulling" => ~exhausted /\ started + 1 - delivered < concurrency
  <2>1. CASE task' = [task EXCEPT ![p] = "running"]
             /\ Fill(failure, started + 1 - delivered, running', Tail(jobs))
    <3>1. task'[p] = "running"
      BY <1>2, <2>1 DEF IInv, TypeOK
    <3>2. Awaited' = Awaited /\ Over' = Over
      BY <1>3, <1>5, <3>1 DEF Awaited, Over
    <3> QED
      BY <1>4, <2>1, <3>2, FillDoes
  <2>2. CASE task' = [task EXCEPT ![p] = "over"]
             /\ Fill(failure', started + 1 - delivered, running',
                     Append(Tail(jobs), Deleting(p)))
    <3>1. task'[p] = "over"
      BY <1>2, <2>2 DEF IInv, TypeOK
    <3>2. Awaited' = Awaited /\ Over' = Over \cup {p}
      BY <1>2, <1>3, <1>5, <3>1 DEF Awaited, Over
    <3>3. LooksAt(Tail(jobs), Awaited, Over \cup {p})
      BY <1>4 DEF LooksAt
    <3>4. LooksAt(Append(Tail(jobs), Deleting(p)), Awaited, Over \cup {p})
      <4>1. Deleting(p) \in Jobs /\ \A q \in Positions :
              Deleting(p) # Settling(q) /\ (Deleting(p) = Deleting(q) => q = p)
        BY <1>2, JobsDiffer
      <4> QED
        BY <3>3, <4>1, LooksAfter
    <3> HIDE DEF p
    <3> QED
      BY <2>2, <3>2, <3>4, FillDoes
  <2> QED
    BY <1>1, <2>1, <2>2
<1>7. JobsSettle'
  BY <1>6 DEF JobsSettle, LooksAt, Elements
<1>8. TasksAreCounted'
  <2>1. ASSUME NEW q \in Positions PROVE q >= started + 1 <=> task'[q] = "none"
    <3>1. q \in Nat
      BY PositionsAre
    <3>2. CASE q = p
      BY <3>2, <1>0, <1>5
    <3>3. CASE q # p
      <4>1. q >= started + 1 <=> q >= started
        BY <3>1, <3>3, <1>0
      <4> QED
        BY <3>3, <4>1, <1>5 DEF IInv, TasksAreCounted
    <3> QED
      BY <3>2, <3>3
  <2>2. Unsettled' \subseteq running'
    <3>1. Unsettled' \subseteq Unsettled \cup {p}
      BY <1>5 DEF Unsettled
    <3> QED
      BY <3>1, <1>1 DEF IInv, TasksAreCounted
  <2> QED
    BY <2>1, <2>2, <1>1 DEF TasksAreCounted
<1>9. Settled' = Settled /\ concurrency' = concurrency /\ ordered' = ordered
  BY <1>1, SameNames
<1>10. ResultsArrive'
  <2>0. Settled \subseteq Positions
    BY DEF IInv, TypeOK, Settled, Elements
  <2>1. \A q \in Settled : task'[q] = "over"
    BY <2>0, <1>3, <1>5 DEF IInv, ResultsArrive
  <2>2. failure' = None => \A q \in Positions : task'[q] = "over" => q \in Settled
    BY <1>5 DEF IInv, ResultsArrive
  <2>3. settled' = settled
    BY <1>1
  <2> QED
    BY <2>1, <2>2, <2>3, <1>9 DEF IInv, ResultsArrive
<1>11. CountsAgree'
  BY <1>0, <1>1, <1>2, <1>6, <1>9 DEF IInv, CountsAgree
<1>12. OrderIsKept'
  BY <1>1, <1>9 DEF IInv, OrderIsKept, InSourceOrder, InOrderOfArrival, Elements, Distinct
<1>13. EndsAsItStands'
  <2>1. outcome = "none" /\ returned = 0
    BY DEF IInv, EndsAsItStands
  <2> QED
    BY <2>1, <1>1, <1>6 DEF EndsAsItStands
<1>14. TypeOK'
  <2>1. running' \subseteq Positions /\ started' \in 0 .. Count /\ delivered' \in 0 .. started'
    BY <1>0, <1>1, <1>2 DEF IInv, TypeOK
  <2>2. jobs' \in Seq(Jobs)
    BY <1>6 DEF LooksAt
  <2> QED
    BY <1>1, <1>5, <1>6, <2>1, <2>2 DEF IInv, TypeOK
<1> QED
  BY <1>7, <1>8, <1>10, <1>11, <1>12, <1>13, <1>14 DEF IInv

LEMMA TaskEnds ==
  ASSUME IInv, jobs # <<>>, NEW p \in Positions, Head(jobs) = Settling(p), TaskBody(p)
  PROVE  IInv'
<1> DEFINE wakes == Notifies(task[p])
<1>1. /\ task' = [task EXCEPT ![p] = "over"]
      /\ IF task[p] = "value"
         THEN /\ arrived' = arrived \cup {p}
              /\ finished' = Append(finished, p)
              /\ settled' = Append(settled, p)
              /\ failure' = failure
         ELSE /\ failure' = IF failure = None THEN p ELSE failure
              /\ UNCHANGED <<arrived, finished, settled>>
      /\ pc' = IF wakes THEN "woken" ELSE pc
      /\ jobs' = Tail(jobs) \o (IF wakes THEN <<Loop>> ELSE <<>>) \o <<Deleting(p)>>
      /\ UNCHANGED <<options, answer, running, started, delivered, exhausted,
                     outcome, handed, returned>>
  BY DEF TaskBody, countVars, endVars
<1>2. wakes => pc = "parked"
  BY DEF Notifies
<1> HIDE DEF wakes
<1>3. task[p] \in {"value", "error"} /\ p \in Awaited /\ p \in Unsettled
      /\ LooksAt(Tail(jobs), Awaited \ {p}, Over)
  BY JobsAre DEF Awaited, Unsettled
<1>4. /\ task' \in [Positions -> {"none", "running", "value", "error", "over"}]
      /\ task'[p] = "over"
      /\ \A q \in Positions : q # p => task'[q] = task[q]
  BY <1>1 DEF IInv, TypeOK
<1>5. Awaited' = Awaited \ {p} /\ Over' = Over \cup {p} /\ Unsettled' = Unsettled \ {p}
  BY <1>4 DEF Awaited, Over, Unsettled
<1>6. LooksAt(jobs', Awaited', Over')
  <2>1. LooksAt(Tail(jobs), Awaited \ {p}, Over \cup {p})
    BY <1>3 DEF LooksAt
  <2>2. LooksAt(Append(Tail(jobs), Loop), Awaited \ {p}, Over \cup {p})
    BY <2>1, LooksAfter, JobsDiffer
  <2>3. Deleting(p) \in Jobs /\ Loop \in Jobs /\ \A q \in Positions :
          Deleting(p) # Settling(q) /\ (Deleting(p) = Deleting(q) => q = p)
    BY JobsDiffer
  <2>4. CASE wakes
    <3>1. Tail(jobs) \in Seq(Jobs)
      BY <2>1 DEF LooksAt
    <3>2. jobs' = (Tail(jobs) \o <<Loop>>) \o <<Deleting(p)>>
      BY <1>1, <2>4
    <3>3. Tail(jobs) \o <<Loop>> = Append(Tail(jobs), Loop)
      BY <2>3, <3>1, Joined
    <3>4. Append(Tail(jobs), Loop) \in Seq(Jobs)
      BY <2>2 DEF LooksAt
    <3>5. jobs' = Append(Append(Tail(jobs), Loop), Deleting(p))
      BY <2>3, <3>2, <3>3, <3>4, Joined
    <3> QED
      BY <1>5, <2>2, <2>3, <3>5, LooksAfter
  <2>5. CASE ~wakes
    <3>1. Tail(jobs) \in Seq(Jobs)
      BY <2>1 DEF LooksAt
    <3>2. jobs' = (Tail(jobs) \o <<>>) \o <<Deleting(p)>>
      BY <1>1, <2>5
    <3>3. Tail(jobs) \o <<>> = Tail(jobs)
      BY <3>1
    <3>5. jobs' = Append(Tail(jobs), Deleting(p))
      BY <2>3, <3>1, <3>2, <3>3, Joined
    <3> QED
      BY <1>5, <2>1, <2>3, <3>5, LooksAfter
  <2> QED
    BY <2>4, <2>5
<1>7. JobsSettle'
  BY <1>6 DEF JobsSettle, LooksAt, Elements
<1>8. TasksAreCounted'
  <2>1. \A q \in Positions : q >= started <=> task'[q] = "none"
    BY <1>3, <1>4 DEF IInv, TasksAreCounted
  <2> QED
    BY <2>1, <1>1, <1>5 DEF IInv, TasksAreCounted
<1>9. concurrency' = concurrency /\ ordered' = ordered
  BY <1>1, SameNames
<1>10. p \notin Settled /\ settled \in Seq(Positions) /\ finished \in Seq(Positions)
       /\ Settled \subseteq Positions
  <2>1. settled \in Seq(Positions) /\ finished \in Seq(Positions)
    BY DEF IInv, TypeOK
  <2>2. Settled \subseteq Positions
    BY <2>1 DEF Settled, Elements
  <2>3. \A q \in Settled : task[q] = "over"
    BY DEF IInv, ResultsArrive
  <2>4. p \notin Settled
    BY <1>3, <2>3
  <2> QED
    BY <2>1, <2>2, <2>4
<1>11. CASE task[p] = "value"
  <2>1. /\ arrived' = arrived \cup {p}
        /\ finished' = Append(finished, p)
        /\ settled' = Append(settled, p)
        /\ failure' = failure
    BY <1>1, <1>11
  <2>2. settled' \in Seq(Positions) /\ Settled' = Settled \cup {p} /\ Len(settled') = Len(settled) + 1
    <3>1. settled' \in Seq(Positions) /\ Elements(settled') = Elements(settled) \cup {p}
      BY <1>10, <2>1, Appended
    <3>2. Len(settled') = Len(settled) + 1
      BY <1>10, <2>1
    <3> QED
      BY <3>1, <3>2 DEF Settled, Elements
  <2>3. ResultsArrive'
    <3>1. \A q \in Settled' : task'[q] = "over"
      BY <2>2, <1>4, <1>10 DEF IInv, ResultsArrive
    <3>2. failure = None => \A q \in Positions : task'[q] = "over" => q \in Settled'
      BY <2>2, <1>4 DEF IInv, ResultsArrive
    <3>3. IsFiniteSet(Settled') /\ Cardinality(Settled') = Cardinality(Settled) + 1
      BY <2>2, <1>10, FS_AddElement DEF IInv, ResultsArrive
    <3>4. Cardinality(Settled') = Len(settled')
      BY <2>2, <3>3 DEF IInv, ResultsArrive
    <3> QED
      BY <2>1, <3>1, <3>2, <3>3, <3>4 DEF ResultsArrive
  <2>4. OrderIsKept'
    <3>0. ordered \in BOOLEAN
      BY OptionsAre DEF IInv
    <3>1. CASE ordered
      <4>1. InSourceOrder
        BY <3>1 DEF IInv, OrderIsKept
      <4>2. p >= delivered
        BY <4>1, <1>10, PositionsAre, OptionsAre DEF InSourceOrder, IInv
      <4>3. arrived' = {q \in Settled' : q >= delivered}
        BY <4>1, <4>2, <2>1, <2>2 DEF InSourceOrder
      <4>4. InSourceOrder'
        BY <4>1, <4>3, <2>2, <1>1 DEF InSourceOrder
      <4> QED
        BY <3>1, <4>4, <1>9 DEF OrderIsKept
    <3>2. CASE ~ordered
      <4>1. /\ settled = handed \o finished
            /\ Distinct(finished)
            /\ Elements(finished) \subseteq arrived
        BY <3>2 DEF IInv, OrderIsKept, InOrderOfArrival
      <4>2. handed \in Seq(Positions)
        BY DEF IInv, TypeOK
      <4>3. settled' = handed \o finished'
        <5>1. Append(handed \o finished, p) = handed \o Append(finished, p)
          BY <4>2, <1>10, SMTT(30)
        <5> QED
          BY <4>1, <5>1, <2>1
      <4>4. p \notin Elements(finished)
        <5> SUFFICES ASSUME NEW i \in 1 .. Len(finished), finished[i] = p PROVE FALSE
          BY DEF Elements
        <5>1. Len(handed) + i \in 1 .. Len(settled) /\ settled[Len(handed) + i] = p
          BY <4>1, <4>2, <1>10
        <5> QED
          BY <5>1, <1>10 DEF Settled, Elements
      <4>5. Elements(finished') = Elements(finished) \cup {p} /\ Distinct(finished')
        BY <4>1, <4>4, <1>10, <2>1, Appended
      <4>6. InOrderOfArrival'
        BY <4>1, <4>3, <4>5, <2>1, <1>1 DEF InOrderOfArrival, Elements, Distinct
      <4> QED
        BY <3>2, <4>6, <1>9 DEF OrderIsKept
    <3> QED
      BY <3>1, <3>2
  <2>5. finished' \in Seq(Positions) /\ failure' \in Positions \cup {None}
    BY <2>1, <1>10, Appended DEF IInv, TypeOK
  <2>6. TypeOK'
    BY <1>1, <1>4, <1>6, <2>1, <2>2, <2>5 DEF IInv, TypeOK, LooksAt
  <2>7. CountsAgree'
    BY <1>1, <1>2, <1>9 DEF IInv, CountsAgree
  <2>8. EndsAsItStands'
    BY <1>1, <1>2, <1>3, <1>5, <2>1 DEF IInv, EndsAsItStands
  <2> QED
    BY <1>7, <1>8, <2>3, <2>4, <2>6, <2>7, <2>8 DEF IInv
<1>12. CASE task[p] # "value"
  <2>1. /\ failure' = IF failure = None THEN p ELSE failure
        /\ UNCHANGED <<arrived, finished, settled>>
    BY <1>1, <1>12
  <2>2. failure' # None /\ failure' \in Positions \cup {None}
    BY <2>1, PositionsAre DEF IInv, TypeOK
  <2>3. Settled' = Settled
    BY <2>1, SameNames
  <2>4. ResultsArrive'
    BY <1>4, <1>10, <2>1, <2>2, <2>3 DEF IInv, ResultsArrive
  <2>5. OrderIsKept'
    BY <1>1, <1>9, <2>1, <2>3
       DEF IInv, OrderIsKept, InSourceOrder, InOrderOfArrival, Elements, Distinct
  <2>6. TypeOK'
    BY <1>1, <1>4, <1>6, <2>1, <2>2 DEF IInv, TypeOK, LooksAt
  <2>7. CountsAgree'
    BY <1>1, <1>2, <1>9 DEF IInv, CountsAgree
  <2>8. EndsAsItStands'
    BY <1>1, <1>2, <1>3, <1>5, <2>1 DEF IInv, EndsAsItStands
  <2> QED
    BY <1>7, <1>8, <2>4, <2>5, <2>6, <2>7, <2>8 DEF IInv
<1> QED
  BY <1>11, <1>12

-----------------------------------------------------------------------------
(* A turn of the loop.                                                     *)

LEMMA SettledWerePulled ==
  ASSUME IInv
  PROVE  Len(settled) \in Nat /\ Len(settled) <= started
<1>1. started \in Nat
  BY OptionsAre DEF IInv
<1>2. \A p \in Settled : p \in 0 .. (started - 1)
  <2> SUFFICES ASSUME NEW p \in Settled PROVE p \in 0 .. (started - 1)
    OBVIOUS
  <2>1. p \in Positions
    BY DEF IInv, TypeOK, Settled, Elements
  <2>2. task[p] = "over"
    BY DEF IInv, ResultsArrive
  <2>3. ~(p >= started)
    BY <2>1, <2>2 DEF IInv, TasksAreCounted
  <2>4. p \in Nat
    BY <2>1, PositionsAre
  <2> QED
    BY <1>1, <2>3, <2>4
<1>3. IsFiniteSet(0 .. (started - 1)) /\ Cardinality(0 .. (started - 1)) = started
  <2>1. 0 \in Int /\ started - 1 \in Int
    BY <1>1
  <2>2. /\ IsFiniteSet(0 .. (started - 1))
        /\ Cardinality(0 .. (started - 1)) =
             IF 0 > started - 1 THEN 0 ELSE (started - 1) - 0 + 1
    BY <2>1, FS_Interval
  <2>3. (IF 0 > started - 1 THEN 0 ELSE (started - 1) - 0 + 1) = started
    BY <1>1
  <2> QED
    BY <2>2, <2>3
<1>4. Settled \subseteq 0 .. (started - 1)
  BY <1>2
<1>5. Cardinality(Settled) <= Cardinality(0 .. (started - 1))
  BY <1>3, <1>4, FS_Subset
<1>6. Len(settled) \in Nat
  BY DEF IInv, TypeOK
<1>7. Cardinality(Settled) = Len(settled)
  BY DEF IInv, ResultsArrive
<1> QED
  BY <1>3, <1>5, <1>6, <1>7

LEMMA HandedAre ==
  ASSUME IInv
  PROVE  /\ handed \in Seq(Positions) /\ finished \in Seq(Positions) /\ settled \in Seq(Positions)
         /\ Len(handed) = delivered /\ Settled \subseteq Positions
         /\ ordered \in BOOLEAN
<1>1. handed \in Seq(Positions) /\ finished \in Seq(Positions) /\ settled \in Seq(Positions)
  BY DEF IInv, TypeOK
<1>2. Settled \subseteq Positions
  BY <1>1 DEF Settled, Elements
<1>3. ordered \in BOOLEAN
  BY OptionsAre DEF IInv
<1> QED
  BY <1>1, <1>2, <1>3 DEF IInv, CountsAgree

LEMMA OneMoreWasPulled ==
  ASSUME IInv, NEW p \in Deliverable
  PROVE  /\ p \in Positions /\ delivered + 1 <= started
         /\ ordered => p = delivered
         /\ ~ordered => finished # <<>> /\ p = Head(finished)
<1>1. /\ started \in Nat /\ delivered \in Nat
  BY OptionsAre DEF IInv
<1>2. p \in arrived /\ p \in Positions
  BY DEF Deliverable, IInv, TypeOK
<1>3. /\ ordered => p = delivered
      /\ ~ordered => finished # <<>> /\ p = Head(finished)
  BY DEF Deliverable
<1>4. CASE ordered
  <2>1. p \in Settled
    BY <1>2, <1>4 DEF IInv, OrderIsKept, InSourceOrder
  <2>2. task[p] = "over"
    BY <2>1 DEF IInv, ResultsArrive
  <2>3. ~(p >= started)
    BY <1>2, <2>2 DEF IInv, TasksAreCounted
  <2> QED
    BY <1>1, <1>2, <1>3, <1>4, <2>3
<1>5. CASE ~ordered
  <2>1. settled = handed \o finished /\ finished # <<>>
    BY <1>3, <1>5 DEF IInv, OrderIsKept, InOrderOfArrival
  <2>2. /\ handed \in Seq(Positions) /\ finished \in Seq(Positions)
        /\ Len(handed) = delivered
    BY HandedAre
  <2>3. Len(finished) \in Nat /\ Len(finished) # 0
    <3>1. finished \in Seq(Positions) /\ finished # <<>>
      BY <2>1, <2>2
    <3> QED
      BY <3>1
  <2>4. Len(settled) = delivered + Len(finished)
    <3>1. Len(handed \o finished) = Len(handed) + Len(finished)
      BY <2>2
    <3> QED
      BY <2>1, <2>2, <3>1
  <2>5. Len(settled) <= started
    BY SettledWerePulled
  <2> QED
    BY <1>1, <1>2, <1>3, <1>5, <2>3, <2>4, <2>5
<1> QED
  BY <1>3, <1>4, <1>5

LEMMA AllIsHandedOver ==
  ASSUME IInv, failure = None, Deliverable = {}, NothingLeft
  PROVE  delivered = Count /\ exhausted /\ Unsettled = {}
<1>1. /\ exhausted /\ running = {} /\ started = Count
  BY DEF NothingLeft, IInv, CountsAgree
<1>2. Unsettled = {}
  BY <1>1 DEF IInv, TasksAreCounted
<1>3. Count \in Nat /\ delivered \in Nat /\ delivered <= Count
  BY <1>1, OptionsAre DEF IInv
<1>4. Positions \subseteq Settled
  <2> SUFFICES ASSUME NEW p \in Positions PROVE p \in Settled
    OBVIOUS
  <2>1. ~(p >= started)
    BY <1>1, <1>3, PositionsAre
  <2>2. task[p] # "none"
    BY <2>1 DEF IInv, TasksAreCounted
  <2>3. task[p] \in {"none", "running", "value", "error", "over"}
    BY DEF IInv, TypeOK
  <2>4. task[p] \notin {"running", "value", "error"}
    BY <1>2 DEF Unsettled
  <2>5. task[p] = "over"
    BY <2>2, <2>3, <2>4
  <2> QED
    BY <2>5 DEF IInv, ResultsArrive
<1>5. CASE ordered
  <2> SUFFICES ASSUME delivered < Count PROVE FALSE
    BY <1>1, <1>2, <1>3
  <2>1. delivered \in Positions
    BY <1>3, PositionsAre
  <2>2. delivered \in Settled /\ delivered >= delivered
    BY <2>1, <1>3, <1>4
  <2>3. delivered \in arrived
    BY <1>5, <2>2 DEF IInv, OrderIsKept, InSourceOrder
  <2> QED
    BY <1>5, <2>3 DEF Deliverable
<1>6. CASE ~ordered
  <2>1. settled = handed \o finished /\ Elements(finished) \subseteq arrived
    BY <1>6 DEF IInv, OrderIsKept, InOrderOfArrival
  <2>2. /\ handed \in Seq(Positions) /\ finished \in Seq(Positions)
        /\ Len(handed) = delivered /\ Settled \subseteq Positions
    BY HandedAre
  <2>3. finished = <<>>
    <3> SUFFICES ASSUME finished # <<>> PROVE FALSE
      OBVIOUS
    <3>1. Head(finished) \in Elements(finished)
      BY <2>2, Popped
    <3> QED
      BY <1>6, <2>1, <3>1 DEF Deliverable
  <2>4. Len(settled) = delivered
    BY <2>1, <2>2, <2>3
  <2>5. Settled = Positions
    BY <1>4, <2>2
  <2>6. Cardinality(Positions) = Count
    <3>1. Cardinality(0 .. (Count - 1)) = IF 0 > Count - 1 THEN 0 ELSE (Count - 1) - 0 + 1
      BY <1>3, FS_Interval
    <3>2. (IF 0 > Count - 1 THEN 0 ELSE (Count - 1) - 0 + 1) = Count
      BY <1>3
    <3> QED
      BY <3>1, <3>2 DEF Positions
  <2>7. Cardinality(Settled) = Len(settled)
    BY DEF IInv, ResultsArrive
  <2> QED
    BY <1>1, <1>2, <2>4, <2>5, <2>6, <2>7
<1> QED
  BY <1>5, <1>6

LEMMA HandsOver ==
  ASSUME IInv, jobs # <<>>, pc \in {"filled", "woken"}, failure = None, NEW p \in Deliverable,
         arrived' = arrived \ {p}, handed' = Append(handed, p),
         finished' = IF ordered THEN finished ELSE Tail(finished),
         delivered' = delivered + 1,
         pc' = "yielding",
         jobs' = Append(Tail(jobs), Loop),
         UNCHANGED <<options, answer, running, failure, task, settled, started, exhausted,
                     outcome, returned>>
  PROVE  IInv'
<1>1. /\ p \in Positions /\ delivered + 1 <= started
      /\ ordered => p = delivered
      /\ ~ordered => finished # <<>> /\ p = Head(finished)
  BY OneMoreWasPulled
<1>2. /\ handed \in Seq(Positions) /\ finished \in Seq(Positions) /\ settled \in Seq(Positions)
      /\ Len(handed) = delivered /\ Settled \subseteq Positions /\ ordered \in BOOLEAN
  BY HandedAre
<1>3. /\ concurrency \in Nat \ {0} /\ started \in Nat /\ delivered \in Nat
      /\ started <= Count /\ Count \in Nat
  BY OptionsAre DEF IInv
<1>4. /\ Unsettled' = Unsettled /\ Awaited' = Awaited /\ Over' = Over /\ Settled' = Settled
      /\ ordered' = ordered /\ concurrency' = concurrency
  BY SameNames
<1>5. LooksAt(jobs', Awaited, Over)
  BY JobsAre
<1>6. JobsSettle'
  BY <1>4, <1>5 DEF JobsSettle, LooksAt, Elements
<1>7. TasksAreCounted'
  BY <1>4 DEF IInv, TasksAreCounted
<1>8. ResultsArrive'
  BY <1>4 DEF IInv, ResultsArrive
<1>9. /\ handed' \in Seq(Positions) /\ Len(handed') = delivered + 1
      /\ handed'[delivered + 1] = p
      /\ \A i \in 1 .. delivered : handed'[i] = handed[i]
  BY <1>1, <1>2
<1>10. finished' \in Seq(Positions)
  <2>1. CASE ordered
    BY <1>2, <2>1
  <2>2. CASE ~ordered
    BY <1>1, <1>2, <2>2, Popped
  <2> QED
    BY <2>1, <2>2
<1>11. CountsAgree'
  BY <1>1, <1>3, <1>4, <1>9 DEF IInv, CountsAgree
<1>12. ASSUME ordered PROVE OrderIsKept'
  <2>1. /\ \A i \in 1 .. Len(handed) : handed[i] = i - 1
        /\ \A q \in Positions : q < delivered => q \in Settled
        /\ arrived = {q \in Settled : q >= delivered}
    BY <1>12 DEF IInv, OrderIsKept, InSourceOrder
  <2>2. \A i \in 1 .. Len(handed') : handed'[i] = i - 1
    BY <2>1, <1>1, <1>2, <1>3, <1>9, <1>12
  <2>3. \A q \in Positions : q < delivered + 1 => q \in Settled
    <3>1. p \in Settled
      BY <2>1 DEF Deliverable
    <3> QED
      BY <2>1, <3>1, <1>1, <1>3, <1>12, PositionsAre
  <2>4. arrived' = {q \in Settled : q >= delivered + 1}
    <3>1. \A q \in Settled : q >= delivered + 1 <=> q >= delivered /\ q # delivered
      BY <1>2, <1>3, PositionsAre
    <3> QED
      BY <2>1, <3>1, <1>1, <1>12
  <2>5. InSourceOrder'
    BY <2>2, <2>3, <2>4, <1>4 DEF InSourceOrder
  <2> QED
    BY <2>5, <1>4, <1>12 DEF OrderIsKept
<1>13. ASSUME ~ordered PROVE OrderIsKept'
  <2>1. /\ settled = handed \o finished
        /\ Distinct(finished)
        /\ Elements(finished) \subseteq arrived
    BY <1>13 DEF IInv, OrderIsKept, InOrderOfArrival
  <2>2. finished # <<>> /\ p = Head(finished) /\ finished' = Tail(finished)
    BY <1>1, <1>13
  <2>3. /\ Elements(finished) = {p} \cup Elements(finished')
        /\ p \notin Elements(finished') /\ Distinct(finished')
    BY <1>2, <2>1, <2>2, Popped
  <2>4. settled = handed' \o finished'
    <3>1. finished = <<p>> \o finished'
      BY <1>2, <2>2
    <3>2. ASSUME NEW f \in Seq(Positions)
          PROVE  handed \o (<<p>> \o f) = Append(handed, p) \o f
      <4>1. handed \in Seq(Positions) /\ p \in Positions /\ <<p>> \in Seq(Positions)
        BY <1>1, <1>2
      <4>2. handed \o (<<p>> \o f) = (handed \o <<p>>) \o f
        BY <3>2, <4>1, Regrouped
      <4>3. handed \o <<p>> = Append(handed, p)
        BY <4>1, Joined
      <4> QED
        BY <4>2, <4>3
    <3> QED
      BY <2>1, <3>1, <3>2, <1>10
  <2>5. Elements(finished') \subseteq arrived'
    BY <2>1, <2>3
  <2>6. InOrderOfArrival'
    BY <2>3, <2>4, <2>5 DEF InOrderOfArrival, Elements, Distinct
  <2> QED
    BY <2>6, <1>4, <1>13 DEF OrderIsKept
<1>14. OrderIsKept'
  BY <1>2, <1>12, <1>13
<1>15. EndsAsItStands'
  <2>1. outcome = "none" /\ returned = 0
    BY DEF IInv, EndsAsItStands
  <2>2. handed' # <<>>
    BY <1>3, <1>9
  <2> QED
    BY <2>1, <2>2 DEF EndsAsItStands
<1>16. TypeOK'
  <2>1. delivered' \in 0 .. started'
    BY <1>1, <1>3
  <2>2. jobs' \in Seq(Jobs)
    BY <1>5 DEF LooksAt
  <2> QED
    BY <2>1, <2>2, <1>9, <1>10 DEF IInv, TypeOK
<1> QED
  BY <1>6, <1>7, <1>8, <1>11, <1>14, <1>15, <1>16 DEF IInv

LEMMA LoopTurns ==
  ASSUME IInv, jobs # <<>>, Turn
  PROVE  IInv'
<1>0. /\ pc \in {"filled", "woken"}
      /\ UNCHANGED <<options, answer, running, failure, task, settled, started, exhausted,
                     returned>>
  BY DEF Turn
<1>1. LooksAt(Tail(jobs), Awaited, Over) /\ Unsettled \subseteq running
  BY JobsAre DEF IInv, TasksAreCounted
<1>2. CASE \E p \in Deliverable :
             /\ ~Broken
             /\ arrived' = arrived \ {p}
             /\ handed' = Append(handed, p)
             /\ finished' = IF ordered THEN finished ELSE Tail(finished)
             /\ delivered' = delivered + 1
             /\ pc' = "yielding"
             /\ jobs' = Append(Tail(jobs), Loop)
             /\ UNCHANGED outcome
  BY <1>0, <1>2, HandsOver DEF Broken
<1>3. CASE /\ jobs' = Tail(jobs)
           /\ UNCHANGED <<arrived, finished, delivered, handed>>
           /\ \/ Broken /\ pc' = "draining" /\ outcome' = "failed"
              \/ /\ ~Broken /\ Deliverable = {}
                 /\ pc' = IF NothingLeft THEN "draining" ELSE "parked"
                 /\ outcome' = IF NothingLeft THEN "ended" ELSE outcome
  <2>1. JobsSettle' /\ TasksAreCounted' /\ ResultsArrive' /\ OrderIsKept'
    BY <1>0, <1>1, <1>3, OnlyMoves
  <2>2. /\ outcome = "none" /\ returned = 0 /\ answer = "none"
    BY <1>0 DEF IInv, EndsAsItStands, CountsAgree, TypeOK
  <2>3. \/ pc' = "draining" /\ outcome' = "failed"
        \/ pc' = "draining" /\ outcome' = "ended" /\ delivered = Count /\ failure = None
             /\ exhausted /\ Unsettled = {}
        \/ pc' = "parked" /\ outcome' = "none"
    BY <1>3, <2>2, AllIsHandedOver DEF Broken
  <2>4. jobs' \in Seq(Jobs)
    BY <1>1, <1>3 DEF LooksAt
  <2>5. TypeOK'
    BY <1>0, <1>3, <2>2, <2>3, <2>4 DEF IInv, TypeOK
  <2>6. concurrency' = concurrency /\ Unsettled' = Unsettled
    BY <1>0, SameNames
  <2>7. CountsAgree'
    BY <1>0, <1>3, <2>2, <2>3, <2>6 DEF IInv, CountsAgree
  <2>8. EndsAsItStands'
    BY <1>0, <1>3, <2>2, <2>3, <2>6 DEF IInv, EndsAsItStands
  <2> QED
    BY <2>1, <2>5, <2>7, <2>8 DEF IInv
<1> QED
  BY <1>2, <1>3 DEF Turn

-----------------------------------------------------------------------------
(* The invariant, and what follows from it.                                *)

LEMMA Starting ==
  ASSUME Init
  PROVE  IInv
<1>1. Count \in Nat /\ Positions \subseteq Nat /\ None = Count /\ None \notin Positions
  BY PositionsAre
<1>2. options.concurrency \in Nat \ {0} /\ options.concurrency = concurrency
  BY MapAssumption DEF Init, concurrency
<1>3. TypeOK
  <2>1. task \in [Positions -> {"none", "running", "value", "error", "over"}]
    BY DEF Init
  <2>2. started \in 0 .. Count /\ delivered \in 0 .. started /\ returned \in 0 .. 1
    BY <1>1 DEF Init
  <2>3. jobs \in Seq(Jobs) /\ finished \in Seq(Positions) /\ handed \in Seq(Positions)
        /\ settled \in Seq(Positions)
    BY DEF Init
  <2> QED
    BY <2>1, <2>2, <2>3 DEF Init, TypeOK
<1>4. Settled = {} /\ Awaited = {} /\ Over = {} /\ Unsettled = {}
  BY DEF Init, Settled, Elements, Awaited, Over, Unsettled
<1>5. JobsSettle
  BY DEF Init, JobsSettle, LooksAt, Elements
<1>6. TasksAreCounted
  BY <1>1, <1>4 DEF Init, TasksAreCounted
<1>7. ResultsArrive
  <2>1. IsFiniteSet({}) /\ Cardinality({}) = 0
    BY FS_EmptySet
  <2>2. Len(settled) = 0
    BY DEF Init
  <2> QED
    BY <1>4, <2>1, <2>2 DEF Init, ResultsArrive
<1>8. CountsAgree
  BY <1>2 DEF Init, CountsAgree
<1>9. InSourceOrder /\ InOrderOfArrival
  BY <1>1, <1>4 DEF Init, InSourceOrder, InOrderOfArrival, Elements, Distinct
<1>10. EndsAsItStands
  BY <1>4 DEF Init, EndsAsItStands
<1> QED
  BY <1>3, <1>5, <1>6, <1>7, <1>8, <1>9, <1>10 DEF IInv, OrderIsKept

LEMMA Stuttering ==
  ASSUME IInv, UNCHANGED vars
  PROVE  IInv'
<1>1. UNCHANGED <<options, pc, jobs, answer, arrived, finished, running, failure, task, settled,
                  started, delivered, exhausted, outcome, handed, returned>>
  BY DEF vars, workVars, countVars, endVars
<1>2. JobsSettle' /\ TasksAreCounted' /\ ResultsArrive' /\ OrderIsKept'
  BY <1>1, OnlyMoves DEF IInv, JobsSettle, TasksAreCounted
<1>3. concurrency' = concurrency /\ Unsettled' = Unsettled
  BY <1>1, SameNames
<1>4. TypeOK'
  BY <1>1 DEF IInv, TypeOK
<1>5. CountsAgree'
  BY <1>1, <1>3 DEF IInv, CountsAgree
<1>6. EndsAsItStands'
  BY <1>1, <1>3 DEF IInv, EndsAsItStands
<1> QED
  BY <1>2, <1>4, <1>5, <1>6 DEF IInv

LEMMA Stepping ==
  ASSUME IInv, Next
  PROVE  IInv'
<1>1. CASE Ask \/ Leave \/ SourceAnswers
  BY <1>1, LoopMoves
<1>2. CASE Drain \/ Close
  BY <1>2, TraversalEnds
<1>3. CASE \E p \in Positions : SelectorSettles(p)
  BY <1>3, SelectorMoves
<1>4. CASE RunJob
  <2>1. jobs # <<>>
    BY <1>4 DEF RunJob
  <2>2. CASE Pulled
    <3>1. pc = "pulling" /\ answer' = "none"
      BY <2>2 DEF Pulled
    <3> QED
      BY <2>1, <2>2, <3>1, TaskStarts, JobMoves DEF Pulled
  <2>3. CASE Turn
    BY <2>1, <2>3, LoopTurns
  <2>4. CASE Yield
    BY <2>1, <2>4, JobMoves
  <2>5. ASSUME NEW p \in Positions, Head(jobs) = Settling(p), TaskBody(p)
        PROVE  IInv'
    BY <2>1, <2>5, TaskEnds
  <2>6. ASSUME NEW p \in Positions, Head(jobs) = Deleting(p), Delete(p)
        PROVE  IInv'
    BY <2>1, <2>6, JobMoves
  <2> QED
    BY <1>4, <2>2, <2>3, <2>4, <2>5, <2>6 DEF RunJob
<1> QED
  BY <1>1, <1>2, <1>3, <1>4 DEF Next

\* A traversal keeps its account of positions, tasks and jobs in every step.
THEOREM Inductive == Spec => []IInv
<1>1. Init => IInv
  BY Starting
<1>2. IInv /\ [Next]_vars => IInv'
  BY Stepping, Stuttering
<1> QED
  BY <1>1, <1>2, PTL DEF Spec

LEMMA OrderFollows ==
  ASSUME IInv
  PROVE  HandsOverInOrder
<1>1. /\ handed \in Seq(Positions) /\ finished \in Seq(Positions)
      /\ Len(handed) = delivered
  BY HandedAre
<1>2. HandedInOrder
  <2>1. CASE ordered
    BY <2>1 DEF IInv, OrderIsKept, InSourceOrder, HandedInOrder
  <2>2. CASE ~ordered
    <3>1. settled = handed \o finished
      BY <2>2 DEF IInv, OrderIsKept, InOrderOfArrival
    <3>2. SubSeq(handed \o finished, 1, Len(handed)) = handed
      BY <1>1
    <3> QED
      BY <2>2, <3>1, <3>2 DEF HandedInOrder
  <2> QED
    BY <2>1, <2>2
<1>3. BufferIsBounded
  BY <1>1 DEF IInv, CountsAgree, BufferIsBounded
<1> QED
  BY <1>2, <1>3 DEF IInv, HandsOverInOrder

\* Results are handed over in the order asked for, none twice and none passed
\* over, and what fill pulled ahead of the consumer stays within the limit.
THEOREM HandsOverInOrderHolds == Spec => []HandsOverInOrder
<1>1. IInv => HandsOverInOrder
  BY OrderFollows
<1> QED
  BY <1>1, Inductive, PTL

LEMMA EndFollows ==
  ASSUME IInv
  PROVE  EndsCleanly
<1>1. pc = "done" => \A p \in Positions : task[p] \in {"none", "over"}
  BY DEF IInv, TypeOK, EndsAsItStands, Unsettled
<1> QED
  BY <1>1, HandedAre DEF IInv, EndsAsItStands, EndsCleanly

\* A traversal that the loop itself ends has handed over the whole source; and
\* however it ends, drain leaves no selector running and the source is closed
\* once if it was opened.
THEOREM EndsCleanlyHolds == Spec => []EndsCleanly
<1>1. IInv => EndsCleanly
  BY EndFollows
<1> QED
  BY <1>1, Inductive, PTL

\* What a step does after a failure.
AfterFailure ==
  /\ failure' = failure /\ handed' = handed
  /\ pc' = "pulling" => pc = "pulling"
  /\ started' # started => pc = "pulling" /\ pc' = "filled"
  /\ outcome' # outcome =>
       \/ outcome' \in {"failed", "left"}
       \/ outcome' = "source" /\ pc = "pulling" /\ answer = "throws"

LEMMA FailureStays ==
  ASSUME IInv, [Next]_vars, failure # None
  PROVE  AfterFailure
<1>1. CASE Ask
  BY <1>1 DEF Ask, Fill, Wants, AfterFailure, workVars, countVars, endVars
<1>2. CASE Leave \/ SourceAnswers \/ Drain \/ Close
  BY <1>2 DEF Leave, SourceAnswers, Drain, Close, AfterFailure, workVars, countVars, endVars
<1>3. CASE \E p \in Positions : SelectorSettles(p)
  BY <1>3 DEF SelectorSettles, AfterFailure, countVars, endVars
<1>4. CASE Pulled
  <2>1. CASE Starts
    <3>1. failure' = failure /\ pc' = "filled" /\ UNCHANGED endVars
      BY <2>1 DEF Starts, Fill, Wants
    <3> QED BY <1>4, <3>1 DEF Pulled, AfterFailure, endVars
  <2>2. CASE Exhausts \/ SourceThrows
    BY <1>4, <2>2 DEF Pulled, Exhausts, SourceThrows, AfterFailure, workVars, countVars, endVars
  <2> QED BY <1>4, <2>1, <2>2 DEF Pulled
<1>5. CASE Turn
  BY <1>5 DEF Turn, Broken, AfterFailure
<1>6. CASE Yield
  BY <1>6 DEF Yield, AfterFailure, workVars, countVars, endVars
<1>7. CASE \E p \in Positions : TaskBody(p) \/ Delete(p)
  BY <1>7 DEF TaskBody, Delete, AfterFailure, countVars, endVars
<1>8. CASE UNCHANGED vars
  BY <1>8 DEF vars, AfterFailure, workVars, countVars, endVars
<1> QED
  BY <1>1, <1>2, <1>3, <1>4, <1>5, <1>6, <1>7, <1>8 DEF Next, RunJob

\* After a selector has failed no later one takes its place, nothing more is handed
\* over, the source is not asked again, and the traversal does not end as if it were
\* whole: at most an answer that was on its way begins a selector, or is an error
\* of the source and ends it.
THEOREM FirstFailureEndsItHolds == Spec => FirstFailureEndsIt
<1>1. IInv /\ [Next]_vars => [failure # None => AfterFailure]_vars
  BY FailureStays
<1> QED
  BY <1>1, Inductive, PTL DEF Spec, FirstFailureEndsIt, AfterFailure
=============================================================================

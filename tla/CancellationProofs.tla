-------------------------- MODULE CancellationProofs --------------------------
(***************************************************************************)
(* For any number of sources and of handlers: a cancellation strands       *)
(* nobody, every handler hears of it once, and the stack stays shallow.    *)
(*                                                                         *)
(* The argument is one inductive invariant, IInv.  Whoever follows a       *)
(* source, or waits for its cancellation, is on the list of its signal     *)
(* while that is live or being aborted; who follows an aborted one and is  *)
(* off the list is aborted too, or waits for a turn of the loop; and while *)
(* somebody waits a loop is on the stack.  With the stack empty there is   *)
(* neither an abort in progress nor a loop, so everyone was told.          *)
(***************************************************************************)
EXTENDS Cancellation, SequenceTheorems, TLAPS

Elements(list) == {list[i] : i \in 1 .. Len(list)}
Distinct(list) == \A i, j \in 1 .. Len(list) : list[i] = list[j] => i = j

Registered == [s \in Sources |-> Elements(listeners[s])]
Waiting == IF propagating = null THEN {} ELSE Elements(propagating)
InProgress == Elements(stack)

\* A source follows one created before it.
ParentsAreOlder == \A s \in Sources :
  /\ parent[s] < s
  /\ s > created => parent[s] = NoSource /\ reason[s] = NoSource
  /\ s \in following => parent[s] # NoSource

\* A signal lists whoever has registered with it and was not called, once.
ListedOnce == \A s \in Sources :
  /\ Distinct(listeners[s])
  /\ \A l \in Registered[s] :
       \/ l \in Handlers /\ on[l] = s /\ calls[l] = 0
       \/ l \in following /\ parent[l] = s

\* Who listens to a signal that is aborted will be called: the abort is in
\* progress.
StillCalling(s) == isCancelled(s) => Aborting(s) \in InProgress

\* Who follows a source listens to it still, or was told.
FollowersAreTold == \A c \in following :
  \/ c \in Registered[parent[c]] /\ StillCalling(parent[c])
  \/ /\ isCancelled(parent[c])
     /\ isCancelled(c) \/ \E step \in Waiting : step[1] = c

HandlersAreTold == \A h \in Handlers :
  /\ calls[h] # 0 => on[h] # NoSource /\ isCancelled(on[h])
  /\ (on[h] # NoSource /\ calls[h] = 0) =>
       h \in Registered[on[h]] /\ StillCalling(on[h])

\* What waits is to be cancelled with the reason its parent has.
StepsComeFromAbove == \A step \in Waiting :
  /\ parent[step[1]] # NoSource
  /\ isCancelled(parent[step[1]])
  /\ step[2] = reason[parent[step[1]]]

\* One loop runs, while there is a list; a cancel is called by the loop or by
\* the caller's code; and what is being aborted was cancelled.
OneLoop ==
  /\ propagating # null <=> Draining \in InProgress
  /\ \A i, j \in 1 .. Len(stack) : stack[i] = Draining /\ stack[j] = Draining => i = j
NoAbortOnAbort ==
  \A i \in 1 .. (Len(stack) - 1) : stack[i].kind = "abort" => stack[i + 1].kind # "abort"
AbortedIsCancelled == \A s \in Sources : Aborting(s) \in InProgress => isCancelled(s)

StackInv == OneLoop /\ NoAbortOnAbort /\ AbortedIsCancelled
IInv ==
  /\ TypeOK /\ ParentsAreOlder /\ ListedOnce /\ FollowersAreTold /\ HandlersAreTold
  /\ StepsComeFromAbove /\ ReasonComesFromAbove /\ StackInv

-----------------------------------------------------------------------------
(* Lists.                                                                  *)

LEMMA Pushed ==
  ASSUME NEW S, NEW x \in S, NEW q \in Seq(S)
  PROVE  /\ <<x>> \o q \in Seq(S)
         /\ Len(<<x>> \o q) = Len(q) + 1
         /\ (<<x>> \o q)[1] = x
         /\ \A i \in 1 .. Len(q) : (<<x>> \o q)[i + 1] = q[i]
         /\ <<x>> \o q # <<>>
         /\ Elements(<<x>> \o q) = {x} \cup Elements(q)
<1> DEFINE p == <<x>> \o q
<1>1. p \in Seq(S) /\ Len(p) = Len(q) + 1 /\ p[1] = x
  OBVIOUS
<1>2. \A i \in 1 .. Len(q) : p[i + 1] = q[i]
  OBVIOUS
<1>3. p # <<>>
  BY <1>1
<1> HIDE DEF p
<1>4. Elements(p) \subseteq {x} \cup Elements(q)
  <2> SUFFICES ASSUME NEW i \in 1 .. Len(p)
               PROVE  p[i] \in {x} \cup Elements(q)
    BY DEF Elements
  <2>1. CASE i = 1
    BY <2>1, <1>1
  <2>2. CASE i # 1
    <3>1. i - 1 \in 1 .. Len(q) /\ (i - 1) + 1 = i
      BY <2>2, <1>1
    <3>2. p[i] = q[i - 1]
      BY <3>1, <1>2
    <3> QED
      BY <3>1, <3>2 DEF Elements
  <2> QED
    BY <2>1, <2>2
<1>5. {x} \cup Elements(q) \subseteq Elements(p)
  <2>1. x \in Elements(p)
    BY <1>1 DEF Elements
  <2>2. ASSUME NEW i \in 1 .. Len(q)
        PROVE  q[i] \in Elements(p)
    <3>1. i + 1 \in 1 .. Len(p)
      BY <1>1
    <3> QED
      BY <3>1, <1>2 DEF Elements
  <2> QED
    BY <2>1, <2>2 DEF Elements
<1> QED
  BY <1>1, <1>2, <1>3, <1>4, <1>5 DEF p

LEMMA Popped ==
  ASSUME NEW S, NEW q \in Seq(S), q # <<>>
  PROVE  /\ Tail(q) \in Seq(S)
         /\ Len(q) \in Nat /\ Len(Tail(q)) = Len(q) - 1
         /\ \A i \in 1 .. (Len(q) - 1) : Tail(q)[i] = q[i + 1]
         /\ Head(q) = q[1]
         /\ Head(q) \in S
         /\ Elements(q) = {Head(q)} \cup Elements(Tail(q))
         /\ Distinct(q) => Head(q) \notin Elements(Tail(q)) /\ Distinct(Tail(q))
<1> DEFINE t == Tail(q)
<1>1. /\ t \in Seq(S) /\ Len(q) \in Nat \ {0} /\ Len(t) = Len(q) - 1
      /\ Head(q) = q[1] /\ Head(q) \in S
  OBVIOUS
<1>2. \A i \in 1 .. (Len(q) - 1) : t[i] = q[i + 1]
  OBVIOUS
<1> HIDE DEF t
<1>3. Elements(q) \subseteq {Head(q)} \cup Elements(t)
  <2> SUFFICES ASSUME NEW i \in 1 .. Len(q)
               PROVE  q[i] \in {Head(q)} \cup Elements(t)
    BY DEF Elements
  <2>1. CASE i = 1
    BY <2>1, <1>1
  <2>2. CASE i # 1
    <3>1. i - 1 \in 1 .. Len(t) /\ (i - 1) + 1 = i
      BY <2>2, <1>1
    <3>2. t[i - 1] = q[i]
      BY <3>1, <1>1, <1>2
    <3> QED
      BY <3>1, <3>2 DEF Elements
  <2> QED
    BY <2>1, <2>2
<1>4. {Head(q)} \cup Elements(t) \subseteq Elements(q)
  <2>1. Head(q) \in Elements(q)
    BY <1>1 DEF Elements
  <2>2. ASSUME NEW i \in 1 .. Len(t)
        PROVE  t[i] \in Elements(q)
    <3>1. i + 1 \in 1 .. Len(q) /\ i \in 1 .. (Len(q) - 1)
      BY <1>1
    <3> QED
      BY <3>1, <1>2 DEF Elements
  <2> QED
    BY <2>1, <2>2 DEF Elements
<1>5. ASSUME Distinct(q) PROVE Head(q) \notin Elements(t) /\ Distinct(t)
  <2>1. ASSUME NEW i \in 1 .. Len(t) PROVE t[i] # Head(q)
    <3>1. i + 1 \in 1 .. Len(q) /\ 1 \in 1 .. Len(q) /\ i \in 1 .. (Len(q) - 1) /\ i + 1 # 1
      BY <1>1
    <3>2. t[i] = q[i + 1]
      BY <3>1, <1>2
    <3> QED
      BY <3>1, <3>2, <1>1, <1>5 DEF Distinct
  <2>2. ASSUME NEW i \in 1 .. Len(t), NEW j \in 1 .. Len(t), t[i] = t[j]
        PROVE  i = j
    <3>1. /\ i + 1 \in 1 .. Len(q) /\ i \in 1 .. (Len(q) - 1)
          /\ j + 1 \in 1 .. Len(q) /\ j \in 1 .. (Len(q) - 1)
      BY <1>1
    <3>2. q[i + 1] = q[j + 1]
      BY <2>2, <3>1, <1>2
    <3>3. i + 1 = j + 1
      BY <3>1, <3>2, <1>5 DEF Distinct
    <3> QED
      BY <3>3, <3>1
  <2>3. Head(q) \notin Elements(t)
    BY <2>1 DEF Elements
  <2>4. Distinct(t)
    BY <2>2 DEF Distinct
  <2> QED
    BY <2>3, <2>4
<1> QED
  BY <1>1, <1>2, <1>3, <1>4, <1>5 DEF t

LEMMA Appended ==
  ASSUME NEW S, NEW x \in S, NEW q \in Seq(S)
  PROVE  /\ Append(q, x) \in Seq(S)
         /\ Elements(Append(q, x)) = Elements(q) \cup {x}
         /\ Distinct(q) /\ x \notin Elements(q) => Distinct(Append(q, x))
<1> DEFINE p == Append(q, x)
<1>1. p \in Seq(S) /\ Len(q) \in Nat /\ Len(p) = Len(q) + 1 /\ p[Len(q) + 1] = x
  OBVIOUS
<1>2. \A i \in 1 .. Len(q) : p[i] = q[i]
  OBVIOUS
<1> HIDE DEF p
<1>0. \A i \in 1 .. Len(p) : i = Len(q) + 1 \/ i \in 1 .. Len(q)
  BY <1>1
<1>3. Elements(p) \subseteq Elements(q) \cup {x}
  BY <1>0, <1>1, <1>2 DEF Elements
<1>4. Elements(q) \cup {x} \subseteq Elements(p)
  <2>1. x \in Elements(p)
    <3>1. Len(q) + 1 \in 1 .. Len(p)
      BY <1>1
    <3> QED
      BY <3>1, <1>1 DEF Elements
  <2>2. ASSUME NEW i \in 1 .. Len(q)
        PROVE  q[i] \in Elements(p)
    <3>1. i \in 1 .. Len(p)
      BY <1>1
    <3> QED
      BY <3>1, <1>2 DEF Elements
  <2> QED
    BY <2>1, <2>2 DEF Elements
<1>5. ASSUME Distinct(q), x \notin Elements(q) PROVE Distinct(p)
  <2> SUFFICES ASSUME NEW i \in 1 .. Len(p), NEW j \in 1 .. Len(p), p[i] = p[j]
               PROVE  i = j
    BY DEF Distinct
  <2>1. CASE i \in 1 .. Len(q) /\ j \in 1 .. Len(q)
    BY <2>1, <1>2, <1>5 DEF Distinct
  <2>2. CASE i \in 1 .. Len(q) /\ j = Len(q) + 1
    BY <2>2, <1>1, <1>2, <1>5 DEF Elements
  <2>3. CASE i = Len(q) + 1 /\ j \in 1 .. Len(q)
    BY <2>3, <1>1, <1>2, <1>5 DEF Elements
  <2>4. CASE i = Len(q) + 1 /\ j = Len(q) + 1
    BY <2>4
  <2> QED
    BY <2>1, <2>2, <2>3, <2>4, <1>0
<1> QED
  BY <1>1, <1>3, <1>4, <1>5 DEF p

LEMMA WithoutOf ==
  ASSUME NEW S, NEW x, NEW q \in Seq(S), Distinct(q)
  PROVE  /\ Without(q, x) \in Seq(S)
         /\ Elements(Without(q, x)) = Elements(q) \ {x}
         /\ Distinct(Without(q, x))
<1>1. CASE \A i \in 1 .. Len(q) : q[i] # x
  <2>1. Without(q, x) = q
    BY <1>1 DEF Without
  <2>2. x \notin Elements(q)
    BY <1>1 DEF Elements
  <2> QED
    BY <2>1, <2>2
<1>2. CASE ~ \A i \in 1 .. Len(q) : q[i] # x
  <2> DEFINE n == CHOOSE i \in 1 .. Len(q) : q[i] = x
             w == Without(q, x)
             a == SubSeq(q, 1, n - 1)
             b == SubSeq(q, n + 1, Len(q))
  <2>1. n \in 1 .. Len(q) /\ q[n] = x
    BY <1>2
  <2>2. w = a \o b
    BY <1>2 DEF Without
  <2> HIDE DEF n
  <2>0. Len(q) \in Nat
    OBVIOUS
  <2>3. a \in Seq(S) /\ Len(a) = n - 1 /\ \A i \in 1 .. (n - 1) : a[i] = q[i]
    BY <2>0, <2>1, SubSeqProperties
  <2>4. b \in Seq(S) /\ Len(b) = Len(q) - n /\ \A i \in 1 .. (Len(q) - n) : b[i] = q[n + i]
    <3>1. b \in Seq(S) /\ Len(b) = IF n + 1 <= Len(q) THEN Len(q) - (n + 1) + 1 ELSE 0
      BY <2>0, <2>1, SubSeqProperties
    <3>2. Len(b) = Len(q) - n
      BY <3>1, <2>0, <2>1
    <3>3. \A i \in 1 .. (Len(q) - n) : b[i] = q[n + i]
      BY <3>1, <3>2, <2>0, <2>1, SubSeqProperties
    <3> QED
      BY <3>1, <3>2, <3>3
  <2> HIDE DEF a, b, w
  <2>5. w \in Seq(S) /\ Len(w) = Len(q) - 1
    BY <2>0, <2>1, <2>2, <2>3, <2>4, SMTT(30)
  <2>6. \A i \in 1 .. (n - 1) : w[i] = q[i]
    BY <2>0, <2>1, <2>2, <2>3, <2>4
  <2>7. ASSUME NEW i \in n .. (Len(q) - 1) PROVE w[i] = q[i + 1]
    <3>1. i - (n - 1) \in 1 .. (Len(q) - n)
      BY <2>0, <2>1
    <3>2. w[i] = b[i - (n - 1)]
      BY <2>0, <2>1, <2>2, <2>3, <2>4
    <3>3. n + (i - (n - 1)) = i + 1
      BY <2>0, <2>1
    <3> QED
      BY <3>1, <3>2, <3>3, <2>4
  <2> DEFINE at(i) == IF i < n THEN i ELSE i + 1
  <2>8. \A i \in 1 .. Len(w) : at(i) \in 1 .. Len(q) /\ at(i) # n /\ w[i] = q[at(i)]
    BY <2>0, <2>1, <2>5, <2>6, <2>7
  <2>9. \A i, j \in 1 .. Len(w) : at(i) = at(j) => i = j
    BY <2>0, <2>1, <2>5
  <2>10. ASSUME NEW k \in 1 .. Len(q), k # n
         PROVE  \E i \in 1 .. Len(w) : at(i) = k
    <3>1. CASE k < n
      <4>1. k \in 1 .. Len(w)
        BY <3>1, <2>0, <2>1, <2>5
      <4> QED
        BY <4>1, <3>1
    <3>2. CASE k > n
      <4>1. k - 1 \in 1 .. Len(w) /\ at(k - 1) = k
        BY <3>2, <2>0, <2>1, <2>5
      <4> QED
        BY <4>1
    <3> QED
      BY <3>1, <3>2, <2>10, <2>1
  <2> HIDE DEF at
  <2>11. Distinct(w)
    BY <2>8, <2>9 DEF Distinct
  <2>12. Elements(w) \subseteq Elements(q) \ {x}
    <3> SUFFICES ASSUME NEW i \in 1 .. Len(w)
                 PROVE  w[i] \in Elements(q) /\ w[i] # x
      BY DEF Elements
    <3>1. at(i) \in 1 .. Len(q) /\ at(i) # n /\ w[i] = q[at(i)]
      BY <2>8
    <3>2. w[i] \in Elements(q)
      BY <3>1 DEF Elements
    <3>3. q[at(i)] # q[n]
      BY <3>1, <2>1 DEF Distinct
    <3> QED
      BY <3>1, <3>2, <3>3, <2>1
  <2>13. Elements(q) \ {x} \subseteq Elements(w)
    <3> SUFFICES ASSUME NEW k \in 1 .. Len(q), q[k] # x
                 PROVE  q[k] \in Elements(w)
      BY DEF Elements
    <3>1. PICK i \in 1 .. Len(w) : at(i) = k
      BY <2>10, <2>1
    <3> QED
      BY <3>1, <2>8 DEF Elements
  <2> QED
    BY <2>5, <2>11, <2>12, <2>13 DEF w
<1> QED
  BY <1>1, <1>2

-----------------------------------------------------------------------------
(* The stack.                                                              *)

Grows == \A s \in Sources : isCancelled(s) => isCancelled(s)'

LEMMA FramesDiffer ==
  /\ \A s \in Sources : Aborting(s) \in Frames /\ Aborting(s).kind = "abort"
                        /\ Aborting(s).of = s /\ Aborting(s) # Draining
  /\ \A h \in Handlers : Handling(h) \in Frames /\ Handling(h).kind = "handler"
                         /\ Handling(h) # Draining
                         /\ \A s \in Sources : Handling(h) # Aborting(s)
  /\ Draining \in Frames /\ Draining.kind = "drain"
  /\ \A f \in Frames : f.kind = "abort" => f.of \in Sources /\ f = Aborting(f.of)
  /\ \A f \in Frames : f.kind = "drain" => f = Draining
  /\ \A f \in Frames : f.kind \in {"abort", "drain", "handler"}
<1>1. \A s \in Sources : Aborting(s) \in Frames /\ Draining \in Frames
  BY DEF Frames
<1>2. \A s \in Sources : Aborting(s).kind = "abort" /\ Aborting(s).of = s
  BY DEF Aborting
<1>3. \A h \in Handlers : Handling(h) \in Frames /\ Draining \in Frames
  BY DEF Frames
<1>4. \A h \in Handlers : Handling(h).kind = "handler"
  BY DEF Handling
<1>5. Draining \in Frames /\ Draining.kind = "drain"
  BY DEF Frames, Draining
<1>6. \A f \in Frames : \/ \E s \in Sources : f = Aborting(s)
                        \/ f = Draining
                        \/ \E h \in Handlers : f = Handling(h)
  BY DEF Frames
<1> QED
  BY <1>1, <1>2, <1>3, <1>4, <1>5, <1>6

LEMMA TopIs ==
  ASSUME stack \in Seq(Frames)
  PROVE  /\ Top.kind # "idle" <=> stack # <<>>
         /\ stack # <<>> => /\ Top = Head(stack) /\ Top = stack[1] /\ Top \in Frames
                            /\ Top \in InProgress
<1>1. CASE stack = <<>>
  BY <1>1 DEF Top, Idle
<1>2. CASE stack # <<>>
  <2>1. Top = Head(stack) /\ Head(stack) = stack[1] /\ Head(stack) \in Frames
    BY <1>2, Popped DEF Top
  <2>2. Head(stack) \in Elements(stack)
    BY <1>2, Popped
  <2> QED
    BY <1>2, <2>1, <2>2, FramesDiffer DEF InProgress
<1> QED
  BY <1>1, <1>2

LEMMA StackStays ==
  ASSUME TypeOK, StackInv, stack' = stack, propagating' # null <=> propagating # null, Grows
  PROVE  StackInv'
<1>1. InProgress' = InProgress
  BY DEF InProgress, Elements
<1>2. OneLoop'
  BY <1>1 DEF StackInv, OneLoop
<1>3. NoAbortOnAbort'
  BY DEF StackInv, NoAbortOnAbort
<1>4. AbortedIsCancelled'
  BY <1>1 DEF StackInv, AbortedIsCancelled, Grows
<1> QED
  BY <1>2, <1>3, <1>4 DEF StackInv

LEMMA StackPushed ==
  ASSUME TypeOK, StackInv, Grows, NEW f \in Frames, stack' = <<f>> \o stack,
         f.kind = "abort" => Top.kind # "abort",
         f = Draining => propagating = null,
         propagating' # null <=> (propagating # null \/ f = Draining),
         \A s \in Sources : f = Aborting(s) => isCancelled(s)'
  PROVE  StackInv'
<1>0. stack \in Seq(Frames) /\ Len(stack) \in Nat
  BY DEF TypeOK
<1>1. /\ Len(stack') = Len(stack) + 1
      /\ stack'[1] = f
      /\ \A i \in 1 .. Len(stack) : stack'[i + 1] = stack[i]
      /\ Elements(stack') = {f} \cup Elements(stack)
  BY <1>0, Pushed
<1>2. InProgress' = {f} \cup InProgress
  BY <1>1 DEF InProgress, Elements
<1>3. \A i \in 1 .. Len(stack') : i # 1 => i - 1 \in 1 .. Len(stack) /\ stack'[i] = stack[i - 1]
  <2> SUFFICES ASSUME NEW i \in 1 .. Len(stack'), i # 1
               PROVE  i - 1 \in 1 .. Len(stack) /\ stack'[i] = stack[i - 1]
    OBVIOUS
  <2>1. i - 1 \in 1 .. Len(stack) /\ (i - 1) + 1 = i
    BY <1>0, <1>1
  <2>2. stack'[(i - 1) + 1] = stack[i - 1]
    BY <2>1, <1>1
  <2> QED
    BY <2>1, <2>2
<1>4. OneLoop'
  <2>1. propagating' # null <=> Draining \in InProgress'
    BY <1>2 DEF StackInv, OneLoop
  <2>2. ASSUME NEW i \in 1 .. Len(stack'), NEW j \in 1 .. Len(stack'),
               stack'[i] = Draining, stack'[j] = Draining
        PROVE  i = j
    <3>1. CASE i = 1 /\ j = 1
      BY <3>1
    <3>2. CASE i = 1 /\ j # 1
      <4>1. Draining \in InProgress
        BY <2>2, <3>2, <1>3 DEF InProgress, Elements
      <4>2. propagating = null
        BY <2>2, <3>2, <1>1
      <4> QED
        BY <4>1, <4>2 DEF StackInv, OneLoop
    <3>3. CASE i # 1 /\ j = 1
      <4>1. Draining \in InProgress
        BY <2>2, <3>3, <1>3 DEF InProgress, Elements
      <4>2. propagating = null
        BY <2>2, <3>3, <1>1
      <4> QED
        BY <4>1, <4>2 DEF StackInv, OneLoop
    <3>4. CASE i # 1 /\ j # 1
      <4>1. i - 1 \in 1 .. Len(stack) /\ j - 1 \in 1 .. Len(stack)
            /\ stack[i - 1] = Draining /\ stack[j - 1] = Draining
        BY <2>2, <3>4, <1>3
      <4>2. i - 1 = j - 1
        BY <4>1 DEF StackInv, OneLoop
      <4> QED
        BY <4>2
    <3> QED
      BY <3>1, <3>2, <3>3, <3>4
  <2> QED
    BY <2>1, <2>2 DEF OneLoop
<1>5. NoAbortOnAbort'
  <2> SUFFICES ASSUME NEW i \in 1 .. (Len(stack') - 1), stack'[i].kind = "abort"
               PROVE  stack'[i + 1].kind # "abort"
    BY DEF NoAbortOnAbort
  <2>0. i \in 1 .. Len(stack) /\ stack'[i + 1] = stack[i]
    BY <1>0, <1>1
  <2>1. CASE i = 1
    <3>1. stack # <<>>
      BY <2>0, <1>0
    <3>2. Top = stack[1]
      BY <3>1, <1>0, TopIs
    <3> QED
      BY <2>0, <2>1, <3>2, <1>1
  <2>2. CASE i # 1
    <3>1. i - 1 \in 1 .. (Len(stack) - 1) /\ stack'[i] = stack[i - 1] /\ (i - 1) + 1 = i
      BY <2>0, <2>2, <1>0, <1>1, <1>3
    <3>2. stack[i - 1].kind # "abort" \/ stack[(i - 1) + 1].kind # "abort"
      BY <3>1 DEF StackInv, NoAbortOnAbort
    <3> QED
      BY <2>0, <3>1, <3>2
  <2> QED
    BY <2>1, <2>2
<1>6. AbortedIsCancelled'
  BY <1>2 DEF StackInv, AbortedIsCancelled, Grows
<1> QED
  BY <1>4, <1>5, <1>6 DEF StackInv

LEMMA StackPopped ==
  ASSUME TypeOK, StackInv, Grows, stack # <<>>, stack' = Tail(stack),
         propagating' # null <=> (propagating # null /\ Head(stack) # Draining)
  PROVE  /\ StackInv'
         /\ stack' \in Seq(Frames)
         /\ InProgress = {Head(stack)} \cup InProgress'
<1>0. stack \in Seq(Frames) /\ Len(stack) \in Nat
  BY DEF TypeOK
<1>1. /\ stack' \in Seq(Frames)
      /\ Len(stack') = Len(stack) - 1
      /\ Head(stack) = stack[1]
      /\ \A i \in 1 .. (Len(stack) - 1) : stack'[i] = stack[i + 1]
      /\ Elements(stack) = {Head(stack)} \cup Elements(stack')
  BY <1>0, Popped
<1>2. InProgress = {Head(stack)} \cup InProgress'
  BY <1>1 DEF InProgress, Elements
<1>3. \A i \in 1 .. Len(stack') : i + 1 \in 1 .. Len(stack) /\ stack'[i] = stack[i + 1]
  BY <1>0, <1>1
<1>4. OneLoop'
  <2>1. ASSUME NEW i \in 1 .. Len(stack'), NEW j \in 1 .. Len(stack'),
               stack'[i] = Draining, stack'[j] = Draining
        PROVE  i = j
    <3>1. i + 1 = j + 1
      BY <2>1, <1>3 DEF StackInv, OneLoop
    <3> QED
      BY <3>1
  <2>2. propagating # null <=> Draining \in InProgress
    BY DEF StackInv, OneLoop
  <2>3. Head(stack) = Draining => Draining \notin InProgress'
    <3> SUFFICES ASSUME Head(stack) = Draining, NEW i \in 1 .. Len(stack'), stack'[i] = Draining
                 PROVE  FALSE
      BY DEF InProgress, Elements
    <3>1. i + 1 \in 1 .. Len(stack) /\ 1 \in 1 .. Len(stack) /\ stack[i + 1] = Draining
          /\ stack[1] = Draining /\ i + 1 # 1
      BY <1>0, <1>1, <1>3
    <3> QED
      BY <3>1 DEF StackInv, OneLoop
  <2>4. propagating' # null <=> Draining \in InProgress'
    BY <2>2, <2>3, <1>2
  <2> QED
    BY <2>1, <2>4 DEF OneLoop
<1>5. NoAbortOnAbort'
  <2> SUFFICES ASSUME NEW i \in 1 .. (Len(stack') - 1), stack'[i].kind = "abort"
               PROVE  stack'[i + 1].kind # "abort"
    BY DEF NoAbortOnAbort
  <2>1. /\ i + 1 \in 1 .. (Len(stack) - 1)
        /\ stack'[i] = stack[i + 1] /\ stack'[i + 1] = stack[(i + 1) + 1]
    BY <1>0, <1>1
  <2>2. stack[i + 1].kind # "abort" \/ stack[(i + 1) + 1].kind # "abort"
    BY <2>1 DEF StackInv, NoAbortOnAbort
  <2> QED
    BY <2>1, <2>2
<1>6. AbortedIsCancelled'
  BY <1>2 DEF StackInv, AbortedIsCancelled, Grows
<1> QED
  BY <1>1, <1>2, <1>4, <1>5, <1>6 DEF StackInv

-----------------------------------------------------------------------------
(* What the operators of the module do.                                    *)

LEMMA NullIsNoList == null \notin Seq(Steps)
<1>1. ASSUME null \in Seq(Steps) PROVE FALSE
  <2>1. Len(null) = 1 /\ null[1] = <<NoSource, NoSource>>
    BY DEF null
  <2>2. null[1] \in Steps
    BY <1>1, <2>1
  <2>3. NoSource \notin Sources
    BY DEF NoSource, Sources
  <2> QED
    BY <2>1, <2>2, <2>3 DEF Steps
<1> QED
  BY <1>1

LEMMA SourcesAreNumbers ==
  /\ Sources \subseteq Nat
  /\ \A s \in Sources : s \in 0 .. Count /\ s # NoSource /\ s >= 1
  /\ \A s \in 0 .. Count : s # NoSource => s \in Sources
  /\ \A s \in Sources : s \notin Handlers
BY CancellationAssumption DEF Sources, NoSource

LEMMA Propagates ==
  ASSUME TypeOK, NEW c \in Sources, NEW r \in Sources, Propagate(c, r, stack)
  PROVE  /\ propagating' \in Seq(Steps)
         /\ propagating' # null
         /\ Waiting' = Waiting \cup {<<c, r>>}
         /\ \/ propagating # null /\ stack' = stack
            \/ propagating = null /\ stack' = <<Draining>> \o stack
<1>0. <<c, r>> \in Steps
  BY DEF Steps
<1>1. CASE propagating # null
  <2>1. propagating \in Seq(Steps)
    BY <1>1 DEF TypeOK
  <2>2. propagating' = Append(propagating, <<c, r>>) /\ stack' = stack
    BY <1>1 DEF Propagate
  <2>3. /\ propagating' \in Seq(Steps)
        /\ Elements(propagating') = Elements(propagating) \cup {<<c, r>>}
    BY <1>0, <2>1, <2>2, Appended
  <2>4. propagating' # null
    BY <2>3, NullIsNoList
  <2>5. Waiting' = Elements(propagating')
    BY <2>4 DEF Waiting, Elements
  <2> QED
    BY <1>1, <2>2, <2>3, <2>4, <2>5 DEF Waiting
<1>2. CASE propagating = null
  <2>2. propagating' = <<<<c, r>>>> /\ stack' = <<Draining>> \o stack
    BY <1>2 DEF Propagate
  <2>3. propagating' \in Seq(Steps)
    BY <1>0, <2>2
  <2>4. Elements(propagating') = {<<c, r>>}
    BY <2>2 DEF Elements
  <2>5. propagating' # null
    BY <2>3, NullIsNoList
  <2>6. Waiting' = Elements(propagating')
    BY <2>5 DEF Waiting, Elements
  <2> QED
    BY <1>2, <2>2, <2>3, <2>4, <2>5, <2>6 DEF Waiting
<1> QED
  BY <1>1, <1>2

\* What controller.abort leaves.
Aborts(s, r) ==
  /\ reason' \in [Sources -> 0 .. Count]
  /\ Grows
  /\ isCancelled(s)'
  /\ \A x \in Sources : x # s \/ isCancelled(x) => reason'[x] = reason[x]
  /\ isCancelled(s) \/ reason'[s] = r
  /\ \/ isCancelled(s) /\ stack' = stack
     \/ ~isCancelled(s) /\ stack' = <<Aborting(s)>> \o stack

LEMMA AbortOf ==
  ASSUME TypeOK, NEW s \in Sources, NEW r \in Sources, AbortOver(s, r, stack)
  PROVE  Aborts(s, r)
<1>0. r \in 0 .. Count /\ r # NoSource
  BY SourcesAreNumbers
<1>1. CASE isCancelled(s)
  <2>1. reason' = reason /\ stack' = stack
    BY <1>1 DEF AbortOver
  <2> QED
    BY <1>1, <2>1 DEF TypeOK, Grows, isCancelled, Aborts
<1>2. CASE ~isCancelled(s)
  <2>1. reason' = [reason EXCEPT ![s] = r] /\ stack' = <<Aborting(s)>> \o stack
    BY <1>2 DEF AbortOver
  <2> QED
    BY <1>0, <1>2, <2>1 DEF TypeOK, Grows, isCancelled, Aborts
<1> QED
  BY <1>1, <1>2

LEMMA PushedOnStack ==
  ASSUME TypeOK, NEW f \in Frames, stack' = <<f>> \o stack
  PROVE  stack' \in Seq(Frames) /\ InProgress' = {f} \cup InProgress
<1>1. /\ stack' \in Seq(Frames)
      /\ Elements(stack') = {f} \cup Elements(stack)
  BY Pushed DEF TypeOK
<1> QED
  BY <1>1 DEF InProgress, Elements

\* A listener leaves the list of a signal, or joins it.
LEMMA ListenersAre ==
  ASSUME TypeOK
  PROVE  /\ Registered \in [Sources -> SUBSET (Sources \cup Handlers)]
         /\ \A s \in Sources : /\ listeners[s] \in Seq(Sources \cup Handlers)
                               /\ Registered[s] = Elements(listeners[s])
<1>1. ASSUME NEW s \in Sources
      PROVE  /\ listeners[s] \in Seq(Sources \cup Handlers)
             /\ Elements(listeners[s]) \subseteq Sources \cup Handlers
  <2>1. listeners[s] \in Seq(Sources \cup Handlers)
    BY DEF TypeOK
  <2> QED
    BY <2>1 DEF Elements
<1> QED
  BY <1>1 DEF Registered

LEMMA Relisted ==
  ASSUME TypeOK, NEW s \in Sources, NEW l \in Seq(Sources \cup Handlers),
         listeners' = [listeners EXCEPT ![s] = l]
  PROVE  /\ listeners' \in [Sources -> Seq(Sources \cup Handlers)]
         /\ listeners'[s] = l
         /\ \A x \in Sources : x # s => /\ listeners'[x] = listeners[x]
                                        /\ Registered'[x] = Registered[x]
         /\ Registered'[s] = Elements(l)
<1>1. /\ listeners' \in [Sources -> Seq(Sources \cup Handlers)]
      /\ listeners'[s] = l
      /\ \A x \in Sources : x # s => listeners'[x] = listeners[x]
  BY DEF TypeOK
<1>2. Registered' = [x \in Sources |-> Elements(listeners'[x])]
  BY DEF Registered, Elements
<1> QED
  BY <1>1, <1>2 DEF Registered

LEMMA SameNames ==
  /\ listeners' = listeners => Registered' = Registered
  /\ propagating' = propagating => Waiting' = Waiting
  /\ stack' = stack => InProgress' = InProgress
BY DEF Registered, Waiting, InProgress, Elements

-----------------------------------------------------------------------------
(* Steps.                                                                  *)

\* Everything but the types and the stack.
Data == /\ ParentsAreOlder /\ ListedOnce /\ FollowersAreTold /\ HandlersAreTold
        /\ StepsComeFromAbove /\ ReasonComesFromAbove

\* A call returns: no signal that is listened to was being aborted by it.
LEMMA CallReturns ==
  ASSUME TypeOK, Data, Waiting' = Waiting,
         UNCHANGED <<sourceVars, reason, asked, listeners, handlerVars>>,
         \A p \in Sources : Registered[p] # {} /\ Aborting(p) \in InProgress
                              => Aborting(p) \in InProgress'
  PROVE  Data'
<1> USE DEF sourceVars, handlerVars
<1>0. Registered' = Registered
  BY SameNames
<1>1. ParentsAreOlder' /\ ReasonComesFromAbove' /\ StepsComeFromAbove'
  BY DEF Data, ParentsAreOlder, ReasonComesFromAbove, StepsComeFromAbove, isCancelled
<1>2. ListedOnce'
  BY <1>0 DEF Data, ListedOnce, Distinct
<1>3. \A p \in Sources : Registered[p] # {} /\ StillCalling(p) => StillCalling(p)'
  BY DEF StillCalling, isCancelled
<1>4. FollowersAreTold'
  <2> SUFFICES ASSUME NEW c \in following
               PROVE  \/ c \in Registered[parent[c]] /\ StillCalling(parent[c])'
                      \/ /\ isCancelled(parent[c])
                         /\ isCancelled(c) \/ \E step \in Waiting : step[1] = c
    BY <1>0 DEF FollowersAreTold, isCancelled, StillCalling
  <2>1. parent[c] \in Sources
    BY SourcesAreNumbers DEF TypeOK, Data, ParentsAreOlder
  <2> QED
    BY <2>1, <1>3 DEF Data, FollowersAreTold
<1>5. HandlersAreTold'
  <2> SUFFICES ASSUME NEW h \in Handlers
               PROVE  /\ calls[h] # 0 => on[h] # NoSource /\ isCancelled(on[h])
                      /\ (on[h] # NoSource /\ calls[h] = 0) =>
                           h \in Registered[on[h]] /\ StillCalling(on[h])'
    BY <1>0 DEF HandlersAreTold, isCancelled, StillCalling
  <2>1. on[h] # NoSource => on[h] \in Sources
    BY SourcesAreNumbers DEF TypeOK
  <2> QED
    BY <2>1, <1>3 DEF Data, HandlersAreTold
<1> QED
  BY <1>1, <1>2, <1>4, <1>5 DEF Data

\* A source is aborted, with its own reason or with its parent's.
LEMMA SourceIsAborted ==
  ASSUME TypeOK, Data, NEW s \in Sources, NEW r \in Sources, Aborts(s, r),
         s <= created,
         UNCHANGED <<sourceVars, listeners, handlerVars>>,
         asked \subseteq asked',
         \/ r = s /\ s \in asked'
         \/ parent[s] # NoSource /\ isCancelled(parent[s]) /\ r = reason[parent[s]],
         Waiting' \subseteq Waiting,
         \A step \in Waiting : step \in Waiting' \/ step[1] = s,
         Waiting \subseteq Steps
  PROVE  Data'
<1> USE DEF sourceVars, handlerVars
<1>0. Registered' = Registered
  BY SameNames
<1>1. \A p \in Sources : isCancelled(p) => reason'[p] = reason[p] /\ isCancelled(p)'
  BY DEF Aborts, Grows
<1>2. ParentsAreOlder'
  <2> SUFFICES ASSUME NEW x \in Sources
               PROVE  x > created => reason'[x] = NoSource
    BY DEF Data, ParentsAreOlder
  <2>1. CASE x = s
    BY <2>1, SourcesAreNumbers DEF TypeOK
  <2>2. CASE x # s
    BY <2>2 DEF Aborts, Data, ParentsAreOlder
  <2> QED
    BY <2>1, <2>2
<1>3. ListedOnce'
  BY <1>0 DEF Data, ListedOnce, Distinct
<1>4. \A x \in Sources : parent[x] # NoSource => parent[x] \in Sources
  BY SourcesAreNumbers DEF TypeOK
<1>5. ReasonComesFromAbove'
  <2> SUFFICES ASSUME NEW x \in Sources, reason'[x] # NoSource
               PROVE  \/ reason'[x] = x /\ x \in asked'
                      \/ parent[x] # NoSource /\ reason'[x] = reason'[parent[x]]
    BY DEF ReasonComesFromAbove, isCancelled
  <2>1. CASE isCancelled(x)
    <3>1. reason'[x] = reason[x]
      BY <2>1, <1>1
    <3>2. CASE reason[x] = x /\ x \in asked
      BY <3>1, <3>2
    <3>3. CASE parent[x] # NoSource /\ reason[x] = reason[parent[x]]
      <4>1. isCancelled(parent[x])
        BY <2>1, <3>3 DEF isCancelled
      <4> QED
        BY <4>1, <3>1, <3>3, <1>1, <1>4
    <3> QED
      BY <2>1, <3>2, <3>3 DEF Data, ReasonComesFromAbove
  <2>2. CASE ~isCancelled(x)
    <3>1. x = s
      BY <2>2 DEF Aborts, isCancelled
    <3>2. reason'[s] = r
      BY <2>2, <3>1 DEF Aborts
    <3> QED
      BY <3>1, <3>2, <1>1, <1>4
  <2> QED
    BY <2>1, <2>2
<1>6. StepsComeFromAbove'
  <2> SUFFICES ASSUME NEW step \in Waiting'
               PROVE  /\ parent[step[1]] # NoSource
                      /\ isCancelled(parent[step[1]])'
                      /\ step[2] = reason'[parent[step[1]]]
    BY DEF StepsComeFromAbove, isCancelled
  <2>1. /\ parent[step[1]] # NoSource
        /\ isCancelled(parent[step[1]])
        /\ step[2] = reason[parent[step[1]]]
    BY DEF Data, StepsComeFromAbove
  <2>2. step[1] \in Sources
    BY DEF Steps
  <2> QED
    BY <2>1, <2>2, <1>1, <1>4
<1>7. \A p \in Sources : StillCalling(p) => StillCalling(p)'
  <2> SUFFICES ASSUME NEW p \in Sources, StillCalling(p), isCancelled(p)'
               PROVE  Aborting(p) \in InProgress'
    BY DEF StillCalling
  <2>0. stack' = stack => InProgress' = InProgress
    BY SameNames
  <2>1. InProgress \subseteq InProgress'
    BY <2>0, PushedOnStack, FramesDiffer DEF Aborts
  <2>2. CASE isCancelled(p)
    BY <2>1, <2>2 DEF StillCalling
  <2>3. CASE ~isCancelled(p)
    <3>1. p = s
      BY <2>3 DEF Aborts, isCancelled
    <3>2. stack' = <<Aborting(s)>> \o stack
      BY <2>3, <3>1 DEF Aborts
    <3> QED
      BY <3>1, <3>2, PushedOnStack, FramesDiffer
  <2> QED
    BY <2>2, <2>3
<1>8. FollowersAreTold'
  <2> SUFFICES ASSUME NEW c \in following
               PROVE  \/ c \in Registered[parent[c]] /\ StillCalling(parent[c])'
                      \/ /\ isCancelled(parent[c])'
                         /\ isCancelled(c)' \/ \E step \in Waiting' : step[1] = c
    BY <1>0 DEF FollowersAreTold, isCancelled, StillCalling
  <2>1. parent[c] \in Sources /\ c \in Sources
    BY SourcesAreNumbers DEF TypeOK, Data, ParentsAreOlder
  <2>2. CASE c \in Registered[parent[c]] /\ StillCalling(parent[c])
    BY <2>1, <2>2, <1>7
  <2>3. CASE /\ isCancelled(parent[c])
             /\ isCancelled(c) \/ \E step \in Waiting : step[1] = c
    <3>1. isCancelled(parent[c])'
      BY <2>1, <2>3, <1>1
    <3>2. isCancelled(s)'
      BY DEF Aborts
    <3>3. isCancelled(c)' \/ \E step \in Waiting' : step[1] = c
      BY <2>1, <2>3, <3>2, <1>1
    <3> QED
      BY <3>1, <3>3
  <2> QED
    BY <2>2, <2>3 DEF Data, FollowersAreTold
<1>9. HandlersAreTold'
  <2> SUFFICES ASSUME NEW h \in Handlers
               PROVE  /\ calls[h] # 0 => on[h] # NoSource /\ isCancelled(on[h])'
                      /\ (on[h] # NoSource /\ calls[h] = 0) =>
                           h \in Registered[on[h]] /\ StillCalling(on[h])'
    BY <1>0 DEF HandlersAreTold, isCancelled, StillCalling
  <2>1. on[h] # NoSource => on[h] \in Sources
    BY SourcesAreNumbers DEF TypeOK
  <2> QED
    BY <2>1, <1>1, <1>7 DEF Data, HandlersAreTold
<1> QED
  BY <1>2, <1>3, <1>5, <1>6, <1>8, <1>9 DEF Data

LEMMA InProgressStays ==
  ASSUME reason' = reason, InProgress \subseteq InProgress'
  PROVE  /\ \A p \in Sources : StillCalling(p) => StillCalling(p)'
         /\ Grows
BY DEF StillCalling, isCancelled, Grows

LEMMA WhoIsListed ==
  ASSUME TypeOK, Data
  PROVE  /\ \A x \in Sources : parent[x] # NoSource => parent[x] \in Sources
         /\ \A c \in following : c \in Sources /\ parent[c] \in Sources
         /\ \A h \in Handlers : on[h] # NoSource => on[h] \in Sources
         /\ \A s \in Sources : Distinct(listeners[s])
         /\ \A s \in Sources : \A l \in Registered[s] :
              /\ l \in Handlers => on[l] = s /\ calls[l] = 0
              /\ l \notin Handlers => l \in following /\ parent[l] = s /\ l \in Sources
<1>1. \A x \in Sources : parent[x] # NoSource => parent[x] \in Sources
  BY SourcesAreNumbers DEF TypeOK
<1>2. \A c \in following : c \in Sources /\ parent[c] \in Sources
  BY <1>1 DEF TypeOK, Data, ParentsAreOlder
<1>3. \A h \in Handlers : on[h] # NoSource => on[h] \in Sources
  BY SourcesAreNumbers DEF TypeOK
<1>4. \A s \in Sources : Distinct(listeners[s])
  BY DEF Data, ListedOnce
<1>5. \A s \in Sources : \A l \in Registered[s] :
        /\ l \in Handlers => on[l] = s /\ calls[l] = 0
        /\ l \notin Handlers => l \in following /\ parent[l] = s
  BY <1>2, SourcesAreNumbers DEF Data, ListedOnce
<1> QED
  BY <1>1, <1>2, <1>3, <1>4, <1>5

LEMMA ListenerStep ==
  ASSUME TypeOK, Data, StackInv, Listener
  PROVE  TypeOK' /\ Data' /\ StackInv'
<1> DEFINE s == Top.of
           l == Head(listeners[s])
<1>1. /\ Top.kind = "abort"
      /\ listeners[s] # <<>>
      /\ listeners' = [listeners EXCEPT ![s] = Tail(listeners[s])]
      /\ IF l \in Handlers
         THEN /\ calls' = [calls EXCEPT ![l] = calls[l] + 1]
              /\ stack' = <<Handling(l)>> \o stack
              /\ propagating' = propagating
         ELSE Propagate(l, reason[s], stack) /\ calls' = calls
      /\ UNCHANGED <<created, parent, following, reason, asked, on>>
  BY DEF Listener, sourceVars
<1>2. s \in Sources /\ Aborting(s) \in InProgress
  <2>1. stack # <<>> /\ Top \in Frames /\ Top \in InProgress
    BY <1>1, TopIs DEF TypeOK
  <2> QED
    BY <1>1, <2>1, FramesDiffer
<1> HIDE DEF s
<1>3. isCancelled(s) /\ reason[s] \in Sources
  BY <1>2, SourcesAreNumbers DEF StackInv, AbortedIsCancelled, isCancelled, TypeOK
<1>4. /\ listeners[s] \in Seq(Sources \cup Handlers)
      /\ Registered[s] = Elements(listeners[s])
      /\ Distinct(listeners[s])
  BY <1>2, ListenersAre, WhoIsListed
<1>5. /\ Tail(listeners[s]) \in Seq(Sources \cup Handlers)
      /\ l \in Sources \cup Handlers
      /\ Registered[s] = {l} \cup Elements(Tail(listeners[s]))
      /\ l \notin Elements(Tail(listeners[s]))
      /\ Distinct(Tail(listeners[s]))
  BY <1>1, <1>4, Popped
<1>6. /\ listeners' \in [Sources -> Seq(Sources \cup Handlers)]
      /\ listeners'[s] = Tail(listeners[s])
      /\ \A x \in Sources : x # s => /\ listeners'[x] = listeners[x]
                                     /\ Registered'[x] = Registered[x]
      /\ Registered'[s] = Registered[s] \ {l}
  <2>1. /\ listeners' \in [Sources -> Seq(Sources \cup Handlers)]
        /\ listeners'[s] = Tail(listeners[s])
        /\ \A x \in Sources : x # s => /\ listeners'[x] = listeners[x]
                                       /\ Registered'[x] = Registered[x]
        /\ Registered'[s] = Elements(Tail(listeners[s]))
    BY <1>1, <1>2, <1>5, Relisted
  <2> QED
    BY <2>1, <1>5
<1>7. /\ l \in Handlers => on[l] = s /\ calls[l] = 0
      /\ l \notin Handlers => l \in following /\ parent[l] = s /\ l \in Sources
  BY <1>2, <1>5, WhoIsListed
<1> HIDE DEF l
<1>8. ParentsAreOlder' /\ ReasonComesFromAbove'
  BY <1>1 DEF Data, ParentsAreOlder, ReasonComesFromAbove, isCancelled
<1>9. \A x \in Sources : Distinct(listeners'[x])
  BY <1>5, <1>6, WhoIsListed
<1>10. CASE l \in Handlers
  <2>1. /\ calls' = [calls EXCEPT ![l] = calls[l] + 1]
        /\ stack' = <<Handling(l)>> \o stack
        /\ propagating' = propagating
    BY <1>1, <1>10
  <2>2. stack' \in Seq(Frames) /\ InProgress' = {Handling(l)} \cup InProgress
    BY <2>1, <1>10, PushedOnStack, FramesDiffer
  <2>3. calls' \in [Handlers -> 0 .. 1] /\ calls'[l] = 1
        /\ \A h \in Handlers : h # l => calls'[h] = calls[h]
    BY <2>1, <1>7, <1>10 DEF TypeOK
  <2>4. TypeOK'
    BY <1>1, <1>6, <2>1, <2>2, <2>3 DEF TypeOK
  <2>5. (\A p \in Sources : StillCalling(p) => StillCalling(p)') /\ Grows
    BY <1>1, <2>2, InProgressStays
  <2>6. StackInv'
    <3>1. Handling(l) \in Frames /\ Handling(l).kind # "abort" /\ Handling(l) # Draining
          /\ \A x \in Sources : Handling(l) # Aborting(x)
      BY <1>10, FramesDiffer
    <3> QED
      BY <3>1, <2>1, <2>5, StackPushed
  <2>7. ListedOnce'
    <3> SUFFICES ASSUME NEW x \in Sources, NEW k \in Registered'[x]
                 PROVE  \/ k \in Handlers /\ on[k] = x /\ calls'[k] = 0
                        \/ k \in following /\ parent[k] = x
      BY <1>1, <1>9 DEF ListedOnce
    <3>1. k \in Registered[x]
      BY <1>6
    <3>2. k = l => x # s
      BY <1>6
    <3>3. k # l
      BY <3>1, <3>2, <1>7, <1>10, WhoIsListed
    <3> QED
      BY <3>1, <3>3, <2>3 DEF Data, ListedOnce
  <2>8. StepsComeFromAbove'
    BY <1>1, <2>1, SameNames DEF Data, StepsComeFromAbove, isCancelled
  <2>9. FollowersAreTold'
    <3> SUFFICES ASSUME NEW c \in following
                 PROVE  \/ c \in Registered'[parent[c]] /\ StillCalling(parent[c])'
                        \/ /\ isCancelled(parent[c])
                           /\ isCancelled(c) \/ \E step \in Waiting' : step[1] = c
      BY <1>1 DEF FollowersAreTold, isCancelled, StillCalling
    <3>1. c \in Sources /\ parent[c] \in Sources /\ c # l
      BY <1>10, WhoIsListed, SourcesAreNumbers
    <3>2. c \in Registered[parent[c]] => c \in Registered'[parent[c]]
      BY <3>1, <1>6
    <3>3. Waiting' = Waiting
      BY <2>1, SameNames
    <3>8. StillCalling(parent[c]) => StillCalling(parent[c])'
      BY <3>1, <2>5, <1>1
    <3>9. \/ c \in Registered[parent[c]] /\ StillCalling(parent[c])
          \/ /\ isCancelled(parent[c])
             /\ isCancelled(c) \/ \E step \in Waiting : step[1] = c
      BY DEF Data, FollowersAreTold
    <3> QED
      BY <3>2, <3>3, <3>8, <3>9
  <2>10. HandlersAreTold'
    <3> SUFFICES ASSUME NEW h \in Handlers
                 PROVE  /\ calls'[h] # 0 => on[h] # NoSource /\ isCancelled(on[h])
                        /\ (on[h] # NoSource /\ calls'[h] = 0) =>
                             h \in Registered'[on[h]] /\ StillCalling(on[h])'
      BY <1>1 DEF HandlersAreTold, isCancelled, StillCalling
    <3>1. CASE h = l
      BY <3>1, <2>3, <1>2, <1>3, <1>7, <1>10, SourcesAreNumbers
    <3>2. CASE h # l
      <4>1. calls'[h] = calls[h]
        BY <3>2, <2>3
      <4>2. on[h] # NoSource => on[h] \in Sources
        BY WhoIsListed
      <4>3. on[h] # NoSource /\ h \in Registered[on[h]] => h \in Registered'[on[h]]
        BY <3>2, <4>2, <1>6
      <4>8. on[h] # NoSource /\ StillCalling(on[h]) => StillCalling(on[h])'
        BY <4>2, <2>5, <1>1
      <4>9. /\ calls[h] # 0 => on[h] # NoSource /\ isCancelled(on[h])
            /\ (on[h] # NoSource /\ calls[h] = 0) =>
                 h \in Registered[on[h]] /\ StillCalling(on[h])
        BY DEF Data, HandlersAreTold
      <4> QED
        BY <4>1, <4>3, <4>8, <4>9
    <3> QED
      BY <3>1, <3>2
  <2> QED
    BY <2>4, <2>6, <2>7, <2>8, <2>9, <2>10, <1>8 DEF Data
<1>11. CASE l \notin Handlers
  <2>1. Propagate(l, reason[s], stack) /\ calls' = calls
    BY <1>1, <1>11
  <2>2. /\ propagating' \in Seq(Steps)
        /\ propagating' # null
        /\ Waiting' = Waiting \cup {<<l, reason[s]>>}
        /\ \/ propagating # null /\ stack' = stack
           \/ propagating = null /\ stack' = <<Draining>> \o stack
    BY <2>1, <1>3, <1>7, <1>11, Propagates
  <2>3. stack' \in Seq(Frames) /\ InProgress \subseteq InProgress'
    BY <2>2, SameNames, PushedOnStack, FramesDiffer DEF TypeOK
  <2>4. TypeOK'
    BY <1>1, <1>6, <2>1, <2>2, <2>3 DEF TypeOK
  <2>5. (\A p \in Sources : StillCalling(p) => StillCalling(p)') /\ Grows
    BY <1>1, <2>3, InProgressStays
  <2>6. StackInv'
    <3>1. CASE propagating # null /\ stack' = stack
      BY <3>1, <2>2, <2>5, StackStays
    <3>2. CASE propagating = null /\ stack' = <<Draining>> \o stack
      <4>1. Draining \in Frames /\ Draining.kind # "abort"
            /\ \A x \in Sources : Draining # Aborting(x)
        BY FramesDiffer
      <4> QED
        BY <4>1, <3>2, <2>2, <2>5, StackPushed
    <3> QED
      BY <2>2, <3>1, <3>2
  <2>7. ListedOnce'
    <3> SUFFICES ASSUME NEW x \in Sources, NEW k \in Registered'[x]
                 PROVE  \/ k \in Handlers /\ on[k] = x /\ calls[k] = 0
                        \/ k \in following /\ parent[k] = x
      BY <1>1, <2>1, <1>9 DEF ListedOnce
    <3>1. k \in Registered[x]
      BY <1>6
    <3> QED
      BY <3>1 DEF Data, ListedOnce
  <2>8. StepsComeFromAbove'
    <3> SUFFICES ASSUME NEW step \in Waiting'
                 PROVE  /\ parent[step[1]] # NoSource
                        /\ isCancelled(parent[step[1]])
                        /\ step[2] = reason[parent[step[1]]]
      BY <1>1 DEF StepsComeFromAbove, isCancelled
    <3>1. CASE step \in Waiting
      BY <3>1 DEF Data, StepsComeFromAbove
    <3>2. CASE step = <<l, reason[s]>>
      <4>1. step[1] = l /\ step[2] = reason[s] /\ parent[l] = s
        BY <3>2, <1>7, <1>11
      <4> QED
        BY <4>1, <1>2, <1>3, SourcesAreNumbers
    <3> QED
      BY <3>1, <3>2, <2>2
  <2>9. FollowersAreTold'
    <3> SUFFICES ASSUME NEW c \in following
                 PROVE  \/ c \in Registered'[parent[c]] /\ StillCalling(parent[c])'
                        \/ /\ isCancelled(parent[c])
                           /\ isCancelled(c) \/ \E step \in Waiting' : step[1] = c
      BY <1>1 DEF FollowersAreTold, isCancelled, StillCalling
    <3>1. c \in Sources /\ parent[c] \in Sources
      BY WhoIsListed
    <3>2. CASE c = l
      <4>1. <<l, reason[s]>> \in Waiting' /\ <<l, reason[s]>>[1] = c
        BY <3>2, <2>2
      <4>2. isCancelled(parent[c])
        BY <3>2, <1>3, <1>7, <1>11
      <4> QED
        BY <4>1, <4>2
    <3>3. CASE c # l
      <4>1. c \in Registered[parent[c]] => c \in Registered'[parent[c]]
        BY <3>1, <3>3, <1>6
      <4>8. StillCalling(parent[c]) => StillCalling(parent[c])'
        BY <3>1, <2>5, <1>1
      <4>9. \/ c \in Registered[parent[c]] /\ StillCalling(parent[c])
            \/ /\ isCancelled(parent[c])
               /\ isCancelled(c) \/ \E step \in Waiting : step[1] = c
        BY DEF Data, FollowersAreTold
      <4> QED
        BY <4>1, <4>8, <4>9, <2>2
    <3> QED
      BY <3>2, <3>3
  <2>10. HandlersAreTold'
    <3> SUFFICES ASSUME NEW h \in Handlers
                 PROVE  /\ calls[h] # 0 => on[h] # NoSource /\ isCancelled(on[h])
                        /\ (on[h] # NoSource /\ calls[h] = 0) =>
                             h \in Registered'[on[h]] /\ StillCalling(on[h])'
      BY <1>1, <2>1 DEF HandlersAreTold, isCancelled, StillCalling
    <3>1. on[h] # NoSource => on[h] \in Sources
      BY WhoIsListed
    <3>2. on[h] # NoSource /\ h \in Registered[on[h]] => h \in Registered'[on[h]]
      BY <1>11, <3>1, <1>6
    <3>8. on[h] # NoSource /\ StillCalling(on[h]) => StillCalling(on[h])'
      BY <3>1, <2>5, <1>1
    <3>9. /\ calls[h] # 0 => on[h] # NoSource /\ isCancelled(on[h])
          /\ (on[h] # NoSource /\ calls[h] = 0) =>
               h \in Registered[on[h]] /\ StillCalling(on[h])
      BY DEF Data, HandlersAreTold
    <3> QED
      BY <3>2, <3>8, <3>9
  <2> QED
    BY <2>4, <2>6, <2>7, <2>8, <2>9, <2>10, <1>8 DEF Data
<1> QED
  BY <1>10, <1>11

LEMMA CreateStep ==
  ASSUME TypeOK, Data, StackInv, NEW p \in 0 .. Count, Create(p)
  PROVE  TypeOK' /\ Data' /\ StackInv'
<1> DEFINE s == created + 1
           told == p # NoSource /\ isCancelled(p)
<1>1. /\ created < Count
      /\ p <= created
      /\ created' = s
      /\ parent' = [parent EXCEPT ![s] = p]
      /\ following' = IF p = NoSource THEN following ELSE following \cup {s}
      /\ IF told
         THEN Propagate(s, reason[p], stack) /\ listeners' = listeners
         ELSE /\ listeners' = IF p = NoSource THEN listeners
                              ELSE [listeners EXCEPT ![p] = Append(listeners[p], s)]
              /\ UNCHANGED <<propagating, stack>>
      /\ UNCHANGED <<reason, asked, on, calls>>
  BY DEF Create, handlerVars
<1>2. s \in Sources /\ s > created /\ s > p /\ s \in 0 .. Count /\ s \notin Handlers
  <2>1. created \in Nat /\ Count \in Nat /\ p \in Nat
    BY CancellationAssumption DEF TypeOK
  <2>2. s \in 1 .. Count /\ s > created /\ s > p
    BY <1>1, <2>1
  <2>3. s \in Sources
    BY <2>2 DEF Sources
  <2> QED
    BY <2>2, <2>3, SourcesAreNumbers
<1>3. parent[s] = NoSource /\ reason[s] = NoSource /\ s \notin following
  BY <1>2 DEF Data, ParentsAreOlder
<1>4. \A x \in Sources : s \notin Registered[x] /\ parent[x] # s
  <2>1. ASSUME NEW x \in Sources, parent[x] = s PROVE FALSE
    <3>1. x > s
      BY <2>1, <1>2, SourcesAreNumbers DEF Data, ParentsAreOlder
    <3>2. x > created
      BY <3>1, <1>2, SourcesAreNumbers DEF TypeOK
    <3> QED
      BY <2>1, <3>2, <1>2, SourcesAreNumbers DEF Data, ParentsAreOlder
  <2> QED
    BY <2>1, <1>2, <1>3, WhoIsListed
<1>5. \A step \in Waiting : step[1] # s
  BY <1>3 DEF Data, StepsComeFromAbove
<1>6. p # NoSource => p \in Sources /\ p # s
  BY <1>2, SourcesAreNumbers DEF TypeOK
<1>7. /\ parent' \in [Sources -> 0 .. Count]
      /\ parent'[s] = p
      /\ \A x \in Sources : x # s => parent'[x] = parent[x]
  BY <1>1, <1>2 DEF TypeOK
<1>8. /\ following' \subseteq Sources
      /\ \A c \in following' : c \in following \/ (c = s /\ p # NoSource)
      /\ following \subseteq following'
  BY <1>1, <1>2 DEF TypeOK
<1>9. created' \in 0 .. Count
  BY <1>1, <1>2
<1>10. ParentsAreOlder'
  <2> SUFFICES ASSUME NEW x \in Sources
               PROVE  /\ parent'[x] < x
                      /\ x > s => parent'[x] = NoSource /\ reason[x] = NoSource
                      /\ x \in following' => parent'[x] # NoSource
    BY <1>1 DEF ParentsAreOlder
  <2>1. CASE x = s
    BY <2>1, <1>2, <1>7, <1>3, <1>8
  <2>2. CASE x # s
    <3>1. x > s => x > created
      BY <1>2, SourcesAreNumbers DEF TypeOK
    <3> QED
      BY <2>2, <3>1, <1>7, <1>8 DEF Data, ParentsAreOlder
  <2> QED
    BY <2>1, <2>2
<1>11. ReasonComesFromAbove'
  <2> SUFFICES ASSUME NEW x \in Sources, isCancelled(x)
               PROVE  \/ reason[x] = x /\ x \in asked
                      \/ parent'[x] # NoSource /\ reason[x] = reason[parent'[x]]
    BY <1>1 DEF ReasonComesFromAbove, isCancelled
  <2>1. x # s
    BY <1>3 DEF isCancelled
  <2> QED
    BY <2>1, <1>7 DEF Data, ReasonComesFromAbove
<1>12. CASE told
  <2>1. Propagate(s, reason[p], stack) /\ listeners' = listeners /\ p \in Sources /\ p # s
    BY <1>1, <1>6, <1>12
  <2>2. reason[p] \in Sources
    BY <2>1, <1>12, SourcesAreNumbers DEF isCancelled, TypeOK
  <2>3. /\ propagating' \in Seq(Steps)
        /\ propagating' # null
        /\ Waiting' = Waiting \cup {<<s, reason[p]>>}
        /\ \/ propagating # null /\ stack' = stack
           \/ propagating = null /\ stack' = <<Draining>> \o stack
    BY <2>1, <2>2, <1>2, Propagates
  <2>4. stack' \in Seq(Frames) /\ InProgress \subseteq InProgress'
    BY <2>3, SameNames, PushedOnStack, FramesDiffer DEF TypeOK
  <2>5. TypeOK'
    BY <1>1, <1>7, <1>8, <1>9, <2>1, <2>3, <2>4 DEF TypeOK
  <2>6. (\A x \in Sources : StillCalling(x) => StillCalling(x)') /\ Grows
    BY <1>1, <2>4, InProgressStays
  <2>7. StackInv'
    <3>1. CASE propagating # null /\ stack' = stack
      BY <3>1, <2>3, <2>6, StackStays
    <3>2. CASE propagating = null /\ stack' = <<Draining>> \o stack
      <4>1. Draining \in Frames /\ Draining.kind # "abort"
            /\ \A x \in Sources : Draining # Aborting(x)
        BY FramesDiffer
      <4> QED
        BY <4>1, <3>2, <2>3, <2>6, StackPushed
    <3> QED
      BY <2>3, <3>1, <3>2
  <2>8. Registered' = Registered
    BY <2>1, SameNames
  <2>9. ListedOnce'
    <3> SUFFICES ASSUME NEW x \in Sources
                 PROVE  /\ Distinct(listeners[x])
                        /\ \A l \in Registered[x] :
                             \/ l \in Handlers /\ on[l] = x /\ calls[l] = 0
                             \/ l \in following' /\ parent'[l] = x
      BY <1>1, <2>1, <2>8 DEF ListedOnce
    <3>1. Distinct(listeners[x])
      BY WhoIsListed
    <3>2. ASSUME NEW l \in Registered[x]
          PROVE  \/ l \in Handlers /\ on[l] = x /\ calls[l] = 0
                 \/ l \in following' /\ parent'[l] = x
      <4>1. l # s
        BY <1>4
      <4> QED
        BY <4>1, <1>7, <1>8, WhoIsListed
    <3> QED
      BY <3>1, <3>2
  <2>10. StepsComeFromAbove'
    <3> SUFFICES ASSUME NEW step \in Waiting'
                 PROVE  /\ parent'[step[1]] # NoSource
                        /\ isCancelled(parent'[step[1]])
                        /\ step[2] = reason[parent'[step[1]]]
      BY <1>1 DEF StepsComeFromAbove, isCancelled
    <3>1. CASE step \in Waiting
      <4>1. /\ parent[step[1]] # NoSource
            /\ isCancelled(parent[step[1]])
            /\ step[2] = reason[parent[step[1]]]
        BY <3>1 DEF Data, StepsComeFromAbove
      <4>2. step \in Steps
        BY <3>1 DEF Waiting, Elements, TypeOK
      <4>3. parent'[step[1]] = parent[step[1]]
        BY <3>1, <4>2, <1>5, <1>7 DEF Steps
      <4> QED
        BY <4>1, <4>3
    <3>2. CASE step = <<s, reason[p]>>
      <4>1. step[1] = s /\ step[2] = reason[p] /\ parent'[s] = p
        BY <3>2, <1>7
      <4>2. p # NoSource /\ isCancelled(p)
        BY <1>12
      <4> QED
        BY <4>1, <4>2
    <3> QED
      BY <3>1, <3>2, <2>3
  <2>11. FollowersAreTold'
    <3> SUFFICES ASSUME NEW c \in following'
                 PROVE  \/ c \in Registered[parent'[c]] /\ StillCalling(parent[c])'
                        \/ /\ isCancelled(parent'[c])
                           /\ isCancelled(c) \/ \E step \in Waiting' : step[1] = c
      BY <1>1, <2>8 DEF FollowersAreTold, isCancelled, StillCalling
    <3>1. CASE c = s
      <4>1. <<s, reason[p]>> \in Waiting' /\ <<s, reason[p]>>[1] = c
        BY <3>1, <2>3
      <4>2. isCancelled(parent'[c])
        BY <3>1, <1>7, <1>12
      <4> QED
        BY <4>1, <4>2
    <3>2. CASE c # s
      <4>1. c \in following
        BY <3>2, <1>8
      <4>2. c \in Sources /\ parent[c] \in Sources /\ parent'[c] = parent[c]
        BY <3>2, <4>1, <1>7, WhoIsListed
      <4>3. StillCalling(parent[c]) => StillCalling(parent[c])'
        BY <4>2, <2>6
      <4>4. \/ c \in Registered[parent[c]] /\ StillCalling(parent[c])
            \/ /\ isCancelled(parent[c])
               /\ isCancelled(c) \/ \E step \in Waiting : step[1] = c
        BY <4>1 DEF Data, FollowersAreTold
      <4> QED
        BY <4>2, <4>3, <4>4, <2>3
    <3> QED
      BY <3>1, <3>2
  <2>12. HandlersAreTold'
    <3> SUFFICES ASSUME NEW h \in Handlers
                 PROVE  /\ calls[h] # 0 => on[h] # NoSource /\ isCancelled(on[h])
                        /\ (on[h] # NoSource /\ calls[h] = 0) =>
                             h \in Registered[on[h]] /\ StillCalling(on[h])'
      BY <1>1, <2>8 DEF HandlersAreTold, isCancelled, StillCalling
    <3>1. on[h] # NoSource => on[h] \in Sources
      BY WhoIsListed
    <3>2. on[h] # NoSource /\ StillCalling(on[h]) => StillCalling(on[h])'
      BY <3>1, <2>6, <1>1
    <3>3. /\ calls[h] # 0 => on[h] # NoSource /\ isCancelled(on[h])
          /\ (on[h] # NoSource /\ calls[h] = 0) =>
               h \in Registered[on[h]] /\ StillCalling(on[h])
      BY DEF Data, HandlersAreTold
    <3> QED
      BY <3>2, <3>3
  <2> QED
    BY <2>5, <2>7, <2>9, <2>10, <2>11, <2>12, <1>10, <1>11 DEF Data
<1>13. CASE ~told
  <2>1. /\ listeners' = IF p = NoSource THEN listeners
                        ELSE [listeners EXCEPT ![p] = Append(listeners[p], s)]
        /\ propagating' = propagating /\ stack' = stack
    BY <1>1, <1>13
  <2>2. Waiting' = Waiting /\ InProgress' = InProgress
    BY <2>1, SameNames
  <2>3. (\A x \in Sources : StillCalling(x) => StillCalling(x)') /\ Grows
    BY <1>1, <2>2, InProgressStays
  <2>4. StackInv'
    BY <2>1, <2>3, StackStays
  <2>5. /\ listeners' \in [Sources -> Seq(Sources \cup Handlers)]
        /\ \A x \in Sources : Distinct(listeners'[x])
        /\ \A x \in Sources : Registered'[x] =
             IF x = p THEN Registered[x] \cup {s} ELSE Registered[x]
    <3>1. CASE p = NoSource
      <4>1. listeners' = listeners
        BY <2>1, <3>1
      <4>2. Registered' = Registered
        BY <4>1, SameNames
      <4> QED
        BY <3>1, <4>1, <4>2, WhoIsListed, SourcesAreNumbers DEF TypeOK
    <3>2. CASE p # NoSource
      <4>1. p \in Sources /\ listeners[p] \in Seq(Sources \cup Handlers)
            /\ Registered[p] = Elements(listeners[p]) /\ s \in Sources \cup Handlers
            /\ s \notin Elements(listeners[p]) /\ Distinct(listeners[p])
        BY <3>2, <1>2, <1>4, <1>6, ListenersAre, WhoIsListed
      <4>2. /\ Append(listeners[p], s) \in Seq(Sources \cup Handlers)
            /\ Elements(Append(listeners[p], s)) = Elements(listeners[p]) \cup {s}
            /\ Distinct(Append(listeners[p], s))
        BY <4>1, Appended
      <4>3. listeners' = [listeners EXCEPT ![p] = Append(listeners[p], s)]
        BY <2>1, <3>2
      <4>4. /\ listeners' \in [Sources -> Seq(Sources \cup Handlers)]
            /\ listeners'[p] = Append(listeners[p], s)
            /\ \A x \in Sources : x # p => /\ listeners'[x] = listeners[x]
                                           /\ Registered'[x] = Registered[x]
            /\ Registered'[p] = Elements(Append(listeners[p], s))
        BY <4>1, <4>2, <4>3, Relisted
      <4> HIDE DEF s
      <4> QED
        BY <4>1, <4>2, <4>4, WhoIsListed
    <3> QED
      BY <3>1, <3>2
  <2>6. TypeOK'
    BY <1>1, <1>7, <1>8, <1>9, <2>1, <2>5 DEF TypeOK
  <2> HIDE DEF s
  <2>7. ListedOnce'
    <3> SUFFICES ASSUME NEW x \in Sources, NEW l \in Registered'[x]
                 PROVE  \/ l \in Handlers /\ on[l] = x /\ calls[l] = 0
                        \/ l \in following' /\ parent'[l] = x
      BY <1>1, <2>5 DEF ListedOnce
    <3>1. CASE l \in Registered[x]
      <4>1. l # s
        BY <3>1, <1>4
      <4> QED
        BY <3>1, <4>1, <1>7, <1>8, WhoIsListed
    <3>2. CASE l \notin Registered[x]
      <4>1. x = p /\ l = s
        BY <3>2, <2>5
      <4>2. p # NoSource
        BY <4>1, SourcesAreNumbers
      <4> QED
        BY <4>1, <4>2, <1>1, <1>7
    <3> QED
      BY <3>1, <3>2
  <2>8. StepsComeFromAbove'
    <3> SUFFICES ASSUME NEW step \in Waiting
                 PROVE  /\ parent'[step[1]] # NoSource
                        /\ isCancelled(parent'[step[1]])
                        /\ step[2] = reason[parent'[step[1]]]
      BY <1>1, <2>2 DEF StepsComeFromAbove, isCancelled
    <3>1. /\ parent[step[1]] # NoSource
          /\ isCancelled(parent[step[1]])
          /\ step[2] = reason[parent[step[1]]]
      BY DEF Data, StepsComeFromAbove
    <3>2. step \in Steps
      BY DEF Waiting, Elements, TypeOK
    <3>3. parent'[step[1]] = parent[step[1]]
      BY <3>2, <1>5, <1>7 DEF Steps
    <3> QED
      BY <3>1, <3>3
  <2>9. FollowersAreTold'
    <3> SUFFICES ASSUME NEW c \in following'
                 PROVE  \/ c \in Registered'[parent'[c]] /\ StillCalling(parent[c])'
                        \/ /\ isCancelled(parent'[c])
                           /\ isCancelled(c) \/ \E step \in Waiting : step[1] = c
      BY <1>1, <2>2 DEF FollowersAreTold, isCancelled, StillCalling
    <3>1. CASE c = s
      <4>1. p \in Sources /\ parent'[c] = p
        BY <3>1, <1>3, <1>6, <1>7, <1>8
      <4>2. c \in Registered'[p]
        BY <3>1, <4>1, <2>5
      <4>3. ~isCancelled(p)
        BY <4>1, <1>13, SourcesAreNumbers
      <4>4. StillCalling(p)'
        BY <4>3, <1>1 DEF StillCalling, isCancelled
      <4> QED
        BY <4>1, <4>2, <4>4
    <3>2. CASE c # s
      <4>1. c \in following
        BY <3>2, <1>8
      <4>2. c \in Sources /\ parent[c] \in Sources /\ parent'[c] = parent[c]
        BY <3>2, <4>1, <1>7, WhoIsListed
      <4>3. StillCalling(parent[c]) => StillCalling(parent[c])'
        BY <4>2, <2>3
      <4>4. \/ c \in Registered[parent[c]] /\ StillCalling(parent[c])
            \/ /\ isCancelled(parent[c])
               /\ isCancelled(c) \/ \E step \in Waiting : step[1] = c
        BY <4>1 DEF Data, FollowersAreTold
      <4>5. c \in Registered[parent[c]] => c \in Registered'[parent[c]]
        BY <4>2, <2>5
      <4> QED
        BY <4>2, <4>3, <4>4, <4>5
    <3> QED
      BY <3>1, <3>2
  <2>10. HandlersAreTold'
    <3> SUFFICES ASSUME NEW h \in Handlers
                 PROVE  /\ calls[h] # 0 => on[h] # NoSource /\ isCancelled(on[h])
                        /\ (on[h] # NoSource /\ calls[h] = 0) =>
                             h \in Registered'[on[h]] /\ StillCalling(on[h])'
      BY <1>1 DEF HandlersAreTold, isCancelled, StillCalling
    <3>1. on[h] # NoSource => on[h] \in Sources
      BY WhoIsListed
    <3>2. on[h] # NoSource /\ StillCalling(on[h]) => StillCalling(on[h])'
      BY <3>1, <2>3, <1>1
    <3>3. /\ calls[h] # 0 => on[h] # NoSource /\ isCancelled(on[h])
          /\ (on[h] # NoSource /\ calls[h] = 0) =>
               h \in Registered[on[h]] /\ StillCalling(on[h])
      BY DEF Data, HandlersAreTold
    <3>4. on[h] # NoSource /\ h \in Registered[on[h]] => h \in Registered'[on[h]]
      BY <3>1, <2>5
    <3> QED
      BY <3>2, <3>3, <3>4
  <2> QED
    BY <2>4, <2>6, <2>7, <2>8, <2>9, <2>10, <1>10, <1>11 DEF Data
<1> QED
  BY <1>12, <1>13

LEMMA DisposeStep ==
  ASSUME TypeOK, Data, StackInv, NEW s \in Sources, Dispose(s)
  PROVE  TypeOK' /\ Data' /\ StackInv'
<1> DEFINE p == parent[s]
<1>1. /\ s \in following
      /\ following' = following \ {s}
      /\ listeners' = [listeners EXCEPT ![p] = Without(listeners[p], s)]
      /\ UNCHANGED <<created, parent, reason, asked, on, calls, propagating, stack>>
  BY DEF Dispose, handlerVars
<1>2. p \in Sources /\ s \notin Handlers
  BY <1>1, WhoIsListed, SourcesAreNumbers
<1> HIDE DEF p
<1>3. Waiting' = Waiting /\ InProgress' = InProgress
  BY <1>1, SameNames
<1>4. (\A x \in Sources : StillCalling(x) => StillCalling(x)') /\ Grows
  BY <1>1, <1>3, InProgressStays
<1>5. StackInv'
  BY <1>1, <1>4, StackStays
<1>6. /\ listeners' \in [Sources -> Seq(Sources \cup Handlers)]
      /\ \A x \in Sources : Distinct(listeners'[x])
      /\ \A x \in Sources : Registered'[x] =
           IF x = p THEN Registered[x] \ {s} ELSE Registered[x]
  <2>1. /\ listeners[p] \in Seq(Sources \cup Handlers)
        /\ Registered[p] = Elements(listeners[p])
        /\ Distinct(listeners[p])
    BY <1>2, ListenersAre, WhoIsListed
  <2>2. /\ Without(listeners[p], s) \in Seq(Sources \cup Handlers)
        /\ Elements(Without(listeners[p], s)) = Elements(listeners[p]) \ {s}
        /\ Distinct(Without(listeners[p], s))
    BY <2>1, WithoutOf
  <2>3. /\ listeners' \in [Sources -> Seq(Sources \cup Handlers)]
        /\ listeners'[p] = Without(listeners[p], s)
        /\ \A x \in Sources : x # p => /\ listeners'[x] = listeners[x]
                                       /\ Registered'[x] = Registered[x]
        /\ Registered'[p] = Elements(Without(listeners[p], s))
    BY <1>1, <1>2, <2>2, Relisted
  <2> QED
    BY <2>1, <2>2, <2>3, WhoIsListed
<1>7. TypeOK'
  BY <1>1, <1>6 DEF TypeOK
<1>8. ParentsAreOlder' /\ ReasonComesFromAbove'
  BY <1>1 DEF Data, ParentsAreOlder, ReasonComesFromAbove, isCancelled
<1>9. StepsComeFromAbove'
  BY <1>1, <1>3 DEF Data, StepsComeFromAbove, isCancelled
<1>10. ListedOnce'
  <2> SUFFICES ASSUME NEW x \in Sources, NEW l \in Registered'[x]
               PROVE  \/ l \in Handlers /\ on[l] = x /\ calls[l] = 0
                      \/ l \in following' /\ parent[l] = x
    BY <1>1, <1>6 DEF ListedOnce
  <2>1. l \in Registered[x] /\ (l = s => x # p)
    BY <1>6
  <2>2. CASE l \in Handlers
    BY <2>1, <2>2, WhoIsListed
  <2>3. CASE l \notin Handlers
    <3>1. l \in following /\ parent[l] = x
      BY <2>1, <2>3, WhoIsListed
    <3>2. l # s
      BY <2>1, <3>1 DEF p
    <3> QED
      BY <3>1, <3>2, <1>1
  <2> QED
    BY <2>2, <2>3
<1>11. FollowersAreTold'
  <2> SUFFICES ASSUME NEW c \in following'
               PROVE  \/ c \in Registered'[parent[c]] /\ StillCalling(parent[c])'
                      \/ /\ isCancelled(parent[c])
                         /\ isCancelled(c) \/ \E step \in Waiting : step[1] = c
    BY <1>1, <1>3 DEF FollowersAreTold, isCancelled, StillCalling
  <2>1. c \in following /\ c # s
    BY <1>1
  <2>2. parent[c] \in Sources
    BY <2>1, WhoIsListed
  <2>3. StillCalling(parent[c]) => StillCalling(parent[c])'
    BY <2>2, <1>4, <1>1
  <2>4. \/ c \in Registered[parent[c]] /\ StillCalling(parent[c])
        \/ /\ isCancelled(parent[c])
           /\ isCancelled(c) \/ \E step \in Waiting : step[1] = c
    BY <2>1 DEF Data, FollowersAreTold
  <2>5. c \in Registered[parent[c]] => c \in Registered'[parent[c]]
    BY <2>1, <2>2, <1>6
  <2> QED
    BY <2>3, <2>4, <2>5
<1>12. HandlersAreTold'
  <2> SUFFICES ASSUME NEW h \in Handlers
               PROVE  /\ calls[h] # 0 => on[h] # NoSource /\ isCancelled(on[h])
                      /\ (on[h] # NoSource /\ calls[h] = 0) =>
                           h \in Registered'[on[h]] /\ StillCalling(on[h])'
    BY <1>1 DEF HandlersAreTold, isCancelled, StillCalling
  <2>1. on[h] # NoSource => on[h] \in Sources
    BY WhoIsListed
  <2>2. on[h] # NoSource /\ StillCalling(on[h]) => StillCalling(on[h])'
    BY <2>1, <1>4, <1>1
  <2>3. /\ calls[h] # 0 => on[h] # NoSource /\ isCancelled(on[h])
        /\ (on[h] # NoSource /\ calls[h] = 0) =>
             h \in Registered[on[h]] /\ StillCalling(on[h])
    BY DEF Data, HandlersAreTold
  <2>4. on[h] # NoSource /\ h \in Registered[on[h]] => h \in Registered'[on[h]]
    BY <2>1, <1>2, <1>6
  <2> QED
    BY <2>2, <2>3, <2>4
<1> QED
  BY <1>5, <1>7, <1>8, <1>9, <1>10, <1>11, <1>12 DEF Data

LEMMA ReleaseStep ==
  ASSUME TypeOK, Data, StackInv, NEW h \in Handlers, Release(h)
  PROVE  TypeOK' /\ Data' /\ StackInv'
<1> DEFINE s == on[h]
<1>1. /\ s # NoSource
      /\ calls[h] = 0
      /\ listeners' = [listeners EXCEPT ![s] = Without(listeners[s], h)]
      /\ on' = [on EXCEPT ![h] = NoSource]
      /\ UNCHANGED <<created, parent, following, reason, asked, calls, propagating, stack>>
  BY DEF Release, sourceVars
<1>2. s \in Sources
  BY <1>1, WhoIsListed
<1> HIDE DEF s
<1>3. Waiting' = Waiting /\ InProgress' = InProgress
  BY <1>1, SameNames
<1>4. (\A x \in Sources : StillCalling(x) => StillCalling(x)') /\ Grows
  BY <1>1, <1>3, InProgressStays
<1>5. StackInv'
  BY <1>1, <1>4, StackStays
<1>6. /\ listeners' \in [Sources -> Seq(Sources \cup Handlers)]
      /\ \A x \in Sources : Distinct(listeners'[x])
      /\ \A x \in Sources : Registered'[x] =
           IF x = s THEN Registered[x] \ {h} ELSE Registered[x]
  <2>1. /\ listeners[s] \in Seq(Sources \cup Handlers)
        /\ Registered[s] = Elements(listeners[s])
        /\ Distinct(listeners[s])
    BY <1>2, ListenersAre, WhoIsListed
  <2>2. /\ Without(listeners[s], h) \in Seq(Sources \cup Handlers)
        /\ Elements(Without(listeners[s], h)) = Elements(listeners[s]) \ {h}
        /\ Distinct(Without(listeners[s], h))
    BY <2>1, WithoutOf
  <2>3. /\ listeners' \in [Sources -> Seq(Sources \cup Handlers)]
        /\ listeners'[s] = Without(listeners[s], h)
        /\ \A x \in Sources : x # s => /\ listeners'[x] = listeners[x]
                                       /\ Registered'[x] = Registered[x]
        /\ Registered'[s] = Elements(Without(listeners[s], h))
    BY <1>1, <1>2, <2>2, Relisted
  <2> QED
    BY <2>1, <2>2, <2>3, WhoIsListed
<1>7. /\ on' \in [Handlers -> 0 .. Count]
      /\ on'[h] = NoSource
      /\ \A g \in Handlers : g # h => on'[g] = on[g]
  <2>1. NoSource \in 0 .. Count
    BY CancellationAssumption DEF NoSource
  <2> QED
    BY <1>1, <2>1 DEF TypeOK
<1>8. TypeOK'
  BY <1>1, <1>6, <1>7 DEF TypeOK
<1>9. ParentsAreOlder' /\ ReasonComesFromAbove'
  BY <1>1 DEF Data, ParentsAreOlder, ReasonComesFromAbove, isCancelled
<1>10. StepsComeFromAbove'
  BY <1>1, <1>3 DEF Data, StepsComeFromAbove, isCancelled
<1>11. ListedOnce'
  <2> SUFFICES ASSUME NEW x \in Sources, NEW l \in Registered'[x]
               PROVE  \/ l \in Handlers /\ on'[l] = x /\ calls[l] = 0
                      \/ l \in following /\ parent[l] = x
    BY <1>1, <1>6 DEF ListedOnce
  <2>1. l \in Registered[x] /\ (l = h => x # s)
    BY <1>6
  <2>2. CASE l \in Handlers
    <3>1. on[l] = x /\ calls[l] = 0
      BY <2>1, <2>2, WhoIsListed
    <3>2. l # h
      BY <2>1, <3>1 DEF s
    <3> QED
      BY <3>1, <3>2, <1>7, <2>2
  <2>3. CASE l \notin Handlers
    BY <2>1, <2>3, WhoIsListed
  <2> QED
    BY <2>2, <2>3
<1>12. FollowersAreTold'
  <2> SUFFICES ASSUME NEW c \in following
               PROVE  \/ c \in Registered'[parent[c]] /\ StillCalling(parent[c])'
                      \/ /\ isCancelled(parent[c])
                         /\ isCancelled(c) \/ \E step \in Waiting : step[1] = c
    BY <1>1, <1>3 DEF FollowersAreTold, isCancelled, StillCalling
  <2>1. c \in Sources /\ c # h /\ parent[c] \in Sources
    BY WhoIsListed, SourcesAreNumbers
  <2>3. StillCalling(parent[c]) => StillCalling(parent[c])'
    BY <2>1, <1>4, <1>1
  <2>4. \/ c \in Registered[parent[c]] /\ StillCalling(parent[c])
        \/ /\ isCancelled(parent[c])
           /\ isCancelled(c) \/ \E step \in Waiting : step[1] = c
    BY DEF Data, FollowersAreTold
  <2>5. c \in Registered[parent[c]] => c \in Registered'[parent[c]]
    BY <2>1, <1>6
  <2> QED
    BY <2>3, <2>4, <2>5
<1>13. HandlersAreTold'
  <2> SUFFICES ASSUME NEW g \in Handlers
               PROVE  /\ calls[g] # 0 => on'[g] # NoSource /\ isCancelled(on'[g])
                      /\ (on'[g] # NoSource /\ calls[g] = 0) =>
                           g \in Registered'[on'[g]] /\ StillCalling(on[g])'
    BY <1>1 DEF HandlersAreTold, isCancelled, StillCalling
  <2>1. CASE g = h
    BY <2>1, <1>1, <1>7
  <2>2. CASE g # h
    <3>1. (on[g] # NoSource => on[g] \in Sources) /\ on'[g] = on[g]
      BY <2>2, <1>7, WhoIsListed
    <3>2. on[g] # NoSource /\ StillCalling(on[g]) => StillCalling(on[g])'
      BY <3>1, <1>4
    <3>3. /\ calls[g] # 0 => on[g] # NoSource /\ isCancelled(on[g])
          /\ (on[g] # NoSource /\ calls[g] = 0) =>
               g \in Registered[on[g]] /\ StillCalling(on[g])
      BY DEF Data, HandlersAreTold
    <3>4. on[g] # NoSource /\ g \in Registered[on[g]] => g \in Registered'[on[g]]
      BY <2>2, <3>1, <1>6
    <3> QED
      BY <3>1, <3>2, <3>3, <3>4
  <2> QED
    BY <2>1, <2>2
<1> QED
  BY <1>5, <1>8, <1>9, <1>10, <1>11, <1>12, <1>13 DEF Data

LEMMA OnCancelledStep ==
  ASSUME TypeOK, Data, StackInv, NEW h \in Handlers, NEW s \in Sources, OnCancelled(h, s)
  PROVE  TypeOK' /\ Data' /\ StackInv'
<1>1. /\ InCallersCode
      /\ on[h] = NoSource
      /\ on' = [on EXCEPT ![h] = s]
      /\ IF isCancelled(s)
         THEN /\ calls' = [calls EXCEPT ![h] = calls[h] + 1]
              /\ stack' = <<Handling(h)>> \o stack
              /\ listeners' = listeners
         ELSE /\ listeners' = [listeners EXCEPT ![s] = Append(listeners[s], h)]
              /\ UNCHANGED <<calls, stack>>
      /\ UNCHANGED <<created, parent, following, reason, asked, propagating>>
  BY DEF OnCancelled, sourceVars
<1>2. calls[h] = 0
  BY <1>1 DEF Data, HandlersAreTold
<1>3. \A x \in Sources : h \notin Registered[x]
  BY <1>1, WhoIsListed, SourcesAreNumbers
<1>4. /\ on' \in [Handlers -> 0 .. Count]
      /\ on'[h] = s
      /\ \A g \in Handlers : g # h => on'[g] = on[g]
  <2>1. s \in 0 .. Count
    BY SourcesAreNumbers
  <2> QED
    BY <1>1, <2>1 DEF TypeOK
<1>5. Waiting' = Waiting
  BY <1>1, SameNames
<1>6. ParentsAreOlder' /\ ReasonComesFromAbove'
  BY <1>1 DEF Data, ParentsAreOlder, ReasonComesFromAbove, isCancelled
<1>7. StepsComeFromAbove'
  BY <1>1, <1>5 DEF Data, StepsComeFromAbove, isCancelled
<1>8. CASE isCancelled(s)
  <2>1. /\ calls' = [calls EXCEPT ![h] = calls[h] + 1]
        /\ stack' = <<Handling(h)>> \o stack
        /\ listeners' = listeners
    BY <1>1, <1>8
  <2>2. stack' \in Seq(Frames) /\ InProgress' = {Handling(h)} \cup InProgress
    BY <2>1, PushedOnStack, FramesDiffer
  <2>3. calls' \in [Handlers -> 0 .. 1] /\ calls'[h] = 1
        /\ \A g \in Handlers : g # h => calls'[g] = calls[g]
    BY <2>1, <1>2 DEF TypeOK
  <2>4. TypeOK'
    BY <1>1, <1>4, <2>1, <2>2, <2>3 DEF TypeOK
  <2>5. (\A x \in Sources : StillCalling(x) => StillCalling(x)') /\ Grows
    BY <1>1, <2>2, InProgressStays
  <2>6. StackInv'
    <3>1. Handling(h) \in Frames /\ Handling(h).kind # "abort" /\ Handling(h) # Draining
          /\ \A x \in Sources : Handling(h) # Aborting(x)
      BY FramesDiffer
    <3> QED
      BY <3>1, <1>1, <2>1, <2>5, StackPushed
  <2>7. Registered' = Registered
    BY <2>1, SameNames
  <2>8. ListedOnce'
    <3> SUFFICES ASSUME NEW x \in Sources
                 PROVE  /\ Distinct(listeners[x])
                        /\ \A l \in Registered[x] :
                             \/ l \in Handlers /\ on'[l] = x /\ calls'[l] = 0
                             \/ l \in following /\ parent[l] = x
      BY <1>1, <2>1, <2>7 DEF ListedOnce
    <3>1. Distinct(listeners[x])
      BY WhoIsListed
    <3>2. ASSUME NEW l \in Registered[x]
          PROVE  \/ l \in Handlers /\ on'[l] = x /\ calls'[l] = 0
                 \/ l \in following /\ parent[l] = x
      <4>1. l # h
        BY <1>3
      <4> QED
        BY <4>1, <1>4, <2>3, WhoIsListed
    <3> QED
      BY <3>1, <3>2
  <2>9. FollowersAreTold'
    <3> SUFFICES ASSUME NEW c \in following
                 PROVE  \/ c \in Registered[parent[c]] /\ StillCalling(parent[c])'
                        \/ /\ isCancelled(parent[c])
                           /\ isCancelled(c) \/ \E step \in Waiting : step[1] = c
      BY <1>1, <1>5, <2>7 DEF FollowersAreTold, isCancelled, StillCalling
    <3>1. parent[c] \in Sources
      BY WhoIsListed
    <3>2. StillCalling(parent[c]) => StillCalling(parent[c])'
      BY <3>1, <2>5, <1>1
    <3>3. \/ c \in Registered[parent[c]] /\ StillCalling(parent[c])
          \/ /\ isCancelled(parent[c])
             /\ isCancelled(c) \/ \E step \in Waiting : step[1] = c
      BY DEF Data, FollowersAreTold
    <3> QED
      BY <3>2, <3>3
  <2>10. HandlersAreTold'
    <3> SUFFICES ASSUME NEW g \in Handlers
                 PROVE  /\ calls'[g] # 0 => on'[g] # NoSource /\ isCancelled(on'[g])
                        /\ (on'[g] # NoSource /\ calls'[g] = 0) =>
                             g \in Registered[on'[g]] /\ StillCalling(on[g])'
      BY <1>1, <2>7 DEF HandlersAreTold, isCancelled, StillCalling
    <3>1. CASE g = h
      BY <3>1, <1>4, <1>8, <2>3, SourcesAreNumbers
    <3>2. CASE g # h
      <4>1. (on[g] # NoSource => on[g] \in Sources) /\ on'[g] = on[g] /\ calls'[g] = calls[g]
        BY <3>2, <1>4, <2>3, WhoIsListed
      <4>2. on[g] # NoSource /\ StillCalling(on[g]) => StillCalling(on[g])'
        BY <4>1, <2>5
      <4>3. /\ calls[g] # 0 => on[g] # NoSource /\ isCancelled(on[g])
            /\ (on[g] # NoSource /\ calls[g] = 0) =>
                 g \in Registered[on[g]] /\ StillCalling(on[g])
        BY DEF Data, HandlersAreTold
      <4> QED
        BY <4>1, <4>2, <4>3
    <3> QED
      BY <3>1, <3>2
  <2> QED
    BY <2>4, <2>6, <2>8, <2>9, <2>10, <1>6, <1>7 DEF Data
<1>9. CASE ~isCancelled(s)
  <2>1. listeners' = [listeners EXCEPT ![s] = Append(listeners[s], h)]
        /\ calls' = calls /\ stack' = stack
    BY <1>1, <1>9
  <2>2. InProgress' = InProgress
    BY <2>1, SameNames
  <2>3. (\A x \in Sources : StillCalling(x) => StillCalling(x)') /\ Grows
    BY <1>1, <2>2, InProgressStays
  <2>4. StackInv'
    BY <1>1, <2>1, <2>3, StackStays
  <2>5. /\ listeners' \in [Sources -> Seq(Sources \cup Handlers)]
        /\ \A x \in Sources : Distinct(listeners'[x])
        /\ \A x \in Sources : Registered'[x] =
             IF x = s THEN Registered[x] \cup {h} ELSE Registered[x]
    <3>1. /\ listeners[s] \in Seq(Sources \cup Handlers)
          /\ Registered[s] = Elements(listeners[s]) /\ h \in Sources \cup Handlers
          /\ h \notin Elements(listeners[s]) /\ Distinct(listeners[s])
      BY <1>3, ListenersAre, WhoIsListed
    <3>2. /\ Append(listeners[s], h) \in Seq(Sources \cup Handlers)
          /\ Elements(Append(listeners[s], h)) = Elements(listeners[s]) \cup {h}
          /\ Distinct(Append(listeners[s], h))
      BY <3>1, Appended
    <3>3. /\ listeners' \in [Sources -> Seq(Sources \cup Handlers)]
          /\ listeners'[s] = Append(listeners[s], h)
          /\ \A x \in Sources : x # s => /\ listeners'[x] = listeners[x]
                                         /\ Registered'[x] = Registered[x]
          /\ Registered'[s] = Elements(Append(listeners[s], h))
      BY <2>1, <3>2, Relisted
    <3> QED
      BY <3>1, <3>2, <3>3, WhoIsListed
  <2>6. TypeOK'
    BY <1>1, <1>4, <2>1, <2>5 DEF TypeOK
  <2>7. ListedOnce'
    <3> SUFFICES ASSUME NEW x \in Sources, NEW l \in Registered'[x]
                 PROVE  \/ l \in Handlers /\ on'[l] = x /\ calls[l] = 0
                        \/ l \in following /\ parent[l] = x
      BY <1>1, <2>1, <2>5 DEF ListedOnce
    <3>1. CASE l = h
      <4>1. x = s
        BY <3>1, <2>5, <1>3
      <4> QED
        BY <3>1, <4>1, <1>2, <1>4
    <3>2. CASE l # h
      <4>1. l \in Registered[x]
        BY <3>2, <2>5
      <4> QED
        BY <3>2, <4>1, <1>4, WhoIsListed
    <3> QED
      BY <3>1, <3>2
  <2>8. FollowersAreTold'
    <3> SUFFICES ASSUME NEW c \in following
                 PROVE  \/ c \in Registered'[parent[c]] /\ StillCalling(parent[c])'
                        \/ /\ isCancelled(parent[c])
                           /\ isCancelled(c) \/ \E step \in Waiting : step[1] = c
      BY <1>1, <1>5 DEF FollowersAreTold, isCancelled, StillCalling
    <3>1. parent[c] \in Sources
      BY WhoIsListed
    <3>2. StillCalling(parent[c]) => StillCalling(parent[c])'
      BY <3>1, <2>3, <1>1
    <3>3. \/ c \in Registered[parent[c]] /\ StillCalling(parent[c])
          \/ /\ isCancelled(parent[c])
             /\ isCancelled(c) \/ \E step \in Waiting : step[1] = c
      BY DEF Data, FollowersAreTold
    <3>4. c \in Registered[parent[c]] => c \in Registered'[parent[c]]
      BY <3>1, <2>5
    <3> QED
      BY <3>2, <3>3, <3>4
  <2>9. HandlersAreTold'
    <3> SUFFICES ASSUME NEW g \in Handlers
                 PROVE  /\ calls[g] # 0 => on'[g] # NoSource /\ isCancelled(on'[g])
                        /\ (on'[g] # NoSource /\ calls[g] = 0) =>
                             g \in Registered'[on'[g]] /\ StillCalling(on[g])'
      BY <1>1, <2>1 DEF HandlersAreTold, isCancelled, StillCalling
    <3>1. CASE g = h
      <4>1. StillCalling(s)'
        BY <1>1, <1>9 DEF StillCalling, isCancelled
      <4>2. on'[g] = s /\ calls[g] = 0 /\ g \in Registered'[s]
        BY <3>1, <1>2, <1>4, <2>5
      <4> QED
        BY <4>1, <4>2
    <3>2. CASE g # h
      <4>1. (on[g] # NoSource => on[g] \in Sources) /\ on'[g] = on[g]
        BY <3>2, <1>4, WhoIsListed
      <4>2. on[g] # NoSource /\ StillCalling(on[g]) => StillCalling(on[g])'
        BY <4>1, <2>3
      <4>3. /\ calls[g] # 0 => on[g] # NoSource /\ isCancelled(on[g])
            /\ (on[g] # NoSource /\ calls[g] = 0) =>
                 g \in Registered[on[g]] /\ StillCalling(on[g])
        BY DEF Data, HandlersAreTold
      <4>4. on[g] # NoSource /\ g \in Registered[on[g]] => g \in Registered'[on[g]]
        BY <4>1, <2>5
      <4> QED
        BY <4>1, <4>2, <4>3, <4>4
    <3> QED
      BY <3>1, <3>2
  <2> QED
    BY <2>4, <2>6, <2>7, <2>8, <2>9, <1>6, <1>7 DEF Data
<1> QED
  BY <1>8, <1>9

\* Whatever returns, of the loop, of abort or of a handler.
LEMMA ReturnStep ==
  ASSUME TypeOK, Data, StackInv, HandlerReturns \/ AbortReturns \/ DrainReturns
  PROVE  TypeOK' /\ Data' /\ StackInv'
<1>1. /\ stack' = Tail(stack)
      /\ UNCHANGED <<sourceVars, reason, asked, listeners, handlerVars>>
      /\ Top.kind # "idle"
      /\ Top.kind = "abort" => listeners[Top.of] = <<>>
      /\ Top.kind = "drain" => propagating = <<>> /\ propagating' = null
      /\ Top.kind # "drain" => propagating' = propagating
  BY DEF HandlerReturns, AbortReturns, DrainReturns
<1>2. stack # <<>> /\ Top = Head(stack) /\ Top \in Frames
  BY <1>1, TopIs DEF TypeOK
<1>3. Grows
  BY <1>1 DEF Grows, isCancelled
<1>4. Draining \in InProgress <=> propagating # null
  BY DEF StackInv, OneLoop
<1>5. Top.kind = "drain" <=> Top = Draining
  BY <1>2, FramesDiffer
<1>6. propagating' # null <=> (propagating # null /\ Head(stack) # Draining)
  BY <1>1, <1>2, <1>5
<1>7. /\ StackInv'
      /\ stack' \in Seq(Frames)
      /\ InProgress = {Top} \cup InProgress'
  BY <1>1, <1>2, <1>3, <1>6, StackPopped
<1>8. TypeOK'
  BY <1>1, <1>7 DEF TypeOK, sourceVars, handlerVars
<1>9. Waiting' = Waiting
  <2>1. CASE Top.kind = "drain"
    <3>1. Waiting' = {}
      BY <1>1, <2>1 DEF Waiting
    <3>2. Elements(propagating) = {}
      BY <1>1, <2>1 DEF Elements
    <3> QED
      BY <3>1, <3>2 DEF Waiting
  <2>2. CASE Top.kind # "drain"
    BY <1>1, <2>2, SameNames
  <2> QED
    BY <2>1, <2>2
<1>10. ASSUME NEW p \in Sources, Registered[p] # {}, Aborting(p) \in InProgress
       PROVE  Aborting(p) \in InProgress'
  <2>1. Top # Aborting(p)
    <3> SUFFICES ASSUME Top = Aborting(p) PROVE FALSE
      OBVIOUS
    <3>1. Top.kind = "abort" /\ Top.of = p
      BY FramesDiffer
    <3>2. Elements(<<>>) = {}
      BY DEF Elements
    <3> QED
      BY <3>1, <3>2, <1>1, <1>10 DEF Registered
  <2> QED
    BY <2>1, <1>7, <1>10
<1>11. Data'
  BY <1>1, <1>9, <1>10, CallReturns
<1> QED
  BY <1>7, <1>8, <1>11

LEMMA AbortsStack ==
  ASSUME TypeOK, StackInv, NEW s \in Sources, NEW r \in Sources, Aborts(s, r),
         Top.kind # "abort", propagating' # null <=> propagating # null
  PROVE  StackInv' /\ stack' \in Seq(Frames)
<1>1. CASE isCancelled(s) /\ stack' = stack
  BY <1>1, StackStays DEF Aborts, TypeOK
<1>2. CASE ~isCancelled(s) /\ stack' = <<Aborting(s)>> \o stack
  <2>1. /\ Aborting(s) \in Frames
        /\ Aborting(s) # Draining
        /\ \A x \in Sources : Aborting(s) = Aborting(x) => x = s
    BY FramesDiffer
  <2>2. \A x \in Sources : Aborting(s) = Aborting(x) => isCancelled(x)'
    BY <2>1 DEF Aborts
  <2>3. StackInv'
    BY <1>2, <2>1, <2>2, StackPushed DEF Aborts
  <2> QED
    BY <1>2, <2>1, <2>3, PushedOnStack
<1> QED
  BY <1>1, <1>2 DEF Aborts

LEMMA WaitingAreSteps == TypeOK => Waiting \subseteq Steps
BY DEF TypeOK, Waiting, Elements

LEMMA CancelStep ==
  ASSUME TypeOK, Data, StackInv, NEW s \in Sources, Cancel(s)
  PROVE  TypeOK' /\ Data' /\ StackInv'
<1>1. /\ InCallersCode
      /\ s <= created
      /\ asked' = asked \cup {s}
      /\ AbortOver(s, s, stack)
      /\ UNCHANGED <<sourceVars, listeners, handlerVars, propagating>>
  BY DEF Cancel
<1>2. Aborts(s, s)
  BY <1>1, AbortOf
<1>3. StackInv' /\ stack' \in Seq(Frames)
  BY <1>1, <1>2, AbortsStack DEF InCallersCode
<1>4. TypeOK'
  <2>1. reason' \in [Sources -> 0 .. Count]
    BY <1>2 DEF Aborts
  <2> QED
    BY <1>1, <1>3, <2>1 DEF TypeOK, sourceVars, handlerVars
<1>5. Waiting' = Waiting /\ Waiting \subseteq Steps
  BY <1>1, SameNames, WaitingAreSteps
<1>6. Data'
  BY <1>1, <1>2, <1>5, SourceIsAborted
<1> QED
  BY <1>3, <1>4, <1>6

LEMMA DrainStep ==
  ASSUME TypeOK, Data, StackInv, Drain
  PROVE  TypeOK' /\ Data' /\ StackInv'
<1> DEFINE step == Head(propagating)
           s == step[1]
           r == step[2]
<1>1. /\ Top.kind = "drain"
      /\ propagating # <<>>
      /\ propagating' = Tail(propagating)
      /\ AbortOver(s, r, stack)
      /\ UNCHANGED <<sourceVars, asked, listeners, handlerVars>>
  BY DEF Drain
<1>2. propagating # null
  <2>1. stack # <<>> /\ Top \in Frames /\ Top \in InProgress
    BY <1>1, TopIs DEF TypeOK
  <2>2. Draining \in InProgress
    BY <1>1, <2>1, FramesDiffer
  <2> QED
    BY <2>2 DEF StackInv, OneLoop
<1>3. propagating \in Seq(Steps)
  BY <1>2 DEF TypeOK
<1>4. /\ propagating' \in Seq(Steps)
      /\ step \in Steps
      /\ Elements(propagating) = {step} \cup Elements(propagating')
  BY <1>1, <1>3, Popped
<1>5. propagating' # null
  BY <1>4, NullIsNoList
<1>6. Waiting = {step} \cup Waiting'
  BY <1>2, <1>4, <1>5 DEF Waiting, Elements
<1>7. s \in Sources /\ r \in Sources
  BY <1>4 DEF Steps
<1>8. parent[s] # NoSource /\ isCancelled(parent[s]) /\ r = reason[parent[s]]
  BY <1>6 DEF Data, StepsComeFromAbove
<1>9. \A x \in Waiting : x \in Waiting' \/ x[1] = s
  BY <1>6
<1> HIDE DEF s, r, step
<1>10. s <= created
  <2>1. s \in Nat /\ created \in Nat
    BY <1>7, SourcesAreNumbers, CancellationAssumption DEF TypeOK
  <2> QED
    BY <2>1, <1>7, <1>8 DEF Data, ParentsAreOlder
<1>11. Aborts(s, r)
  BY <1>1, <1>7, AbortOf
<1>12. StackInv' /\ stack' \in Seq(Frames)
  BY <1>1, <1>2, <1>5, <1>7, <1>11, AbortsStack
<1>13. TypeOK'
  <2>1. reason' \in [Sources -> 0 .. Count]
    BY <1>11 DEF Aborts
  <2> QED
    BY <1>1, <1>4, <1>12, <2>1 DEF TypeOK, sourceVars, handlerVars
<1>14. Waiting' \subseteq Waiting /\ Waiting \subseteq Steps
  BY <1>6, WaitingAreSteps
<1>15. Data'
  BY <1>1, <1>7, <1>8, <1>9, <1>10, <1>11, <1>14, SourceIsAborted
<1> QED
  BY <1>12, <1>13, <1>15

LEMMA InitIsSound == Init => TypeOK /\ Data /\ StackInv
<1> SUFFICES ASSUME Init PROVE TypeOK /\ Data /\ StackInv
  OBVIOUS
<1>0. 0 \in 0 .. Count /\ NoSource = 0
  BY CancellationAssumption DEF NoSource
<1>1. TypeOK
  BY <1>0 DEF Init, TypeOK
<1>2. InProgress = {} /\ Waiting = {} /\ \A s \in Sources : Registered[s] = {}
  BY DEF Init, InProgress, Waiting, Registered, Elements
<1>3. ParentsAreOlder
  BY SourcesAreNumbers DEF Init, ParentsAreOlder, NoSource
<1>4. ListedOnce
  BY <1>2 DEF Init, ListedOnce, Distinct
<1>5. FollowersAreTold /\ HandlersAreTold
  BY DEF Init, FollowersAreTold, HandlersAreTold
<1>6. StepsComeFromAbove /\ ReasonComesFromAbove
  BY <1>2 DEF Init, StepsComeFromAbove, ReasonComesFromAbove, isCancelled
<1>7. OneLoop /\ AbortedIsCancelled
  BY <1>2 DEF Init, OneLoop, AbortedIsCancelled
<1>8. NoAbortOnAbort
  BY DEF Init, NoAbortOnAbort
<1> QED
  BY <1>1, <1>3, <1>4, <1>5, <1>6, <1>7, <1>8 DEF Data, StackInv

LEMMA NextIsSound ==
  ASSUME TypeOK, Data, StackInv, [Next]_vars
  PROVE  TypeOK' /\ Data' /\ StackInv'
<1>1. ASSUME HandlerReturns \/ AbortReturns \/ DrainReturns
      PROVE  TypeOK' /\ Data' /\ StackInv'
  BY <1>1, ReturnStep
<1>2. ASSUME Listener PROVE TypeOK' /\ Data' /\ StackInv'
  BY <1>2, ListenerStep
<1>3. ASSUME Drain PROVE TypeOK' /\ Data' /\ StackInv'
  BY <1>3, DrainStep
<1>4. ASSUME NEW s \in Sources, Cancel(s) PROVE TypeOK' /\ Data' /\ StackInv'
  BY <1>4, CancelStep
<1>5. ASSUME NEW s \in Sources, Dispose(s) PROVE TypeOK' /\ Data' /\ StackInv'
  BY <1>5, DisposeStep
<1>6. ASSUME NEW p \in 0 .. Count, Create(p) PROVE TypeOK' /\ Data' /\ StackInv'
  BY <1>6, CreateStep
<1>7. ASSUME NEW h \in Handlers, Release(h) PROVE TypeOK' /\ Data' /\ StackInv'
  BY <1>7, ReleaseStep
<1>8. ASSUME NEW h \in Handlers, NEW s \in Sources, OnCancelled(h, s)
      PROVE  TypeOK' /\ Data' /\ StackInv'
  BY <1>8, OnCancelledStep
<1>9. ASSUME UNCHANGED vars PROVE TypeOK' /\ Data' /\ StackInv'
  <2>1. /\ UNCHANGED <<sourceVars, reason, asked, listeners, handlerVars>>
        /\ propagating' = propagating /\ stack' = stack
    BY <1>9 DEF vars
  <2>2. Waiting' = Waiting /\ InProgress' = InProgress
    BY <2>1, SameNames
  <2>3. Data'
    BY <2>1, <2>2, CallReturns
  <2>4. Grows
    BY <2>1 DEF Grows, isCancelled
  <2>5. StackInv'
    BY <2>1, <2>4, StackStays
  <2>6. TypeOK'
    BY <2>1 DEF TypeOK, sourceVars, handlerVars
  <2> QED
    BY <2>3, <2>5, <2>6
<1> QED
  BY <1>1, <1>2, <1>3, <1>4, <1>5, <1>6, <1>7, <1>8, <1>9 DEF Next

\* The inductive invariant, for any number of sources and of handlers.
THEOREM Inductive == Spec => []IInv
<1>1. Init => IInv
  BY InitIsSound DEF IInv, Data
<1>2. IInv /\ [Next]_vars => IInv'
  BY NextIsSound DEF IInv, Data
<1> QED
  BY <1>1, <1>2, PTL DEF Spec

\* Cancellation reaches whatever follows what it cancelled, at any depth of the
\* tree and whatever the handlers call meanwhile.
THEOREM NothingStrandedHolds == Spec => []NothingStranded
<1>1. IInv => NothingStranded
  <2> SUFFICES ASSUME IInv, stack = <<>>
               PROVE  /\ propagating = null
                      /\ \A s \in following : isCancelled(parent[s]) => isCancelled(s)
    BY DEF NothingStranded, IInv
  <2>1. InProgress = {}
    BY DEF InProgress, Elements
  <2>2. propagating = null /\ Waiting = {}
    BY <2>1 DEF IInv, StackInv, OneLoop, Waiting
  <2>3. \A s \in following : ~StillCalling(parent[s]) \/ ~isCancelled(parent[s])
    BY <2>1 DEF StillCalling
  <2> QED
    BY <2>2, <2>3 DEF IInv, FollowersAreTold
<1> QED
  BY <1>1, Inductive, PTL

\* Every handler of a cancelled source is called, once, and with the reason that
\* came from above.
THEOREM HandlersHearHolds == Spec => []HandlersHear
<1>1. IInv => HandlersHear
  <2> SUFFICES ASSUME IInv, NEW h \in Handlers
               PROVE  /\ calls[h] # 0 => isCancelled(on[h])
                      /\ (stack = <<>> /\ on[h] # NoSource /\ isCancelled(on[h]))
                            => calls[h] = 1
    BY DEF HandlersHear, CancelledMeansCalled, IInv
  <2>1. calls[h] # 0 => isCancelled(on[h])
    BY DEF IInv, HandlersAreTold
  <2>2. ASSUME stack = <<>>, on[h] # NoSource, isCancelled(on[h])
        PROVE  calls[h] = 1
    <3>1. InProgress = {}
      BY <2>2 DEF InProgress, Elements
    <3>2. ~StillCalling(on[h])
      BY <2>2, <3>1 DEF StillCalling
    <3>3. calls[h] # 0
      BY <2>2, <3>2 DEF IInv, HandlersAreTold
    <3>4. calls[h] \in 0 .. 1
      BY DEF IInv, TypeOK
    <3> QED
      BY <3>3, <3>4
  <2> QED
    BY <2>1, <2>2
<1> QED
  BY <1>1, Inductive, PTL

\* However long a chain of sources is, the stack between two handlers is not.
THEOREM ConstantDepthHolds == Spec => []ConstantDepth
<1>1. IInv => ConstantDepth
  <2> SUFFICES ASSUME IInv PROVE ConstantDepth
    OBVIOUS
  <2>1. propagating # null <=> \E i \in 1 .. Len(stack) : stack[i] = Draining
    BY DEF IInv, StackInv, OneLoop, InProgress, Elements
  <2>2. ASSUME NEW i \in 1 .. Len(stack),
               \A j \in i .. (i + 3) : j <= Len(stack) /\ stack[j].kind # "handler"
        PROVE  FALSE
    <3>0. Len(stack) \in Nat /\ stack \in Seq(Frames)
      BY DEF IInv, TypeOK
    <3>1. \A j \in i .. (i + 3) : j \in 1 .. Len(stack)
      BY <2>2, <3>0
    <3>2. \A j \in i .. (i + 3) : stack[j].kind = "abort" \/ stack[j] = Draining
      <4> SUFFICES ASSUME NEW j \in i .. (i + 3)
                   PROVE  stack[j].kind = "abort" \/ stack[j] = Draining
        OBVIOUS
      <4>1. stack[j] \in Frames
        BY <3>0, <3>1
      <4> QED
        BY <4>1, <2>2, FramesDiffer
    <3>3. \A j, k \in i .. (i + 3) : stack[j] = Draining /\ stack[k] = Draining => j = k
      BY <3>1 DEF IInv, StackInv, OneLoop
    <3>4. \A j \in i .. (i + 2) : stack[j].kind # "abort" \/ stack[j + 1].kind # "abort"
      <4> SUFFICES ASSUME NEW j \in i .. (i + 2)
                   PROVE  stack[j].kind # "abort" \/ stack[j + 1].kind # "abort"
        OBVIOUS
      <4>1. j + 1 \in i .. (i + 3) /\ j \in i .. (i + 3)
        BY <3>0
      <4>2. j \in 1 .. (Len(stack) - 1)
        BY <4>1, <3>0, <3>1
      <4> QED
        BY <4>2 DEF IInv, StackInv, NoAbortOnAbort
    <3>5. /\ i \in i .. (i + 3) /\ i + 1 \in i .. (i + 3)
          /\ i + 2 \in i .. (i + 3) /\ i + 3 \in i .. (i + 3)
          /\ i \in i .. (i + 2) /\ i + 2 \in i .. (i + 2) /\ (i + 2) + 1 = i + 3
      BY <3>0
    <3>6. stack[i] = Draining \/ stack[i + 1] = Draining
      BY <3>2, <3>4, <3>5
    <3>7. stack[i + 2] = Draining \/ stack[i + 3] = Draining
      BY <3>2, <3>4, <3>5
    <3>8. \E j \in {i, i + 1} : \E k \in {i + 2, i + 3} :
             stack[j] = Draining /\ stack[k] = Draining
      BY <3>6, <3>7
    <3> QED
      BY <3>3, <3>5, <3>8, <3>0
  <2>3. ASSUME NEW i \in 1 .. Len(stack)
        PROVE  \E j \in i .. (i + 3) :
                 IF j > Len(stack) THEN TRUE ELSE stack[j].kind = "handler"
    <3>0. Len(stack) \in Nat
      BY DEF IInv, TypeOK
    <3>1. PICK j \in i .. (i + 3) : ~(j <= Len(stack)) \/ stack[j].kind = "handler"
      BY <2>2
    <3> QED
      BY <3>0, <3>1
  <2> QED
    BY <2>1, <2>3 DEF ConstantDepth
<1> QED
  BY <1>1, Inductive, PTL
=============================================================================

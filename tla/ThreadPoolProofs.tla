-------------------------- MODULE ThreadPoolProofs --------------------------
(***************************************************************************)
(* Proofs about the thread pools, for any number of workers, submitters    *)
(* and tasks and any capacity.                                             *)
(***************************************************************************)
EXTENDS ThreadPool, FiniteSetTheorems, TLAPS

-----------------------------------------------------------------------------
(* The inductive invariant *)

Labels == {"poll", "look", "asleep", "run", "notify", "done"}

TypeOK ==
  /\ kind \in Kinds
  /\ patient \in BOOLEAN
  /\ queue \in Seq(Tasks)
  /\ stopped \in BOOLEAN
  /\ task \in [Workers -> Tasks \cup {None}]
  /\ submitted \in [Submitters -> 0..TasksEach]
  /\ ready \subseteq Tasks
  /\ pc \in [Threads -> Labels]
  /\ main \in {"waiting", "notifying", "joining", "done"}

\* What a submitter's label says of it.
SubmitterOK(s) ==
  /\ pc[s] \in {"look", "asleep", "notify", "done"}
  /\ pc[s] \in {"look", "asleep"} => submitted[s] < TasksEach
  /\ pc[s] = "done" => submitted[s] = TasksEach
  /\ pc[s] = "asleep" => Bounded

\* What a worker's label says of it.
WorkerOK(w) ==
  /\ task[w] # None <=> pc[w] = "run" \/ (pc[w] = "notify" /\ kind = "Limited")
  /\ pc[w] = "notify" => kind \in {"Limited", "Blocking"}
  /\ pc[w] = "poll" => Polling
  /\ pc[w] = "done" => stopped
  /\ pc[w] = "done" /\ kind = "Blocking" => queue = <<>>

\* How far the main thread has come.
MainOK ==
  /\ stopped <=> main # "waiting"
  /\ stopped => \A s \in Submitters : pc[s] = "done"
  /\ main = "done" => \A w \in Workers : pc[w] = "done"

\* A task is in one place, and only after it has been submitted.
Submitted(x) == x[2] <= submitted[x[1]]

OnePlace ==
  /\ \A i \in 1..Len(queue) :
       /\ Submitted(queue[i])
       /\ queue[i] \notin ready
       /\ \A w \in Workers : task[w] # queue[i]
       /\ \A j \in 1..Len(queue) : queue[i] = queue[j] => i = j
  /\ \A w \in Workers :
       task[w] # None =>
         /\ Submitted(task[w])
         /\ task[w] \notin ready
         /\ \A v \in Workers : task[v] = task[w] => v = w
  /\ \A x \in ready : Submitted(x)

\* No task disappears before the pool does.
Accounted ==
  main # "done" =>
    \A x \in Tasks :
      Submitted(x) => \/ x \in ready
                      \/ \E w \in Workers : task[w] = x
                      \/ \E i \in 1..Len(queue) : queue[i] = x

Core == /\ TypeOK
        /\ \A s \in Submitters : SubmitterOK(s)
        /\ \A w \in Workers : WorkerOK(w)
        /\ MainOK
        /\ OnePlace
        /\ Accounted

IInv == Core /\ QueueBounded /\ Drained /\ NoTaskForgotten

-----------------------------------------------------------------------------
(* What the steps of the condition variable do *)

\* The threads other than t go on as they were, or are woken.
Others(t) == \A u \in Threads \ {t} :
               pc'[u] = pc[u] \/ (pc[u] = "asleep" /\ pc'[u] = "look")

LEMMA GotoEffect ==
  ASSUME TypeOK, NEW t \in Threads, NEW next \in Labels,
         pc' = [pc EXCEPT ![t] = next]
  PROVE  /\ pc' \in [Threads -> Labels] /\ pc'[t] = next /\ Others(t)
         /\ \A u \in Threads \ {t} : pc'[u] = pc[u]
BY DEF TypeOK, Others

LEMMA NotifyAllEffect ==
  ASSUME TypeOK, NEW t \in Threads, pc[t] # "asleep", NEW next \in Labels,
         NotifyAll(t, next)
  PROVE  /\ pc' \in [Threads -> Labels] /\ pc'[t] = next /\ Others(t)
         /\ \A u \in Threads \ {t} : pc'[u] # "asleep"
BY DEF TypeOK, NotifyAll, Woken, Asleep, Others, Labels

LEMMA NotifyOneEffect ==
  ASSUME TypeOK, NEW t \in Threads, pc[t] # "asleep", NEW next \in Labels,
         NotifyOne(t, next)
  PROVE  /\ pc' \in [Threads -> Labels] /\ pc'[t] = next /\ Others(t)
         /\ \/ /\ \A u \in Threads : pc[u] # "asleep"
               /\ \A u \in Threads \ {t} : pc'[u] = pc[u]
            \/ \E u \in Threads :
                 /\ pc[u] = "asleep" /\ pc'[u] = "look"
                 /\ \A v \in Threads \ {t, u} : pc'[v] = pc[v]
<1>1. CASE Asleep = {}
  <2>1. pc' = [pc EXCEPT ![t] = next]
    BY <1>1 DEF NotifyOne
  <2> QED BY <1>1, <2>1, GotoEffect DEF Asleep
<1>2. CASE Asleep # {}
  <2>1. PICK u \in Asleep : pc' = Woken([pc EXCEPT ![t] = next], {u})
    BY <1>2 DEF NotifyOne
  <2>2. u # t /\ u \in Threads /\ pc[u] = "asleep"
    BY DEF Asleep
  <2> QED BY <2>1, <2>2 DEF TypeOK, Woken, Others, Labels
<1> QED BY <1>1, <1>2

LEMMA WakeEffect ==
  ASSUME TypeOK, NEW threads, threads \subseteq Asleep, pc' = Woken(pc, threads)
  PROVE  /\ pc' \in [Threads -> Labels]
         /\ \A u \in Threads : \/ pc'[u] = pc[u]
                               \/ pc[u] = "asleep" /\ pc'[u] = "look"
BY DEF TypeOK, Woken, Asleep, Labels

-----------------------------------------------------------------------------
(* The core of the invariant is kept: lemmas for all steps *)

\* A thread that has not stepped itself is as right about things as before.
LEMMA SubmitterKept ==
  ASSUME NEW s \in Submitters, SubmitterOK(s),
         pc'[s] = pc[s] \/ (pc[s] = "asleep" /\ pc'[s] = "look"),
         submitted'[s] = submitted[s], kind' = kind
  PROVE  SubmitterOK(s)'
BY DEF SubmitterOK, Bounded

LEMMA WorkerKept ==
  ASSUME NEW w \in Workers, WorkerOK(w),
         pc'[w] = pc[w] \/ (pc[w] = "asleep" /\ pc'[w] = "look"),
         task'[w] = task[w], kind' = kind, stopped => stopped',
         queue = <<>> => queue' = <<>>
  PROVE  WorkerOK(w)'
BY DEF WorkerOK, Polling

\* A step that moves no task leaves them where they are.
LEMMA PlacesKept ==
  ASSUME OnePlace, Accounted, UNCHANGED <<queue, task, submitted, ready>>,
         main' = "done" <=> main = "done"
  PROVE  OnePlace' /\ Accounted'
BY DEF OnePlace, Accounted, Submitted

\* A worker's step that only changes its label.
LEMMA WorkerGoes ==
  ASSUME Core, NEW w \in Workers, pc[w] # "done",
         UNCHANGED <<kind, patient, queue, stopped, task, submitted, ready, main>>,
         pc' \in [Threads -> Labels], Others(w), WorkerOK(w)'
  PROVE  Core'
<1> USE DEF Core
<1>1. w \in Threads /\ w \notin Submitters
  BY ThreadsAssumption DEF Threads
<1>2. TypeOK'
  BY DEF TypeOK
<1>3. ASSUME NEW s \in Submitters PROVE SubmitterOK(s)'
  <2>1. s \in Threads \ {w} /\ SubmitterOK(s)
    BY <1>1 DEF Threads
  <2> QED BY <2>1, SubmitterKept DEF Others
<1>4. ASSUME NEW v \in Workers PROVE WorkerOK(v)'
  <2>1. CASE v = w
    BY <2>1
  <2>2. CASE v # w
    <3>1. v \in Threads \ {w} /\ WorkerOK(v)
      BY <2>2 DEF Threads
    <3> QED BY <3>1, WorkerKept DEF Others
  <2> QED BY <2>1, <2>2
<1>5. MainOK'
  BY <1>1 DEF MainOK, Others, Threads
<1>6. OnePlace' /\ Accounted'
  BY PlacesKept
<1> QED BY <1>2, <1>3, <1>4, <1>5, <1>6

\* The same of a submitter's.
LEMMA SubmitterGoes ==
  ASSUME Core, NEW s \in Submitters, pc[s] # "done",
         UNCHANGED <<kind, patient, queue, stopped, task, submitted, ready, main>>,
         pc' \in [Threads -> Labels], Others(s), SubmitterOK(s)'
  PROVE  Core'
<1> USE DEF Core
<1>1. s \in Threads /\ s \notin Workers
  BY ThreadsAssumption DEF Threads
<1>2. TypeOK'
  BY DEF TypeOK
<1>3. ASSUME NEW r \in Submitters PROVE SubmitterOK(r)'
  <2>1. CASE r = s
    BY <2>1
  <2>2. CASE r # s
    <3>1. r \in Threads \ {s} /\ SubmitterOK(r)
      BY <2>2 DEF Threads
    <3> QED BY <3>1, SubmitterKept DEF Others
  <2> QED BY <2>1, <2>2
<1>4. ASSUME NEW w \in Workers PROVE WorkerOK(w)'
  <2>1. w \in Threads \ {s} /\ WorkerOK(w)
    BY <1>1 DEF Threads
  <2> QED BY <2>1, WorkerKept DEF Others
<1>5. MainOK'
  BY <1>1 DEF MainOK, Others, Threads
<1>6. OnePlace' /\ Accounted'
  BY PlacesKept
<1> QED BY <1>2, <1>3, <1>4, <1>5, <1>6

-----------------------------------------------------------------------------
(* The steps of a worker *)

LEMMA PollCore == ASSUME Core, NEW w \in Workers, Poll(w) PROVE Core'
<1>1. w \in Threads
  BY DEF Threads
<1>2. /\ pc' \in [Threads -> Labels] /\ Others(w)
      /\ pc'[w] = IF stopped THEN "done" ELSE "look"
  BY <1>1, GotoEffect DEF Poll, Core, Labels
<1>3. WorkerOK(w)'
  BY <1>2 DEF Core, WorkerOK, Poll, Polling
<1> QED BY <1>2, <1>3, WorkerGoes DEF Poll

LEMMA LeaveCore == ASSUME Core, NEW w \in Workers, Leave(w) PROVE Core'
<1>1. w \in Threads
  BY DEF Threads
<1>2. pc' \in [Threads -> Labels] /\ Others(w) /\ pc'[w] = "done"
  BY <1>1, GotoEffect DEF Leave, Core, Labels
<1>3. WorkerOK(w)'
  BY <1>2 DEF Core, WorkerOK, Leave, MustLeave
<1> QED BY <1>2, <1>3, WorkerGoes DEF Leave

LEMMA FallAsleepCore == ASSUME Core, NEW w \in Workers, FallAsleep(w) PROVE Core'
<1>1. w \in Threads
  BY DEF Threads
<1>2. pc' \in [Threads -> Labels] /\ Others(w) /\ pc'[w] = "asleep"
  BY <1>1, GotoEffect DEF FallAsleep, Core, Labels
<1>3. WorkerOK(w)'
  BY <1>2 DEF Core, WorkerOK, FallAsleep
<1> QED BY <1>2, <1>3, WorkerGoes DEF FallAsleep

LEMMA TimeOutCore == ASSUME Core, NEW w \in Workers, TimeOut(w) PROVE Core'
<1>1. w \in Threads
  BY DEF Threads
<1> DEFINE next == IF queue # <<>> THEN "look"
                   ELSE IF Polling THEN "poll"
                   ELSE IF stopped THEN "done" ELSE "asleep"
<1>2. next \in Labels /\ pc' = [pc EXCEPT ![w] = next]
  BY DEF TimeOut, Labels
<1>3. pc' \in [Threads -> Labels] /\ Others(w) /\ pc'[w] = next
  BY <1>1, <1>2, GotoEffect DEF Core
<1>4. WorkerOK(w)'
  BY <1>3 DEF Core, WorkerOK, TimeOut, Polling
<1> QED BY <1>3, <1>4, WorkerGoes DEF TimeOut

LEMMA NotifyCore == ASSUME Core, NEW w \in Workers, Notify(w) PROVE Core'
<1>1. w \in Threads
  BY DEF Threads
<1> DEFINE next == IF kind = "Limited" THEN "run" ELSE "look"
<1>2. pc' \in [Threads -> Labels] /\ Others(w) /\ pc'[w] = next
  BY <1>1, NotifyAllEffect DEF Notify, Core, Labels
<1>3. WorkerOK(w)'
  BY <1>2 DEF Core, WorkerOK, Notify, Polling
<1> QED BY <1>2, <1>3, WorkerGoes DEF Notify

LEMMA TakeCore == ASSUME Core, NEW w \in Workers, Take(w) PROVE Core'
<1> USE DEF Core
<1>1. w \in Threads /\ w \notin Submitters
  BY ThreadsAssumption DEF Threads
<1> DEFINE next == IF kind = "Limited" THEN "notify" ELSE "run"
<1>2. /\ pc' \in [Threads -> Labels] /\ Others(w) /\ pc'[w] = next
      /\ \A u \in Threads \ {w} : pc'[u] = pc[u]
  BY <1>1, GotoEffect DEF Take, Labels
<1>3. /\ Len(queue) \in Nat /\ Len(queue) > 0
      /\ Head(queue) = queue[1] /\ Head(queue) \in Tasks
      /\ queue' \in Seq(Tasks)
      /\ Len(queue') = Len(queue) - 1
      /\ \A i \in 1..Len(queue') : queue'[i] = queue[i + 1]
  BY DEF Take, TypeOK
<1>4. /\ task' \in [Workers -> Tasks \cup {None}]
      /\ task'[w] = queue[1] /\ task'[w] # None
      /\ \A v \in Workers \ {w} : task'[v] = task[v]
  BY <1>3, NoneAssumption DEF Take, TypeOK
<1>5. TypeOK'
  BY <1>2, <1>3, <1>4 DEF Take, TypeOK
<1>6. ASSUME NEW s \in Submitters PROVE SubmitterOK(s)'
  <2>1. s \in Threads \ {w} /\ SubmitterOK(s)
    BY <1>1 DEF Threads
  <2> QED BY <1>2, <2>1, SubmitterKept DEF Take
<1>7. ASSUME NEW v \in Workers PROVE WorkerOK(v)'
  <2>1. CASE v = w
    BY <1>2, <1>4, <2>1 DEF WorkerOK, Take
  <2>2. CASE v # w
    <3>1. v \in Threads \ {w} /\ WorkerOK(v)
      BY <2>2 DEF Threads
    <3> QED BY <1>2, <1>4, <2>2, <3>1, WorkerKept DEF Take
  <2> QED BY <2>1, <2>2
<1>8. MainOK'
  BY <1>1, <1>2 DEF MainOK, Take, Threads
<1>9. task[w] = None
  BY DEF WorkerOK, Take
<1>10. OnePlace'
  <2>1. ASSUME NEW i \in 1..Len(queue')
        PROVE  /\ Submitted(queue[i])'
               /\ queue'[i] \notin ready'
               /\ \A v \in Workers : task'[v] # queue'[i]
               /\ \A j \in 1..Len(queue') : queue'[i] = queue'[j] => i = j
    <3>1. i + 1 \in 1..Len(queue) /\ i + 1 # 1
      BY <1>3
    <3>2. \A j \in 1..Len(queue') : j + 1 \in 1..Len(queue)
      BY <1>3
    <3>3. 1 \in 1..Len(queue)
      BY <1>3
    <3>4. queue[1] # queue[i + 1]
      BY <3>1, <3>3 DEF OnePlace
    <3> QED BY <1>3, <1>4, <3>1, <3>2, <3>4 DEF OnePlace, Submitted, Take
  <2>2. ASSUME NEW v \in Workers, task'[v] # None
        PROVE  /\ Submitted(task[v])'
               /\ task'[v] \notin ready'
               /\ \A u \in Workers : task'[u] = task'[v] => u = v
    <3>1. 1 \in 1..Len(queue)
      BY <1>3
    <3> QED BY <1>4, <2>2, <3>1 DEF OnePlace, Submitted, Take
  <2>3. \A x \in ready' : Submitted(x)'
    BY DEF OnePlace, Submitted, Take
  <2> QED BY <2>1, <2>2, <2>3 DEF OnePlace
<1>11. Accounted'
  <2> SUFFICES ASSUME main' # "done", NEW x \in Tasks, Submitted(x)'
               PROVE  \/ x \in ready'
                      \/ \E v \in Workers : task'[v] = x
                      \/ \E i \in 1..Len(queue') : queue'[i] = x
    BY DEF Accounted
  <2>1. main # "done" /\ Submitted(x)
    BY DEF Take, Submitted
  <2>2. CASE x \in ready
    BY <2>2 DEF Take
  <2>3. CASE \E v \in Workers : task[v] = x
    BY <1>4, <1>9, <2>3, NoneAssumption
  <2>4. ASSUME NEW i \in 1..Len(queue), queue[i] = x
        PROVE  \/ \E v \in Workers : task'[v] = x
               \/ \E j \in 1..Len(queue') : queue'[j] = x
    <3>1. CASE i = 1
      BY <1>4, <2>4, <3>1
    <3>2. CASE i # 1
      <4>1. i - 1 \in 1..Len(queue') /\ (i - 1) + 1 = i
        BY <1>3, <3>2
      <4> QED BY <1>3, <2>4, <4>1
    <3> QED BY <3>1, <3>2
  <2> QED BY <2>1, <2>2, <2>3, <2>4 DEF Accounted
<1> QED BY <1>5, <1>6, <1>7, <1>8, <1>10, <1>11

LEMMA RunCore == ASSUME Core, NEW w \in Workers, Run(w) PROVE Core'
<1> USE DEF Core
<1>1. w \in Threads /\ w \notin Submitters
  BY ThreadsAssumption DEF Threads
<1> DEFINE next == IF kind = "Blocking" THEN "notify" ELSE Begin
<1>2. /\ pc' \in [Threads -> Labels] /\ Others(w) /\ pc'[w] = next
      /\ \A u \in Threads \ {w} : pc'[u] = pc[u]
  BY <1>1, GotoEffect DEF Run, Labels, Begin
<1>3. task[w] # None /\ task[w] \in Tasks
  BY DEF WorkerOK, Run, TypeOK
<1>4. /\ task' \in [Workers -> Tasks \cup {None}]
      /\ task'[w] = None
      /\ \A v \in Workers \ {w} : task'[v] = task[v]
  BY DEF Run, TypeOK
<1>5. TypeOK'
  BY <1>2, <1>3, <1>4 DEF Run, TypeOK
<1>6. ASSUME NEW s \in Submitters PROVE SubmitterOK(s)'
  <2>1. s \in Threads \ {w} /\ SubmitterOK(s)
    BY <1>1 DEF Threads
  <2> QED BY <1>2, <2>1, SubmitterKept DEF Run
<1>7. ASSUME NEW v \in Workers PROVE WorkerOK(v)'
  <2>1. CASE v = w
    BY <1>2, <1>4, <2>1 DEF WorkerOK, Run, Begin, Polling
  <2>2. CASE v # w
    <3>1. v \in Threads \ {w} /\ WorkerOK(v)
      BY <2>2 DEF Threads
    <3> QED BY <1>2, <1>4, <2>2, <3>1, WorkerKept DEF Run
  <2> QED BY <2>1, <2>2
<1>8. MainOK'
  BY <1>1, <1>2 DEF MainOK, Run, Threads
<1>9. OnePlace'
  <2>1. ASSUME NEW i \in 1..Len(queue')
        PROVE  /\ Submitted(queue[i])'
               /\ queue'[i] \notin ready'
               /\ \A v \in Workers : task'[v] # queue'[i]
               /\ \A j \in 1..Len(queue') : queue'[i] = queue'[j] => i = j
    <3>1. queue' = queue /\ queue[i] \in Tasks
      BY DEF Run, TypeOK
    <3> QED BY <1>4, <3>1, NoneAssumption DEF OnePlace, Submitted, Run
  <2>2. ASSUME NEW v \in Workers, task'[v] # None
        PROVE  /\ Submitted(task[v])'
               /\ task'[v] \notin ready'
               /\ \A u \in Workers : task'[u] = task'[v] => u = v
    BY <1>3, <1>4, <2>2 DEF OnePlace, Submitted, Run
  <2>3. \A x \in ready' : Submitted(x)'
    BY <1>3 DEF OnePlace, Submitted, Run
  <2> QED BY <2>1, <2>2, <2>3 DEF OnePlace
<1>10. Accounted'
  BY <1>3, <1>4 DEF Accounted, Submitted, Run
<1> QED BY <1>5, <1>6, <1>7, <1>8, <1>9, <1>10

-----------------------------------------------------------------------------
(* The steps of a submitter *)

\* What there is to say of a submitter that has pushed its last task, or not.
LEMMA AfterLabel ==
  ASSUME NEW count \in 0..TasksEach
  PROVE  /\ After(count) \in {"done", "look"}
         /\ After(count) = "done" <=> count = TasksEach
         /\ After(count) = "look" => count < TasksEach
BY NumbersAssumption DEF After

LEMMA PushCore == ASSUME Core, NEW s \in Submitters, Push(s) PROVE Core'
<1> USE DEF Core
<1>1. s \in Threads /\ s \notin Workers
  BY ThreadsAssumption DEF Threads
<1>2. submitted[s] \in 0..TasksEach /\ submitted[s] < TasksEach
  BY DEF TypeOK, SubmitterOK, Push
<1>3. /\ submitted' \in [Submitters -> 0..TasksEach]
      /\ submitted'[s] = submitted[s] + 1
      /\ \A r \in Submitters \ {s} : submitted'[r] = submitted[r]
  BY <1>2, NumbersAssumption DEF TypeOK, Push, Pushed
<1> DEFINE new == <<s, submitted[s] + 1>>
<1>4. new \in Tasks /\ new[1] = s /\ new[2] = submitted[s] + 1
  BY <1>2, NumbersAssumption DEF Tasks
<1>5. /\ Len(queue) \in Nat
      /\ queue' \in Seq(Tasks)
      /\ Len(queue') = Len(queue) + 1
      /\ queue'[Len(queue')] = new
      /\ \A i \in 1..Len(queue) : queue'[i] = queue[i]
  BY <1>4 DEF TypeOK, Push, Pushed
<1>6. pc' \in [Threads -> Labels] /\ Others(s) /\ pc'[s] = "notify"
  BY <1>1, GotoEffect DEF Push, Labels
<1>7. ~stopped /\ main # "done"
  BY DEF MainOK, Push
<1>8. TypeOK'
  BY <1>3, <1>5, <1>6 DEF Push, TypeOK
<1>9. ASSUME NEW r \in Submitters PROVE SubmitterOK(r)'
  <2>1. CASE r = s
    BY <1>6, <2>1 DEF SubmitterOK
  <2>2. CASE r # s
    <3>1. r \in Threads \ {s} /\ SubmitterOK(r)
      BY <2>2 DEF Threads
    <3> QED BY <1>3, <1>6, <2>2, <3>1, SubmitterKept DEF Push, Others
  <2> QED BY <2>1, <2>2
<1>10. ASSUME NEW w \in Workers PROVE WorkerOK(w)'
  <2>1. w \in Threads \ {s} /\ WorkerOK(w)
    BY <1>1 DEF Threads
  <2> QED BY <1>6, <1>7, <2>1 DEF WorkerOK, Push, Others, Polling
<1>11. MainOK'
  BY <1>7 DEF MainOK, Push
<1>12. ~Submitted(new)
  BY <1>2, <1>4 DEF Submitted
<1>13. \A x \in Tasks : Submitted(x) => Submitted(x)'
  <2> SUFFICES ASSUME NEW x \in Tasks, Submitted(x) PROVE Submitted(x)'
    OBVIOUS
  <2>1. PICK r \in Submitters, k \in 1..TasksEach : x = <<r, k>>
    BY DEF Tasks
  <2>2. submitted[r] \in Nat /\ submitted'[r] \in Nat /\ k \in Nat
    BY <1>3, NumbersAssumption DEF TypeOK
  <2>3. submitted[r] <= submitted'[r]
    BY <1>2, <1>3, <2>2
  <2> QED BY <2>1, <2>2, <2>3 DEF Submitted
<1>14. new[2] <= submitted'[new[1]]
  BY <1>2, <1>3, <1>4
<1>15. \A x \in Tasks : Submitted(x)' => Submitted(x) \/ x = new
  <2> SUFFICES ASSUME NEW x \in Tasks, Submitted(x)', ~Submitted(x) PROVE x = new
    OBVIOUS
  <2>1. PICK r \in Submitters, k \in 1..TasksEach : x = <<r, k>>
    BY DEF Tasks
  <2>2. submitted[r] \in Nat /\ submitted'[r] \in Nat /\ k \in Nat
    BY <1>3, NumbersAssumption DEF TypeOK
  <2>3. k <= submitted'[r] /\ ~(k <= submitted[r])
    BY <2>1 DEF Submitted
  <2>4. r = s /\ k = submitted[s] + 1
    BY <1>3, <2>2, <2>3
  <2> QED BY <2>1, <2>4
<1>16. OnePlace'
  <2>1. ASSUME NEW i \in 1..Len(queue')
        PROVE  /\ Submitted(queue[i])'
               /\ queue'[i] \notin ready'
               /\ \A w \in Workers : task'[w] # queue'[i]
               /\ \A j \in 1..Len(queue') : queue'[i] = queue'[j] => i = j
    <3>1. \A j \in 1..Len(queue') : j \in 1..Len(queue) \/ j = Len(queue')
      BY <1>5
    <3>2. \A j \in 1..Len(queue) : queue[j] \in Tasks /\ queue[j] # new
      BY <1>12 DEF TypeOK, OnePlace, Submitted
    <3>3. new \notin ready /\ \A w \in Workers : task[w] # new
      BY <1>4, <1>12, NoneAssumption DEF OnePlace, Submitted
    <3>4. CASE i \in 1..Len(queue)
      BY <1>5, <1>13, <3>1, <3>2, <3>4 DEF OnePlace, Push
    <3>5. CASE i = Len(queue')
      BY <1>5, <1>14, <3>1, <3>2, <3>3, <3>5 DEF Push, Submitted
    <3> QED BY <3>1, <3>4, <3>5
  <2>2. ASSUME NEW w \in Workers, task'[w] # None
        PROVE  /\ Submitted(task[w])'
               /\ task'[w] \notin ready'
               /\ \A v \in Workers : task'[v] = task'[w] => v = w
    BY <1>13, <2>2 DEF OnePlace, Push, TypeOK
  <2>3. \A x \in ready' : Submitted(x)'
    BY <1>13 DEF OnePlace, Push, TypeOK
  <2> QED BY <2>1, <2>2, <2>3 DEF OnePlace
<1>17. Accounted'
  <2> SUFFICES ASSUME NEW x \in Tasks, Submitted(x)'
               PROVE  \/ x \in ready'
                      \/ \E w \in Workers : task'[w] = x
                      \/ \E i \in 1..Len(queue') : queue'[i] = x
    BY DEF Accounted
  <2>1. CASE x = new
    <3>1. Len(queue') \in 1..Len(queue')
      BY <1>5
    <3> QED BY <1>5, <2>1, <3>1
  <2>2. CASE Submitted(x)
    <3>1. 1..Len(queue) \subseteq 1..Len(queue')
      BY <1>5
    <3> QED BY <1>5, <1>7, <2>2, <3>1 DEF Accounted, Push
  <2> QED BY <1>15, <2>1, <2>2
<1> QED BY <1>8, <1>9, <1>10, <1>11, <1>16, <1>17

LEMMA NotifyWorkerCore ==
  ASSUME Core, NEW s \in Submitters, NotifyWorker(s) PROVE Core'
<1>1. s \in Threads /\ pc[s] = "notify" /\ submitted[s] \in 0..TasksEach
  BY DEF Threads, NotifyWorker, Core, TypeOK
<1> DEFINE next == After(submitted[s])
<1>2. next \in {"done", "look"} /\ next \in Labels
  BY <1>1, AfterLabel DEF Labels
<1>3. pc' \in [Threads -> Labels] /\ Others(s) /\ pc'[s] = next
  <2>1. CASE kind \in {"Pool", "Blocking"}
    BY <1>1, <1>2, <2>1, NotifyAllEffect DEF NotifyWorker, Core
  <2>2. CASE kind \notin {"Pool", "Blocking"}
    BY <1>1, <1>2, <2>2, NotifyOneEffect DEF NotifyWorker, Core
  <2> QED BY <2>1, <2>2
<1>4. SubmitterOK(s)'
  BY <1>1, <1>2, <1>3, AfterLabel DEF SubmitterOK, NotifyWorker
<1> QED BY <1>1, <1>3, <1>4, SubmitterGoes DEF NotifyWorker

LEMMA WaitForRoomCore ==
  ASSUME Core, NEW s \in Submitters, WaitForRoom(s) PROVE Core'
<1>1. s \in Threads
  BY DEF Threads
<1>2. pc' \in [Threads -> Labels] /\ Others(s) /\ pc'[s] = "asleep"
  BY <1>1, GotoEffect DEF WaitForRoom, Core, Labels
<1>3. SubmitterOK(s)'
  BY <1>2 DEF Core, SubmitterOK, WaitForRoom, Full, Bounded
<1> QED BY <1>2, <1>3, SubmitterGoes DEF WaitForRoom

LEMMA RoomByTimeOutCore ==
  ASSUME Core, NEW s \in Submitters, RoomByTimeOut(s) PROVE Core'
<1>1. s \in Threads
  BY DEF Threads
<1>2. pc' \in [Threads -> Labels] /\ Others(s) /\ pc'[s] = "look"
  BY <1>1, GotoEffect DEF RoomByTimeOut, Core, Labels
<1>3. SubmitterOK(s)'
  BY <1>2 DEF Core, SubmitterOK, RoomByTimeOut
<1> QED BY <1>2, <1>3, SubmitterGoes DEF RoomByTimeOut

-----------------------------------------------------------------------------
(* The steps of the main thread, and wakeups *)

LEMMA WakeCore ==
  ASSUME Core, NEW threads, threads \subseteq Asleep, pc' = Woken(pc, threads),
         UNCHANGED <<kind, patient, queue, stopped, task, submitted, ready>>,
         main' = main \/ (main = "notifying" /\ main' = "joining")
  PROVE  Core'
<1> USE DEF Core
<1>1. /\ pc' \in [Threads -> Labels]
      /\ \A u \in Threads : \/ pc'[u] = pc[u]
                            \/ pc[u] = "asleep" /\ pc'[u] = "look"
  BY WakeEffect
<1>2. TypeOK'
  BY <1>1 DEF TypeOK
<1>3. ASSUME NEW s \in Submitters PROVE SubmitterOK(s)'
  BY <1>1, SubmitterKept DEF Threads
<1>4. ASSUME NEW w \in Workers PROVE WorkerOK(w)'
  BY <1>1, WorkerKept DEF Threads
<1>5. MainOK'
  BY <1>1 DEF MainOK, Threads
<1>6. OnePlace' /\ Accounted'
  BY PlacesKept
<1> QED BY <1>2, <1>3, <1>4, <1>5, <1>6

LEMMA StopCore == ASSUME Core, Stop PROVE Core'
<1> USE DEF Core, Stop
<1>1. TypeOK'
  BY DEF TypeOK
<1>2. ASSUME NEW s \in Submitters PROVE SubmitterOK(s)'
  BY SubmitterKept
<1>3. ASSUME NEW w \in Workers PROVE WorkerOK(w)'
  BY WorkerKept
<1>4. MainOK'
  BY DEF MainOK
<1>5. OnePlace' /\ Accounted'
  BY PlacesKept
<1> QED BY <1>1, <1>2, <1>3, <1>4, <1>5

LEMMA JoinCore == ASSUME Core, Join PROVE Core'
<1> USE DEF Core, Join
<1>1. TypeOK'
  BY DEF TypeOK
<1>2. ASSUME NEW s \in Submitters PROVE SubmitterOK(s)'
  BY SubmitterKept
<1>3. ASSUME NEW w \in Workers PROVE WorkerOK(w)'
  BY WorkerKept
<1>4. MainOK'
  BY DEF MainOK
<1>5. OnePlace' /\ Accounted'
  BY DEF OnePlace, Accounted, Submitted
<1> QED BY <1>1, <1>2, <1>3, <1>4, <1>5

LEMMA CoreStep == ASSUME Core, [Next]_vars PROVE Core'
<1>1. CASE Stop
  BY <1>1, StopCore
<1>2. CASE NotifyStop
  BY <1>2, WakeCore DEF NotifyStop
<1>3. CASE Join
  BY <1>3, JoinCore
<1>4. ASSUME NEW w \in Workers, Worker(w) PROVE Core'
  BY <1>4, PollCore, LeaveCore, TakeCore, FallAsleepCore, TimeOutCore,
     NotifyCore, RunCore DEF Worker
<1>5. ASSUME NEW s \in Submitters, Submitter(s) PROVE Core'
  BY <1>5, PushCore, NotifyWorkerCore, WaitForRoomCore, RoomByTimeOutCore
  DEF Submitter
<1>6. ASSUME NEW t \in Threads, SpuriousWakeup(t) PROVE Core'
  <2>1. {t} \subseteq Asleep
    BY <1>6 DEF SpuriousWakeup, Asleep
  <2> QED BY <1>6, <2>1, WakeCore DEF SpuriousWakeup
<1>7. CASE UNCHANGED vars
  BY <1>7 DEF vars, Core, TypeOK, SubmitterOK, WorkerOK, MainOK, OnePlace,
              Accounted, Submitted, Bounded, Polling
<1> QED
  BY <1>1, <1>2, <1>3, <1>4, <1>5, <1>6, <1>7 DEF Next, Main, Finished

LEMMA CoreInit == ASSUME Init PROVE Core
<1> USE DEF Init
<1>1. TypeOK
  <2>1. Begin \in Labels /\ "look" \in Labels
    BY DEF Labels, Begin
  <2>2. pc \in [Threads -> Labels]
    BY <2>1
  <2>3. queue \in Seq(Tasks) /\ submitted \in [Submitters -> 0..TasksEach]
    BY NumbersAssumption
  <2> QED BY <2>2, <2>3 DEF TypeOK
<1>2. ASSUME NEW s \in Submitters PROVE SubmitterOK(s)
  BY NumbersAssumption, ThreadsAssumption DEF SubmitterOK, Threads
<1>3. ASSUME NEW w \in Workers PROVE WorkerOK(w)
  BY DEF WorkerOK, Threads, Begin
<1>4. MainOK
  BY DEF MainOK
<1>5. OnePlace
  BY DEF OnePlace
<1>6. Accounted
  <2> SUFFICES ASSUME NEW x \in Tasks PROVE ~Submitted(x)
    BY DEF Accounted
  <2>1. PICK s \in Submitters, k \in 1..TasksEach : x = <<s, k>>
    BY DEF Tasks
  <2>2. submitted[s] = 0 /\ k > 0
    BY NumbersAssumption
  <2> QED BY <2>1, <2>2 DEF Submitted
<1> QED BY <1>1, <1>2, <1>3, <1>4, <1>5, <1>6 DEF Core

-----------------------------------------------------------------------------
(* The capacity *)

\* Only Push makes the queue longer, and it has seen room.
LEMMA QueueBoundedStep ==
  ASSUME Core, QueueBounded, [Next]_vars PROVE QueueBounded'
<1>1. Len(queue) \in Nat /\ queue \in Seq(Tasks) /\ MaxCapacity \in Nat \ {0}
  BY NumbersAssumption DEF Core, TypeOK
<1>2. ASSUME NEW s \in Submitters, Push(s) PROVE QueueBounded'
  <2>1. Len(queue') = Len(queue) + 1 /\ kind' = kind
    BY <1>1, <1>2 DEF Push, Pushed
  <2>2. Bounded => Len(queue) < MaxCapacity
    BY <1>1, <1>2 DEF Push, Full, Bounded, QueueBounded
  <2> QED BY <1>1, <2>1, <2>2 DEF QueueBounded, Bounded
<1>3. ASSUME NEW w \in Workers, Take(w) PROVE QueueBounded'
  <2>1. Len(queue') = Len(queue) - 1 /\ kind' = kind
    BY <1>1, <1>3 DEF Take
  <2> QED BY <1>1, <2>1 DEF QueueBounded, Bounded
<1>4. CASE Join
  BY <1>1, <1>4 DEF Join, QueueBounded, Bounded
<1>5. CASE UNCHANGED <<kind, queue>>
  BY <1>5 DEF QueueBounded, Bounded
<1> QED
  BY <1>2, <1>3, <1>4, <1>5
  DEF Next, vars, Main, Stop, NotifyStop, Finished, Worker, Poll, Leave,
      FallAsleep, TimeOut, Notify, Run, Submitter, NotifyWorker, WaitForRoom,
      RoomByTimeOut, SpuriousWakeup

-----------------------------------------------------------------------------
(* Blocking leaves nothing *)

\* When its workers have left an empty queue, every task has been run.
LEMMA DrainedStep == ASSUME Core, Drained, [Next]_vars PROVE Drained'
<1> USE DEF Core
<1>1. CASE Join
  <2> SUFFICES ASSUME kind = "Blocking", NEW x \in Tasks PROVE x \in ready
    BY <1>1 DEF Join, Drained, TypeOK
  <2>1. PICK s \in Submitters, k \in 1..TasksEach : x = <<s, k>>
    BY DEF Tasks
  <2>2. Submitted(x)
    <3>1. submitted[s] = TasksEach
      BY <1>1 DEF MainOK, SubmitterOK, Join
    <3> QED BY <2>1, <3>1, NumbersAssumption DEF Submitted
  <2>3. PICK w \in Workers : TRUE
    BY ThreadsAssumption
  <2>4. queue = <<>>
    BY <1>1 DEF WorkerOK, Join
  <2>5. \A v \in Workers : task[v] = None
    BY <1>1 DEF WorkerOK, Join
  <2> QED BY <1>1, <2>2, <2>4, <2>5, NoneAssumption DEF Accounted, Join
<1>2. ASSUME NEW w \in Workers, Run(w) PROVE Drained'
  BY <1>2 DEF Run, Drained, MainOK
<1>3. CASE UNCHANGED <<kind, ready>> /\ (main' = "done" => main = "done")
  BY <1>3 DEF Drained
<1> QED
  BY <1>1, <1>2, <1>3
  DEF Next, vars, Main, Stop, NotifyStop, Finished, Worker, Poll, Leave, Take,
      FallAsleep, TimeOut, Notify, Submitter, Push, NotifyWorker, WaitForRoom,
      RoomByTimeOut, SpuriousWakeup

-----------------------------------------------------------------------------
(* No task is forgotten while a worker sleeps *)

\* The threads on the way to a task.
OnTheWay == {w \in Workers : pc[w] = "look"} \cup {s \in Submitters : pc[s] = "notify"}

LEMMA OnTheWayFinite == IsFiniteSet(OnTheWay) /\ Cardinality(OnTheWay) \in Nat
<1>1. IsFiniteSet(Threads)
  BY ThreadsAssumption, FS_Union DEF Threads
<1>2. OnTheWay \subseteq Threads
  BY DEF OnTheWay, Threads
<1> QED BY <1>1, <1>2, FS_Subset, FS_CardinalityType

LEMMA OnTheWayFinitePrime ==
  IsFiniteSet(OnTheWay') /\ Cardinality(OnTheWay') \in Nat
<1>1. IsFiniteSet(Threads)
  BY ThreadsAssumption, FS_Union DEF Threads
<1>2. OnTheWay' \subseteq Threads
  BY DEF OnTheWay, Threads
<1> QED BY <1>1, <1>2, FS_Subset, FS_CardinalityType

\* As many tasks as before, or fewer, and nobody has left the way.
LEMMA StayOnTheWay ==
  ASSUME Core, NoTaskForgotten, kind' = kind, stopped' = stopped,
         queue' = queue, OnTheWay \subseteq OnTheWay',
         Asleep' \cap Workers # {} => Asleep \cap Workers # {}
  PROVE  NoTaskForgotten'
<1>1. Cardinality(OnTheWay) <= Cardinality(OnTheWay')
  BY OnTheWayFinitePrime, FS_Subset
<1>2. Len(queue) \in Nat
  BY DEF Core, TypeOK
<1> QED
  BY <1>1, <1>2, OnTheWayFinite, OnTheWayFinitePrime
  DEF NoTaskForgotten, OnTheWay

LEMMA NoTaskForgottenStep ==
  ASSUME Core, NoTaskForgotten, [Next]_vars PROVE NoTaskForgotten'
<1> USE DEF Core
<1>1. Len(queue) \in Nat /\ Workers \subseteq Threads /\ Submitters \subseteq Threads
  BY DEF TypeOK, Threads
<1>2. stopped' => NoTaskForgotten'
  BY DEF NoTaskForgotten
<1>3. ASSUME \A u \in Workers : pc'[u] # "asleep" PROVE NoTaskForgotten'
  BY <1>3 DEF NoTaskForgotten, Asleep
<1>4. ASSUME NEW w \in Workers, Worker(w) PROVE NoTaskForgotten'
  <2>0. w \in Threads /\ w \notin Submitters
    BY <1>1, ThreadsAssumption
  <2>1. CASE Poll(w)
    <3>1. OnTheWay \subseteq OnTheWay' /\ Asleep' = Asleep
      BY <2>0, <2>1 DEF Poll, OnTheWay, TypeOK, Asleep
    <3> QED BY <2>1, <3>1, StayOnTheWay DEF Poll
  <2>2. CASE Leave(w)
    BY <1>2, <2>2 DEF Leave, MustLeave
  <2>3. CASE Take(w)
    <3>1. pc'[w] # "asleep" /\ \A u \in Threads \ {w} : pc'[u] = pc[u]
      BY <2>0, <2>3 DEF Take, TypeOK
    <3>2. OnTheWay \ {w} \subseteq OnTheWay' /\ w \in OnTheWay
      BY <1>1, <2>0, <2>3, <3>1 DEF OnTheWay, Take
    <3>3. Asleep' \cap Workers # {} => Asleep \cap Workers # {}
      BY <3>1 DEF Asleep
    <3>4. Len(queue') = Len(queue) - 1
      BY <2>3 DEF Take, TypeOK
    <3>5. /\ IsFiniteSet(OnTheWay \ {w})
          /\ Cardinality(OnTheWay \ {w}) = Cardinality(OnTheWay) - 1
      BY <3>2, OnTheWayFinite, FS_RemoveElement
    <3>6. Cardinality(OnTheWay \ {w}) <= Cardinality(OnTheWay')
      BY <3>2, OnTheWayFinitePrime, FS_Subset
    <3> QED
      BY <1>1, <2>3, <3>3, <3>4, <3>5, <3>6, OnTheWayFinite, OnTheWayFinitePrime
      DEF NoTaskForgotten, OnTheWay, Take
  <2>4. CASE FallAsleep(w)
    <3>1. Len(queue') = 0
      BY <2>4 DEF FallAsleep
    <3> QED BY <3>1, OnTheWayFinitePrime DEF NoTaskForgotten, OnTheWay
  <2>5. CASE TimeOut(w)
    <3>1. /\ \A u \in Threads \ {w} : pc'[u] = pc[u]
          /\ pc[w] = "asleep"
      BY <2>0, <2>5 DEF TimeOut, TypeOK
    <3>2. OnTheWay \subseteq OnTheWay'
      BY <1>1, <3>1 DEF OnTheWay
    <3>3. Asleep' \subseteq Asleep
      BY <2>0, <3>1 DEF Asleep
    <3> QED BY <2>5, <3>2, <3>3, StayOnTheWay DEF TimeOut
  <2>6. CASE Notify(w)
    <3> DEFINE next == IF kind = "Limited" THEN "run" ELSE "look"
    <3>1. pc'[w] = next /\ \A u \in Threads \ {w} : pc'[u] # "asleep"
      BY <2>0, <2>6, NotifyAllEffect DEF Notify, Labels
    <3> QED BY <1>1, <1>3, <3>1
  <2>7. CASE Run(w)
    <3>1. /\ \A u \in Threads \ {w} : pc'[u] = pc[u]
          /\ pc[w] = "run" /\ pc'[w] # "asleep"
      BY <2>0, <2>7 DEF Run, TypeOK, Begin
    <3>2. OnTheWay \subseteq OnTheWay'
      BY <1>1, <3>1 DEF OnTheWay
    <3>3. Asleep' \subseteq Asleep
      BY <2>0, <3>1 DEF Asleep
    <3> QED BY <2>7, <3>2, <3>3, StayOnTheWay DEF Run
  <2> QED BY <1>4, <2>1, <2>2, <2>3, <2>4, <2>5, <2>6, <2>7 DEF Worker
<1>5. ASSUME NEW s \in Submitters, Submitter(s) PROVE NoTaskForgotten'
  <2>0. s \in Threads /\ s \notin Workers
    BY <1>1, ThreadsAssumption
  <2>1. CASE Push(s)
    <3>1. /\ \A u \in Threads \ {s} : pc'[u] = pc[u]
          /\ pc[s] = "look" /\ pc'[s] = "notify"
      BY <2>0, <2>1 DEF Push, TypeOK
    <3>2. OnTheWay \cup {s} \subseteq OnTheWay' /\ s \notin OnTheWay
      BY <1>1, <2>0, <3>1 DEF OnTheWay
    <3>3. Asleep' \cap Workers = Asleep \cap Workers
      BY <2>0, <3>1 DEF Asleep
    <3>4. Len(queue') = Len(queue) + 1
      BY <2>1 DEF Push, Pushed, TypeOK
    <3>5. /\ IsFiniteSet(OnTheWay \cup {s})
          /\ Cardinality(OnTheWay \cup {s}) = Cardinality(OnTheWay) + 1
      BY <3>2, OnTheWayFinite, FS_AddElement
    <3>6. Cardinality(OnTheWay \cup {s}) <= Cardinality(OnTheWay')
      BY <3>2, OnTheWayFinitePrime, FS_Subset
    <3> QED
      BY <1>1, <2>1, <3>3, <3>4, <3>5, <3>6, OnTheWayFinite, OnTheWayFinitePrime
      DEF NoTaskForgotten, OnTheWay, Push
  <2>2. CASE NotifyWorker(s)
    <3> DEFINE next == After(submitted[s])
    <3>1. next \in {"done", "look"} /\ next \in Labels /\ pc[s] = "notify"
      BY <2>2 DEF After, Labels, NotifyWorker
    <3>2. CASE kind \in {"Pool", "Blocking"}
      <4>1. \A u \in Threads \ {s} : pc'[u] # "asleep"
        BY <2>0, <2>2, <3>1, <3>2, NotifyAllEffect DEF NotifyWorker
      <4> QED BY <1>1, <1>3, <2>0, <4>1
    <3>3. CASE kind \notin {"Pool", "Blocking"} /\ \A u \in Threads : pc[u] # "asleep"
      <4>1. \A u \in Threads \ {s} : pc'[u] = pc[u]
        BY <2>0, <2>2, <3>1, <3>3, NotifyOneEffect DEF NotifyWorker
      <4> QED BY <1>1, <1>3, <2>0, <3>3, <4>1
    <3>4. CASE kind \notin {"Pool", "Blocking", "Limited"} /\ \E u \in Threads : pc[u] = "asleep"
      <4>1. PICK u \in Threads :
              /\ pc[u] = "asleep" /\ pc'[u] = "look"
              /\ \A v \in Threads \ {s, u} : pc'[v] = pc[v]
        BY <2>0, <2>2, <3>1, <3>4, NotifyOneEffect DEF NotifyWorker
      <4>2. u \in Workers
        BY <2>2, <3>4, <4>1 DEF Threads, SubmitterOK, NotifyWorker, Bounded
      <4>3. /\ (OnTheWay \ {s}) \cup {u} \subseteq OnTheWay'
            /\ s \in OnTheWay /\ u \notin OnTheWay \ {s}
        BY <1>1, <2>0, <3>1, <4>1, <4>2, ThreadsAssumption DEF OnTheWay
      <4>4. Asleep \cap Workers # {}
        BY <4>1, <4>2 DEF Asleep
      <4>5. /\ IsFiniteSet(OnTheWay \ {s})
            /\ Cardinality(OnTheWay \ {s}) = Cardinality(OnTheWay) - 1
        BY <4>3, OnTheWayFinite, FS_RemoveElement
      <4>6. Cardinality((OnTheWay \ {s}) \cup {u}) = Cardinality(OnTheWay)
        <5>1. Cardinality((OnTheWay \ {s}) \cup {u}) = Cardinality(OnTheWay \ {s}) + 1
          BY <4>3, <4>5, FS_AddElement
        <5> QED BY <4>5, <5>1, OnTheWayFinite
      <4>7. Cardinality(OnTheWay) <= Cardinality(OnTheWay')
        BY <4>3, <4>6, OnTheWayFinitePrime, FS_Subset
      <4> QED
        BY <1>1, <2>2, <4>4, <4>7, OnTheWayFinite, OnTheWayFinitePrime
        DEF NoTaskForgotten, OnTheWay, NotifyWorker
    <3>5. CASE kind = "Limited"
      BY <2>2, <3>5 DEF NoTaskForgotten, NotifyWorker
    <3> QED BY <3>2, <3>3, <3>4, <3>5
  <2>3. CASE WaitForRoom(s) \/ RoomByTimeOut(s)
    <3>1. /\ \A u \in Threads \ {s} : pc'[u] = pc[u]
          /\ pc[s] # "notify"
      BY <2>0, <2>3 DEF WaitForRoom, RoomByTimeOut, TypeOK
    <3>2. OnTheWay \subseteq OnTheWay' /\ Asleep' \cap Workers = Asleep \cap Workers
      BY <1>1, <2>0, <3>1 DEF OnTheWay, Asleep
    <3> QED BY <2>3, <3>2, StayOnTheWay DEF WaitForRoom, RoomByTimeOut
  <2> QED BY <1>5, <2>1, <2>2, <2>3 DEF Submitter
<1>6. ASSUME NEW t \in Threads, SpuriousWakeup(t) PROVE NoTaskForgotten'
  <2>1. /\ \A u \in Threads \ {t} : pc'[u] = pc[u]
        /\ pc[t] = "asleep" /\ pc'[t] = "look"
    BY <1>6 DEF SpuriousWakeup, Woken
  <2>2. OnTheWay \subseteq OnTheWay' /\ Asleep' \subseteq Asleep
    BY <1>1, <2>1 DEF OnTheWay, Asleep
  <2> QED BY <1>6, <2>2, StayOnTheWay DEF SpuriousWakeup
<1>7. CASE Main
  BY <1>2, <1>7 DEF Main, Stop, NotifyStop, Join, MainOK
<1>8. CASE UNCHANGED vars
  BY <1>8 DEF vars, NoTaskForgotten, Asleep
<1> QED BY <1>4, <1>5, <1>6, <1>7, <1>8 DEF Next, Finished

-----------------------------------------------------------------------------
(* The theorems *)

\* The invariant holds from the start to the end, and whatever happens.
THEOREM Invariance == Spec => []IInv
<1>1. ASSUME Init PROVE IInv
  <2>1. Core
    BY <1>1, CoreInit
  <2>2. Asleep = {}
    BY <1>1 DEF Init, Asleep, Begin
  <2>3. NoTaskForgotten
    BY <2>2 DEF NoTaskForgotten
  <2>4. QueueBounded /\ Drained
    BY <1>1, NumbersAssumption DEF Init, QueueBounded, Drained
  <2> QED BY <2>1, <2>3, <2>4 DEF IInv
<1>2. ASSUME IInv, [Next]_vars PROVE IInv'
  BY <1>2, CoreStep, QueueBoundedStep, DrainedStep, NoTaskForgottenStep DEF IInv
<1> QED BY <1>1, <1>2, PTL DEF Spec

\* Every variable has its type, in every pool.
THEOREM TypeCorrect == Spec => []TypeOK
<1>1. IInv => TypeOK
  BY DEF IInv, Core
<1> QED BY <1>1, Invariance, PTL

(***************************************************************************)
(* Limited and Blocking never hold more tasks than their capacity, however *)
(* many submitters are woken or time out at once.                          *)
(***************************************************************************)
THEOREM CapacityKept == Spec => []QueueBounded
<1>1. IInv => QueueBounded
  BY DEF IInv
<1> QED BY <1>1, Invariance, PTL

(***************************************************************************)
(* While a worker sleeps and the pool has not been stopped, there are as   *)
(* many workers about to look and submitters about to notify as there are  *)
(* tasks in the queue, or more, in every pool but Limited.                 *)
(***************************************************************************)
THEOREM SomebodyComes == Spec => []NoTaskForgotten
<1>1. IInv => NoTaskForgotten
  BY DEF IInv
<1> QED BY <1>1, Invariance, PTL

\* Blocking's destructor returns when every task has been run.
THEOREM NothingLeft == Spec => []Drained
<1>1. IInv => Drained
  BY DEF IInv
<1> QED BY <1>1, Invariance, PTL

-----------------------------------------------------------------------------
(* The pools implement TaskPool *)

Running == {task[w] : w \in Workers} \ {None}

LEMMA SameCardinality == ASSUME NEW S PROVE Promise!Cardinality(S) = Cardinality(S)
BY DEF Promise!Cardinality, Cardinality

\* A worker that has no task is one that could run another.
LEMMA RoomToRun ==
  ASSUME Core, NEW w \in Workers, task[w] = None
  PROVE  Cardinality(Running) < Cardinality(Workers)
<1> DEFINE others == Workers \ {w}
           tasks == {task[v] : v \in others}
           f == [v \in others |-> task[v]]
<1>1. /\ IsFiniteSet(others)
      /\ Cardinality(others) = Cardinality(Workers) - 1
      /\ Cardinality(Workers) \in Nat
  BY ThreadsAssumption, FS_RemoveElement, FS_CardinalityType
<1>2. f \in Surjection(others, tasks)
  BY DEF Surjection
<1>3. IsFiniteSet(tasks) /\ Cardinality(tasks) <= Cardinality(others)
  BY <1>1, <1>2, FS_Surjection
<1>4. Running \subseteq tasks
  BY DEF Running
<1>5. /\ Cardinality(Running) <= Cardinality(tasks)
      /\ Cardinality(Running) \in Nat /\ Cardinality(tasks) \in Nat
  BY <1>3, <1>4, FS_Subset, FS_CardinalityType
<1> QED BY <1>1, <1>3, <1>5

LEMMA PushRefines ==
  ASSUME Core, NEW s \in Submitters, Push(s)
  PROVE  \E x \in Tasks : Promise!Submit(x)
<1> USE DEF Core
<1> DEFINE new == <<s, submitted[s] + 1>>
<1>1. submitted[s] \in 0..TasksEach /\ submitted[s] < TasksEach
  BY DEF TypeOK, SubmitterOK, Push
<1>2. new \in Tasks
  BY <1>1, NumbersAssumption DEF Tasks
<1>3. ~Submitted(new)
  BY <1>1 DEF Submitted
<1>4. main # "done" /\ main' # "done"
  BY DEF MainOK, Push
<1>5. new \notin Promise!Range(queue)
  <2>1. DOMAIN queue = 1..Len(queue)
    BY DEF TypeOK
  <2> QED BY <1>3, <2>1 DEF Promise!Range, OnePlace, Submitted
<1>6. new \notin Running /\ new \notin ready
  BY <1>2, <1>3, NoneAssumption DEF OnePlace, Submitted, Running
<1>7. Promise!Submit(new)
  BY <1>4, <1>5, <1>6 DEF Promise!Submit, Push, Pushed, Running
<1> QED BY <1>2, <1>7

LEMMA TakeRefines ==
  ASSUME Core, NEW w \in Workers, Take(w) PROVE Promise!Start
<1> USE DEF Core
<1>1. w \in Threads
  BY DEF Threads
<1>2. main # "done" /\ main' # "done"
  BY <1>1 DEF MainOK, Take
<1>3. task[w] = None
  BY DEF WorkerOK, Take
<1>4. Head(queue) \in Tasks
  BY DEF Take, TypeOK
<1>5. Running' = Running \cup {Head(queue)}
  <2>1. /\ task'[w] = Head(queue)
        /\ \A v \in Workers \ {w} : task'[v] = task[v]
    BY DEF Take, TypeOK
  <2> QED BY <1>3, <1>4, <2>1, NoneAssumption DEF Running
<1>6. Cardinality(Running) < Cardinality(Workers)
  BY <1>3, RoomToRun
<1>7. /\ queue # <<>> /\ queue' = Tail(queue) /\ ready' = ready
      /\ (main = "done") = FALSE /\ (main' = "done") = FALSE
  BY <1>2 DEF Take
<1> QED BY <1>5, <1>6, <1>7, SameCardinality DEF Promise!Start, Running

LEMMA RunRefines ==
  ASSUME Core, NEW w \in Workers, Run(w)
  PROVE  \E x \in Tasks : Promise!Finish(x)
<1> USE DEF Core
<1>1. task[w] # None /\ task[w] \in Tasks
  BY DEF WorkerOK, Run, TypeOK
<1>2. /\ task'[w] = None
      /\ \A v \in Workers \ {w} : task'[v] = task[v]
  BY DEF Run, TypeOK
<1>3. \A v \in Workers \ {w} : task[v] # task[w]
  BY <1>1 DEF OnePlace
<1>4. Running' = Running \ {task[w]}
  BY <1>1, <1>2, <1>3 DEF Running
<1>5. task[w] \in Running
  BY <1>1 DEF Running
<1>6. /\ queue' = queue /\ ready' = ready \cup {task[w]}
      /\ (main' = "done") = (main = "done")
  BY DEF Run
<1>7. PICK x \in Tasks : x = task[w]
  BY <1>1
<1>8. Promise!Finish(x)
  BY <1>4, <1>5, <1>6, <1>7 DEF Promise!Finish, Running
<1> QED BY <1>8

LEMMA JoinRefines == ASSUME Core, Join PROVE Promise!Close
<1>1. \A w \in Workers : task[w] = None
  BY DEF Core, WorkerOK, Join
<1>2. Running = {}
  BY <1>1 DEF Running
<1> QED BY <1>2 DEF Promise!Close, Join, Running

(***************************************************************************)
(* Every pool implements TaskPool: tasks start in the order of submission, *)
(* each once, no more of them at a time than there are workers, and none   *)
(* once the destructor has returned.                                       *)
(***************************************************************************)
THEOREM Implementation == Spec => ImplementsTaskPool
<1>1. ASSUME Init PROVE Promise!Init
  <2>1. {task[w] : w \in Workers} = {None}
    BY <1>1, ThreadsAssumption DEF Init
  <2> QED BY <1>1, <2>1 DEF Init, Promise!Init
<1>2. ASSUME IInv, [Next]_vars PROVE [Promise!Next]_(Promise!vars)
  <2> USE <1>2 DEF IInv
  <2>1. ASSUME UNCHANGED <<queue, task, ready>>, main' = "done" <=> main = "done"
        PROVE  UNCHANGED Promise!vars
    BY <2>1 DEF Promise!vars
  <2>2. ASSUME NEW w \in Workers, Worker(w)
        PROVE  [Promise!Next]_(Promise!vars)
    BY <2>1, <2>2, TakeRefines, RunRefines
    DEF Worker, Poll, Leave, FallAsleep, TimeOut, Notify, Promise!Next
  <2>3. ASSUME NEW s \in Submitters, Submitter(s)
        PROVE  [Promise!Next]_(Promise!vars)
    BY <2>1, <2>3, PushRefines
    DEF Submitter, NotifyWorker, WaitForRoom, RoomByTimeOut, Promise!Next
  <2>4. CASE Main
    BY <2>1, <2>4, JoinRefines DEF Main, Stop, NotifyStop, Promise!Next
  <2>5. ASSUME NEW t \in Threads, SpuriousWakeup(t)
        PROVE  [Promise!Next]_(Promise!vars)
    BY <2>1, <2>5 DEF SpuriousWakeup
  <2>6. CASE UNCHANGED vars
    BY <2>1, <2>6 DEF vars
  <2> QED BY <2>2, <2>3, <2>4, <2>5, <2>6 DEF Next, Finished
<1> QED
  BY <1>1, <1>2, Invariance, PTL DEF Spec, ImplementsTaskPool, Promise!Spec
=============================================================================

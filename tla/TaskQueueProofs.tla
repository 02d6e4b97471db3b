--------------------------- MODULE TaskQueueProofs ---------------------------
(***************************************************************************)
(* Proofs about TaskQueue for any number of clients, any delays and any    *)
(* number of tasks.                                                        *)
(***************************************************************************)
EXTENDS TaskQueue, TLAPS

(* What is true of the task that runs: it has a number that was given out,  *)
(* and while there is one the worker does not look at the queues.           *)
Running == running # NoTask => /\ worker = "run"
                               /\ running.task <= posting_order

(* A client that posts with a delay has read the clock. *)
FireTimes == \A c \in Clients : pc[c] = "post_delayed" => fire_at[c] # Never

(* The inductive invariant: without Numbered the comparison of the numbers  *)
(* in GetNextTask() would say nothing about the order of the posts.  That   *)
(* tasks are taken in order is then a property of the step that takes one.  *)
IInv == TypeOK /\ FireTimes /\ Numbered /\ Running

(* The first task of a queue that is not empty, and the rest of it. *)
LEMMA HeadAndTail ==
  ASSUME NEW S, NEW q \in Seq(S), q # <<>>
  PROVE  /\ Head(q) \in S /\ Head(q) = q[1] /\ 1 \in DOMAIN q
         /\ Tail(q) \in Seq(S)
         /\ DOMAIN Tail(q) = 1 .. Len(q) - 1
         /\ \A i \in DOMAIN Tail(q) : Tail(q)[i] = q[i + 1] /\ i + 1 \in DOMAIN q
  OBVIOUS

(* The queue is empty when it is made. *)
LEMMA InitInv == Init => IInv
<1> SUFFICES ASSUME Init PROVE IInv
  OBVIOUS
<1> USE DEF Init, QueueInit
<1>1. TypeOK
  <2>1. 1 \in Nat \ {0} /\ 0 \in 0 .. 1
    OBVIOUS
  <2>2. pending_queue \in Seq(Entries)
    OBVIOUS
  <2> QED
    BY <2>1, <2>2, ZenonT(30) DEF TypeOK, Never
<1>2. Numbered
  BY DEF Numbered
<1>3. Running /\ FireTimes
  BY DEF Running, FireTimes
<1> QED
  BY <1>1, <1>2, <1>3 DEF IInv

(* Every step keeps the types. *)
LEMMA TypeStep == TypeOK /\ [Next]_vars => TypeOK'
<1> SUFFICES ASSUME TypeOK, [Next]_vars PROVE TypeOK'
  OBVIOUS
<1> USE TaskQueueAssumption
<1> USE DEF TypeOK, Entries, Never, queueVars, workerVars
<1>1. ASSUME NEW c \in Clients, Post(c) PROVE TypeOK'
  BY <1>1 DEF Post, MayPost, PostTask, GoTo, Entry
<1>2. ASSUME NEW c \in Clients, FireAt(c) PROVE TypeOK'
  BY <1>2 DEF FireAt, MayPost, GoTo
<1>3. ASSUME NEW c \in Clients, PostDelayed(c) PROVE TypeOK'
  BY <1>3 DEF PostDelayed, PostDelayedThen, PostDelayedTask, GoTo, Entry
<1>4. ASSUME NEW c \in Clients \cup {Owner}, Notify(c) PROVE TypeOK'
  BY <1>4 DEF Notify, NotifyWake, GoTo
<1>5. CASE Delete
  BY <1>5, ZenonT(30) DEF Delete, GoTo, Owner
<1>6. CASE Run
  BY <1>6 DEF Run, Done
<1>7. CASE Tick /\ UNCHANGED <<pc, fire_at>>
  BY <1>7 DEF Tick
<1>8. CASE GetNextTask /\ UNCHANGED <<pc, fire_at>>
  <2> USE <1>8
  <2>1. CASE Quit
    <3>1. UNCHANGED <<posting_order, should_quit, flag_notify, now>>
      BY DEF GetNextTask
    <3>2. /\ worker' = "quit" /\ tick' = 0
          /\ UNCHANGED <<pending_queue, delayed_queue, sleep_until, running>>
      BY <2>1 DEF Quit
    <3>3. 0 \in 0 .. now
      OBVIOUS
    <3> QED
      BY <3>1, <3>2, <3>3
  <2>2. CASE pending_queue # <<>> /\ RunPending
    <3>1. Head(pending_queue) \in Entries /\ Tail(pending_queue) \in Seq(Entries)
      BY <2>2, HeadAndTail, ZenonT(30)
    <3> QED
      BY <2>2, <3>1, ZenonT(30) DEF RunPending, GetNextTask
  <2>3. ASSUME NEW d \in delayed_queue, RunDelayed(d) PROVE TypeOK'
    BY <2>3, SMTT(30) DEF RunDelayed, GetNextTask
  <2>4. CASE Sleep
    <3>1. sleep_until' \in Nat
      <4>1. ASSUME NEW d \in delayed_queue, sleep_until' = now + d.fire_at - tick
            PROVE  sleep_until' \in Nat
        <5>1. d.fire_at \in Nat /\ now \in Nat /\ tick \in Nat /\ tick <= now
          OBVIOUS
        <5> QED
          BY <4>1, <5>1
      <4> QED
        BY <2>4, <4>1 DEF Sleep
    <3>2. tick' = 0 /\ now' = now /\ 0 \in 0 .. now
      BY <2>4 DEF Sleep, GetNextTask
    <3>3. UNCHANGED <<posting_order, should_quit, flag_notify, now>>
      BY DEF GetNextTask
    <3> QED
      BY <2>4, <3>1, <3>2, <3>3 DEF Sleep
  <2> QED
    BY <2>1, <2>2, <2>3, <2>4, SMTT(30) DEF GetNextTask
<1>9. CASE Wait /\ UNCHANGED <<pc, fire_at>>
  BY <1>9, ZenonT(30) DEF Wait, WaitUnless
<1>10. CASE Time
  BY <1>10 DEF Time
<1>11. CASE UNCHANGED vars
  BY <1>11 DEF vars
<1> QED
  BY <1>1, <1>2, <1>3, <1>4, <1>5, <1>6, <1>7, <1>8, <1>9, <1>10, <1>11, ZenonT(30)
  DEF Next, Work

(* PostDelayedTask() puts its entry in the queue with the time it has read. *)
LEMMA FireTimesStep ==
  ASSUME TypeOK, FireTimes, [Next]_vars
  PROVE  FireTimes'
<1> USE TaskQueueAssumption
<1> USE DEF FireTimes, TypeOK, Never
<1>1. ASSUME NEW c \in Clients, FireAt(c) PROVE FireTimes'
  BY <1>1 DEF FireAt, GoTo
<1>2. ASSUME NEW c \in Clients, Post(c) \/ PostDelayed(c) \/ Notify(c)
      PROVE  FireTimes'
  BY <1>2 DEF Post, PostDelayed, PostDelayedThen, Notify, GoTo
<1>3. CASE Notify(Owner) \/ Delete
  BY <1>3 DEF Notify, Delete, GoTo
<1>4. CASE UNCHANGED <<pc, fire_at>>
  BY <1>4
<1> QED
  BY <1>1, <1>2, <1>3, <1>4 DEF Next, Run, Work, Time, vars

(* No entry of the queues has the number the next task gets. *)
LEMMA NextNumberIsNew ==
  ASSUME TypeOK, Numbered
  PROVE  \A e \in Queued : /\ e.task < posting_order + 1
                           /\ e.task <= posting_order + 1
                           /\ e.task # posting_order + 1
<1> SUFFICES ASSUME NEW e \in Queued
             PROVE  /\ e.task < posting_order + 1
                    /\ e.task <= posting_order + 1
                    /\ e.task # posting_order + 1
  OBVIOUS
<1>1. e \in Entries /\ e.task <= posting_order
  BY DEF Queued, Numbered, TypeOK
<1> QED
  BY <1>1 DEF TypeOK, Entries

(* Every step keeps the numbering: one case for each operation that touches  *)
(* the queues or the task that runs.                                         *)
LEMMA OrderStep ==
  ASSUME IInv, TypeOK', [Next]_vars
  PROVE  Numbered' /\ Running'
<1> USE TaskQueueAssumption
<1> USE DEF IInv
<1>1. ASSUME NEW c \in Clients, Post(c)
      PROVE  Numbered' /\ Running'
  <2> DEFINE new == Entry(posting_order + 1, posting_order, Never)
  <2>1. /\ pending_queue' = Append(pending_queue, new)
        /\ posting_order' = posting_order + 1
        /\ UNCHANGED <<delayed_queue, now, tick, running, worker>>
    BY <1>1 DEF Post, PostTask, workerVars
  <2>2. DOMAIN pending_queue' = 1 .. Len(pending_queue) + 1
    BY <2>1 DEF TypeOK
  <2>3. \A i \in DOMAIN pending_queue : pending_queue'[i] = pending_queue[i]
    BY <2>1, SMTT(30) DEF TypeOK
  <2>4. pending_queue'[Len(pending_queue) + 1] = new
    BY <2>1 DEF TypeOK
  <2>5. Numbered'
    <3>1. /\ ~Delayed(new) /\ new.order + 1 = new.task
          /\ new.task = posting_order + 1
      BY DEF TypeOK, Entry, Delayed
    <3>2. \A i \in DOMAIN pending_queue :
            /\ pending_queue[i].task < posting_order + 1
            /\ pending_queue[i].task <= posting_order + 1
      BY NextNumberIsNew DEF Queued
    <3>3. \A d \in delayed_queue : /\ d.task # posting_order + 1
                                   /\ d.task <= posting_order + 1
      BY NextNumberIsNew DEF Queued
    <3>4. DOMAIN pending_queue = 1 .. Len(pending_queue) /\ Len(pending_queue) \in Nat
      BY DEF TypeOK
    <3> HIDE DEF new
    <3> QED
      BY <2>1, <2>2, <2>3, <2>4, <3>1, <3>2, <3>3, <3>4 DEF Numbered
  <2>7. Running'
    BY <2>1 DEF TypeOK, Running, Entries
  <2> QED
    BY <2>5, <2>7
<1>2. ASSUME NEW c \in Clients, PostDelayed(c)
      PROVE  Numbered' /\ Running'
  <2> DEFINE new == Entry(posting_order + 1, posting_order + 1, fire_at[c])
  <2>1. /\ delayed_queue' = delayed_queue \cup {new}
        /\ posting_order' = posting_order + 1
        /\ UNCHANGED <<pending_queue, now, tick, running, worker>>
    BY <1>2 DEF PostDelayed, PostDelayedThen, PostDelayedTask, workerVars
  <2>2. Delayed(new)
    BY <1>2 DEF FireTimes, PostDelayed, PostDelayedThen, Delayed, Entry
  <2>5. Numbered'
    <3>1. new.order = new.task /\ new.task = posting_order + 1
      BY DEF TypeOK, Entry
    <3>2. \A i \in DOMAIN pending_queue :
            /\ pending_queue[i].task # posting_order + 1
            /\ pending_queue[i].task <= posting_order + 1
      BY NextNumberIsNew DEF Queued
    <3>3. \A d \in delayed_queue : /\ d.task # posting_order + 1
                                   /\ d.task <= posting_order + 1
      BY NextNumberIsNew DEF Queued
    <3> HIDE DEF new
    <3> QED
      BY <2>1, <2>2, <3>1, <3>2, <3>3 DEF TypeOK, Numbered
  <2>7. Running'
    BY <2>1 DEF TypeOK, Running, Entries
  <2> QED
    BY <2>5, <2>7
<1>3. CASE GetNextTask
  <2>1. /\ UNCHANGED <<posting_order, now>>
        /\ running = NoTask
    BY <1>3 DEF GetNextTask, Running
  <2>2. CASE Quit \/ Sleep
    BY <2>1, <2>2 DEF Quit, Sleep, Numbered, Running
  <2>3. CASE pending_queue # <<>> /\ RunPending
    <3> DEFINE p == Head(pending_queue)
    <3>1. /\ p = pending_queue[1] /\ 1 \in DOMAIN pending_queue /\ p \in Entries
          /\ DOMAIN Tail(pending_queue) = 1 .. Len(pending_queue) - 1
          /\ \A i \in DOMAIN Tail(pending_queue) :
               /\ Tail(pending_queue)[i] = pending_queue[i + 1]
               /\ i + 1 \in DOMAIN pending_queue
      BY <2>3, HeadAndTail DEF TypeOK
    <3>2. /\ running' = p /\ pending_queue' = Tail(pending_queue)
          /\ worker' = "run" /\ UNCHANGED <<delayed_queue, tick>>
      BY <2>3 DEF RunPending
    <3>3. Numbered'
      BY <2>1, <3>1, <3>2 DEF TypeOK, Numbered
    <3>4. Running'
      BY <2>1, <3>1, <3>2 DEF Running, Numbered
    <3> QED
      BY <3>3, <3>4
  <2>4. ASSUME NEW d \in delayed_queue, RunDelayed(d) PROVE Numbered' /\ Running'
    <3>1. /\ running' = d /\ delayed_queue' = delayed_queue \ {d}
          /\ worker' = "run" /\ UNCHANGED <<pending_queue, tick>>
      BY <2>4 DEF RunDelayed
    <3> QED
      BY <2>1, <3>1 DEF Numbered, Running
  <2> QED
    BY <1>3, <2>2, <2>3, <2>4, ZenonT(30) DEF GetNextTask
<1>4. CASE Run
  BY <1>4 DEF Run, Done, Numbered, Running, queueVars
<1>5. CASE Tick
  <2>1. running = NoTask
    BY <1>5, SMTT(30) DEF Tick, Running
  <2> QED
    BY <1>5, <2>1 DEF Tick, Numbered, Running, queueVars
<1>6. CASE Wait
  <2>1. running = NoTask
    BY <1>6 DEF Wait, WaitUnless, Running
  <2> QED
    BY <1>6, <2>1 DEF Wait, WaitUnless, Numbered, Running, queueVars
<1>7. CASE Time
  BY <1>7 DEF Time, Numbered, Running, queueVars, workerVars
<1>8. CASE UNCHANGED <<pending_queue, delayed_queue, posting_order, workerVars, now>>
  <2>1. Numbered'
    BY <1>8 DEF Numbered
  <2>2. Running'
    BY <1>8 DEF Running, workerVars
  <2> QED
    BY <2>1, <2>2
<1> QED
  BY <1>1, <1>2, <1>3, <1>4, <1>5, <1>6, <1>7, <1>8
  DEF Next, Work, FireAt, Notify, Delete, vars, queueVars

(* Every step keeps the inductive invariant. *)
LEMMA StepInv == IInv /\ [Next]_vars => IInv'
  BY TypeStep, FireTimesStep, OrderStep DEF IInv

(* The first pending task is taken only when no delayed task is due, or when *)
(* the next delayed one was posted after it.                                 *)
LEMMA TakePending ==
  ASSUME IInv, pending_queue # <<>>,
         \/ \A d \in delayed_queue : tick < d.fire_at
         \/ \E d \in delayed_queue : /\ IsNextDelayed(d)
                                      /\ PendingFirst(Head(pending_queue), d)
  PROVE  TakesInOrder(Head(pending_queue))
<1> DEFINE p == Head(pending_queue)
<1> USE DEF IInv
<1>1. p = pending_queue[1] /\ 1 \in DOMAIN pending_queue /\ p \in Entries
  BY HeadAndTail DEF TypeOK
<1>2. ~Delayed(p) /\ p.order + 1 = p.task
  BY <1>1 DEF Numbered
<1>3. ASSUME NEW e \in Queued \ {p}, ~Delayed(e)
      PROVE  p.task < e.task
  <2>1. e \notin delayed_queue
    BY <1>3 DEF Numbered
  <2>2. PICK i \in DOMAIN pending_queue : e = pending_queue[i]
    BY <1>3, <2>1 DEF Queued
  <2>3. i # 1 /\ i \in Nat \ {0}
    BY <1>1, <1>3, <2>2 DEF TypeOK
  <2> QED
    BY <1>1, <2>2, <2>3 DEF Numbered
<1>4. ASSUME NEW e \in delayed_queue, e.fire_at <= tick, e.task < p.task
      PROVE  \E d \in delayed_queue : DueFirst(d, e) /\ p.task < d.task
  <2>1. PICK d \in delayed_queue : IsNextDelayed(d) /\ PendingFirst(p, d)
    BY <1>4, SMTT(30) DEF TypeOK, Entries
  <2>2. d.order = d.task /\ d.task # p.task /\ p.order < d.order /\ e.order = e.task
    BY <1>1, <2>1 DEF Numbered, PendingFirst
  <2>3. p.task < d.task
    <3>1. d \in Entries
      BY DEF TypeOK
    <3>2. d.task \in Nat /\ d.order \in Nat /\ p.task \in Nat /\ p.order \in Nat
      BY <1>1, <3>1 DEF Entries
    <3> HIDE DEF p
    <3> QED
      BY <1>2, <2>2, <3>2
  <2>4. d # e
    BY <1>1, <1>4, <2>3, SMTT(30) DEF TypeOK, Entries
  <2>5. Before(d, e)
    BY <2>1, <2>4 DEF IsNextDelayed
  <2>6. DueFirst(d, e)
    BY <2>2, <2>5 DEF Before, DueFirst
  <2> QED
    BY <2>3, <2>6
<1>5. p \in Queued
  BY <1>1 DEF Queued
<1> HIDE DEF p
<1>6. TakesInOrder(p)
  BY <1>2, <1>3, <1>4, <1>5 DEF TakesInOrder
<1> QED
  BY <1>6 DEF p

(* The next delayed task is taken only when it is due, and when every        *)
(* pending one was posted after it.                                          *)
LEMMA TakeDelayed ==
  ASSUME IInv, NEW d \in delayed_queue, IsNextDelayed(d),
         \E x \in delayed_queue : tick >= x.fire_at,
         pending_queue # <<>> => ~PendingFirst(Head(pending_queue), d)
  PROVE  TakesInOrder(d)
<1> USE DEF IInv
<1>1. Delayed(d) /\ d.order = d.task /\ d \in Entries
  BY DEF Numbered, TypeOK
<1>2. d.fire_at <= now
  <2>1. PICK x \in delayed_queue : tick >= x.fire_at
    OBVIOUS
  <2>2. x = d \/ Before(d, x)
    BY DEF IsNextDelayed
  <2>3. x \in Entries /\ tick \in Nat /\ now \in Nat /\ tick <= now
    BY DEF TypeOK
  <2> QED
    BY <1>1, <2>1, <2>2, <2>3 DEF Before, Entries
<1>3. ASSUME NEW i \in DOMAIN pending_queue
      PROVE  d.task < pending_queue[i].task
  <2>1. /\ Head(pending_queue) = pending_queue[1] /\ 1 \in DOMAIN pending_queue
        /\ pending_queue # <<>>
    BY DEF TypeOK
  <2>2. /\ pending_queue[1] \in Entries /\ pending_queue[i] \in Entries
        /\ i \in Nat \ {0}
    BY <2>1, SMTT(30) DEF TypeOK
  <2>3. /\ pending_queue[1].order + 1 = pending_queue[1].task
        /\ i = 1 \/ pending_queue[1].task < pending_queue[i].task
    BY <2>1, <2>2 DEF Numbered
  <2>4. ~(pending_queue[1].order < d.order)
    BY <2>1 DEF PendingFirst
  <2> QED
    BY <1>1, <2>2, <2>3, <2>4 DEF Entries
<1>4. ASSUME NEW e \in Queued \ {d}, ~Delayed(e)
      PROVE  d.task < e.task
  <2>1. e \notin delayed_queue
    BY <1>4 DEF Numbered
  <2> QED
    BY <1>3, <1>4, <2>1 DEF Queued
<1>5. ASSUME NEW e \in delayed_queue \ {d} PROVE DueFirst(d, e)
  BY <1>1 DEF IsNextDelayed, Numbered, Before, DueFirst
<1>6. d \in Queued
  BY DEF Queued
<1> QED
  BY <1>1, <1>2, <1>4, <1>5, <1>6 DEF TakesInOrder

(* Only GetNextTask() takes a task, and it takes it in order. *)
LEMMA TakeStep ==
  ASSUME IInv, [Next]_vars, running' \notin {running, NoTask}
  PROVE  TakesInOrder(running')
<1>1. GetNextTask
  BY DEF Next, Work, Post, FireAt, PostDelayed, PostDelayedThen, Notify, Delete,
         Run, Done, Tick, Wait, WaitUnless, Time, vars, workerVars
<1>2. CASE Quit \/ Sleep
  BY <1>2 DEF Quit, Sleep
<1>3. ASSUME pending_queue # <<>>, RunPending,
             \/ \A d \in delayed_queue : tick < d.fire_at
             \/ \E d \in delayed_queue : /\ IsNextDelayed(d)
                                          /\ PendingFirst(Head(pending_queue), d)
      PROVE  TakesInOrder(running')
  <2>1. running' = Head(pending_queue)
    BY <1>3 DEF RunPending
  <2> QED
    BY <1>3, <2>1, TakePending
<1>4. ASSUME NEW d \in delayed_queue, IsNextDelayed(d), RunDelayed(d),
             \E x \in delayed_queue : tick >= x.fire_at,
             pending_queue # <<>> => ~PendingFirst(Head(pending_queue), d)
      PROVE  TakesInOrder(running')
  <2>1. running' = d
    BY <1>4 DEF RunDelayed
  <2> QED
    BY <1>4, <2>1, TakeDelayed
<1>5. ~ (\E d \in delayed_queue : tick >= d.fire_at)
        => \A d \in delayed_queue : tick < d.fire_at
  <2>1. tick \in Nat /\ \A d \in delayed_queue : d.fire_at \in Nat
    BY DEF IInv, TypeOK, Entries
  <2> QED
    BY <2>1
<1> QED
  BY <1>1, <1>2, <1>3, <1>4, <1>5 DEF GetNextTask

(* For any number of clients and tasks and for any delays, the worker takes *)
(* the tasks in the order that the comment on delayed_queue_ promises: of   *)
(* all the tasks that wait, posted before or after, the one it takes is the *)
(* one whose turn it is.                                                    *)
THEOREM TasksRunInOrder == Spec => RunsInOrder
<1>1. IInv /\ [Next]_vars
        => [running' \notin {running, NoTask} => TakesInOrder(running')]_vars
  BY TakeStep
<1> QED
  BY <1>1, InitInv, StepInv, PTL DEF Spec, RunsInOrder

(* No wake-up is lost in a step: whoever changes a queue goes on to notify, *)
(* and the worker goes to sleep only after it has looked at the queues.     *)
LEMMA WakeupStep ==
  ASSUME IInv, NoLostWakeup, [Next]_vars
  PROVE  NoLostWakeup'
<1> USE TaskQueueAssumption
<1> USE DEF NoLostWakeup
<1>1. ASSUME NEW c \in Clients, Post(c) \/ PostDelayed(c)
      PROVE  NoLostWakeup'
  BY <1>1 DEF Post, PostDelayed, PostDelayedThen, GoTo, IInv, TypeOK
<1>2. ASSUME NEW c \in Clients, FireAt(c)
      PROVE  NoLostWakeup'
  BY <1>2 DEF FireAt, MayPost, GoTo, IInv, TypeOK, queueVars, workerVars
<1>3. ASSUME NEW c \in Clients \cup {Owner}, Notify(c)
      PROVE  NoLostWakeup'
  BY <1>3 DEF Notify, NotifyWake
<1>4. CASE Delete
  <2>1. CASE worker = "quit"
    BY <1>4, <2>1 DEF Delete, workerVars
  <2>2. CASE worker # "quit"
    BY <1>4, <2>2 DEF Delete, GoTo, IInv, TypeOK
  <2> QED
    BY <2>1, <2>2
<1>5. CASE GetNextTask
  <2>1. ASSUME NEW d \in delayed_queue, tick < d.fire_at
        PROVE  now + d.fire_at - tick # Never
    <3>1. d.fire_at \in Nat /\ now \in Nat /\ tick \in Nat /\ tick <= now
      BY DEF IInv, TypeOK, Entries
    <3> QED
      BY <2>1, <3>1 DEF Never
  <2>2. CASE /\ Sleep /\ pending_queue = <<>> /\ ~should_quit
             /\ \A d \in delayed_queue : tick < d.fire_at
    BY <1>5, <2>1, <2>2 DEF Sleep, GetNextTask
  <2> QED
    BY <1>5, <2>2
    DEF GetNextTask, Quit, RunPending, RunDelayed, IInv, TypeOK, Entries
<1>6. CASE Tick \/ Wait \/ Run
  BY <1>6 DEF Tick, Wait, WaitUnless, Run, Done
<1>7. CASE Time
  BY <1>7 DEF Time, queueVars, workerVars
<1>8. CASE UNCHANGED vars
  BY <1>8 DEF vars, queueVars, workerVars
<1> QED
  BY <1>1, <1>2, <1>3, <1>4, <1>5, <1>6, <1>7, <1>8 DEF Next, Work

(* For any number of clients the worker never sleeps on a queue that has a  *)
(* task for it, or that it has to leave, nor without a time-out on one with *)
(* a delayed task, with nobody about to notify it.                          *)
THEOREM WorkerIsWoken == Spec => []NoLostWakeup
<1>1. Init => NoLostWakeup
  BY DEF Init, QueueInit, NoLostWakeup
<1>2. IInv /\ NoLostWakeup /\ [Next]_vars => IInv' /\ NoLostWakeup'
  BY StepInv, WakeupStep
<1> QED
  BY <1>1, <1>2, InitInv, PTL DEF Spec
==============================================================================

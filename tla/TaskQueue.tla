------------------------------ MODULE TaskQueue ------------------------------
(***************************************************************************)
(* The task queue and its users: clients post tasks, with and without a    *)
(* delay, time passes, and in the end the owner deletes the queue.  A task *)
(* is known by when its entry was made, so that the order in which tasks   *)
(* are taken can be compared with it.                                      *)
(***************************************************************************)
EXTENDS TaskQueueStdlib

CONSTANTS Clients,      \* the threads that post
          Delays,       \* the delays they ask for
          MaxPosts,     \* bound: the tasks posted
          MaxTime       \* bound: the clock, unless the worker waits for it

Owner == "owner"
Entries == [task : Nat, order : Nat, fire_at : Nat]

ASSUME TaskQueueAssumption == /\ MaxPosts \in Nat \ {0}
                              /\ MaxTime \in Nat \ {0}
                              /\ Delays \subseteq Nat
                              /\ Owner \notin Clients
                              /\ NoTask \notin Entries

VARIABLES pc,           \* where each client, and the owner, is
          fire_at       \* fire_at of each client's PostDelayedTask()

vars == <<queueVars, workerVars, flag_notify, now, pc, fire_at>>
GoTo(c, place) == pc' = [pc EXCEPT ![c] = place]

Init == /\ QueueInit
        /\ pc = [c \in Clients \cup {Owner} |-> "idle"]
        /\ fire_at = [c \in Clients |-> Never]

(* A client calls while the queue exists. *)
MayPost(c) == /\ pc[c] = "idle"
              /\ pc[Owner] = "idle"
              /\ posting_order < MaxPosts

Post(c) == /\ MayPost(c)
           /\ PostTask(posting_order + 1)
           /\ GoTo(c, "notify")
           /\ UNCHANGED <<workerVars, flag_notify, now, fire_at>>

(* PostDelayedTask() reads the clock before it takes the lock. *)
FireAt(c) == /\ MayPost(c)
             /\ \E ms \in Delays : fire_at' = [fire_at EXCEPT ![c] = now + ms]
             /\ GoTo(c, "post_delayed")
             /\ UNCHANGED <<queueVars, workerVars, flag_notify, now>>

PostDelayedThen(c, next) == /\ pc[c] = "post_delayed"
                            /\ PostDelayedTask(posting_order + 1, fire_at[c])
                            /\ fire_at' = [fire_at EXCEPT ![c] = Never]
                            /\ GoTo(c, next)
                            /\ UNCHANGED <<workerVars, flag_notify, now>>

(* Does not notify. *)
Mut_PostDelayed(c) == PostDelayedThen(c, "idle")

PostDelayed(c) == PostDelayedThen(c, "notify")

Notify(c) == /\ pc[c] = "notify"
             /\ NotifyWake
             /\ GoTo(c, IF c = Owner THEN "stopping" ELSE "idle")
             /\ UNCHANGED <<queueVars, workerVars, now, fire_at>>

(* Delete(): the owner sets thread_should_quit_, wakes the worker and waits *)
(* for it to stop.  Nobody may be posting.                                  *)
Delete == \/ /\ \A c \in DOMAIN pc : pc[c] = "idle"
             /\ should_quit' = TRUE
             /\ GoTo(Owner, "notify")
             /\ UNCHANGED <<pending_queue, delayed_queue, posting_order,
                            workerVars, flag_notify, now, fire_at>>
          \/ /\ pc[Owner] = "stopping" /\ worker = "quit"
             /\ GoTo(Owner, "deleted")
             /\ UNCHANGED <<queueVars, workerVars, flag_notify, now, fire_at>>

(* QueuedTask::Run() *)
Run == /\ worker = "run"
       /\ Done
       /\ UNCHANGED <<queueVars, flag_notify, now, pc, fire_at>>

Work == (Tick \/ GetNextTask \/ Wait) /\ UNCHANGED <<pc, fire_at>>

Time == /\ now < MaxTime \/ (worker = "wait" /\ now < sleep_until)
        /\ now' = now + 1
        /\ UNCHANGED <<queueVars, workerVars, flag_notify, pc, fire_at>>

Next == \/ \E c \in Clients : Post(c) \/ FireAt(c) \/ PostDelayed(c) \/ Notify(c)
        \/ Notify(Owner) \/ Delete \/ Run \/ Work \/ Time

(* The worker and the calls that have begun are scheduled, tasks return,    *)
(* and time passes.  Nobody has to post or to delete the queue.             *)
Fairness == /\ WF_vars(Work) /\ WF_vars(Run) /\ WF_vars(Time)
            /\ \A c \in Clients : WF_vars(PostDelayed(c)) /\ WF_vars(Notify(c))
            /\ WF_vars(Notify(Owner))
            /\ WF_vars(pc[Owner] = "stopping" /\ Delete)

Spec == Init /\ [][Next]_vars /\ Fairness

-----------------------------------------------------------------------------
(* The tasks are numbered in the order of their critical sections. *)
Delayed(e) == e.fire_at # Never

TypeOK == /\ pending_queue \in Seq(Entries)
          /\ delayed_queue \in SUBSET Entries
          /\ posting_order \in Nat
          /\ should_quit \in BOOLEAN
          /\ flag_notify \in BOOLEAN
          /\ now \in Nat \ {0}
          /\ tick \in 0 .. now
          /\ sleep_until \in Nat
          /\ running \in Entries \cup {NoTask}
          /\ worker \in {"tick", "get", "run", "wait", "quit"}
          /\ pc \in [Clients \cup {Owner} ->
                     {"idle", "post_delayed", "notify", "stopping", "deleted"}]
          /\ fire_at \in [Clients -> Nat]

(* The numbers tell the order of the posts, though PostTask() and           *)
(* PostDelayedTask() take them from the counter in different ways and a     *)
(* delayed task shares its number with the task posted next.                *)
Numbered ==
  /\ \A i \in DOMAIN pending_queue :
       LET p == pending_queue[i]
       IN  /\ ~Delayed(p)
           /\ p.order + 1 = p.task
           /\ p.task <= posting_order
           /\ \A j \in 1 .. i - 1 : pending_queue[j].task < p.task
           /\ \A d \in delayed_queue : d.task # p.task
  /\ \A d \in delayed_queue :
       /\ Delayed(d)
       /\ d.order = d.task
       /\ d.task <= posting_order
       /\ \A e \in delayed_queue : d.task = e.task => d = e

(* Of two delayed tasks: the one due first, then the one posted first.      *)
DueFirst(a, b) == \/ a.fire_at < b.fire_at
                  \/ a.fire_at = b.fire_at /\ a.task < b.task

(* A step in which the worker takes task r, seen from all tasks that wait.  *)
TakesInOrder(r) ==
  /\ r \in Queued
  /\ \A e \in Queued \ {r} : ~Delayed(e) => r.task < e.task
  /\ Delayed(r) => /\ r.fire_at <= now
                   /\ \A e \in delayed_queue \ {r} : DueFirst(r, e)
  /\ ~Delayed(r) => \A e \in delayed_queue :
       e.fire_at <= tick /\ e.task < r.task =>
         \E d \in delayed_queue : DueFirst(d, e) /\ r.task < d.task

(* GetNextTask() hands out tasks in the order the comment on delayed_queue_ *)
(* promises.  Whatever it takes, no task without delay that was posted      *)
(* earlier waits.  A delayed task is taken when its time has come and no    *)
(* delayed task, posted earlier or later, is due before it, or at the same  *)
(* time and posted first.  A task without delay does not overtake a delayed *)
(* one that is due and was posted earlier, unless that one waits behind     *)
(* another that is due earlier still and was posted after the task taken.   *)
RunsInOrder == [][running' \notin {running, NoTask} => TakesInOrder(running')]_vars

(* No wake-up is lost (the comment in NotifyWake()): the worker does not    *)
(* sleep on a queue that has a task, or that it has to leave, nor without a *)
(* time-out while there is a delayed task, unless whoever posted has still  *)
(* to notify.                                                               *)
NoLostWakeup ==
  worker = "wait" /\ ~flag_notify =>
    \/ \E c \in DOMAIN pc : pc[c] = "notify"
    \/ /\ pending_queue = <<>>
       /\ ~should_quit
       /\ delayed_queue # {} => sleep_until # Never

(* Every task posted is run, unless the queue is deleted first, and Delete()*)
(* returns.                                                                 *)
TasksRun == /\ \A k \in 1 .. MaxPosts :
                 (\E e \in Queued : e.task = k)
                   ~> (should_quit \/ (running # NoTask /\ running.task = k))
            /\ should_quit ~> pc[Owner] = "deleted"
==============================================================================

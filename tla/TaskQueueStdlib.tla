--------------------------- MODULE TaskQueueStdlib ---------------------------
(***************************************************************************)
(* The task queue on top of the standard library: one worker thread runs   *)
(* the tasks that any thread posts, those with a delay when their time has *)
(* come.  This module has the steps of the queue and the loop of its       *)
(* worker; who posts what, and what a task does, is up to the module that  *)
(* uses it (TaskQueue).                                                    *)
(*                                                                         *)
(* An entry has the task, its number (order) and the time it is due        *)
(* (fire_at, Never for a task without delay).  A critical section of       *)
(* pending_lock_ is one step; reading the clock before it and setting the  *)
(* event after it are others.                                              *)
(***************************************************************************)
EXTENDS Naturals, Sequences, FiniteSets

CONSTANT NoTask

VARIABLES pending_queue,   \* pending_queue_: entries, first in first out
          delayed_queue,   \* delayed_queue_: a map from (fire_at, order)
          posting_order,   \* thread_posting_order_
          should_quit,     \* thread_should_quit_
          flag_notify,     \* flag_notify_, an auto-reset event
          now,             \* rtc::TimeMillis(), from 1 on
          tick,            \* tick of GetNextTask(), 0 when it is over
          sleep_until,     \* when the worker's wait times out, or Never
          running,         \* the entry the worker took and runs, or NoTask
          worker           \* where the worker is

queueVars == <<pending_queue, delayed_queue, posting_order, should_quit>>
workerVars == <<tick, sleep_until, running, worker>>

Never == 0

QueueInit == /\ pending_queue = <<>>
             /\ delayed_queue = {}
             /\ posting_order = 0
             /\ should_quit = FALSE
             /\ flag_notify = FALSE
             /\ now = 1
             /\ tick = 0
             /\ sleep_until = Never
             /\ running = NoTask
             /\ worker = "tick"

Entry(task, order, fire_at) ==
  [task |-> task, order |-> order, fire_at |-> fire_at]

(* The critical section of PostTask(): the number is the counter before it  *)
(* is incremented.                                                          *)
PostTask(task) ==
  /\ pending_queue' = Append(pending_queue, Entry(task, posting_order, Never))
  /\ posting_order' = posting_order + 1
  /\ UNCHANGED <<delayed_queue, should_quit>>

(* The critical section of PostDelayedTask(): here it is the counter after. *)
PostDelayedTask(task, fire_at) ==
  /\ posting_order' = posting_order + 1
  /\ delayed_queue' = delayed_queue \cup {Entry(task, posting_order + 1, fire_at)}
  /\ UNCHANGED <<pending_queue, should_quit>>

(* NotifyWake() *)
NotifyWake == flag_notify' = TRUE

(* Orders the tasks by their numbers alone. *)
Mut_Before(a, b) == a.order < b.order

(* operator< of DelayedEntryTimeout *)
Before(a, b) == \/ a.fire_at < b.fire_at
                \/ a.fire_at = b.fire_at /\ a.order < b.order

(* delayed_queue_.begin() *)
IsNextDelayed(d) == /\ d \in delayed_queue
                    /\ \A e \in delayed_queue \ {d} : Before(d, e)

-----------------------------------------------------------------------------
(* ProcessTasks(), the loop of the worker thread. *)

(* GetNextTask() reads the clock before it takes the lock. *)
Tick == /\ worker = "tick"
        /\ tick' = now
        /\ worker' = "get"
        /\ UNCHANGED <<queueVars, flag_notify, now, sleep_until, running>>

RunPending == /\ running' = Head(pending_queue)
              /\ pending_queue' = Tail(pending_queue)
              /\ worker' = "run"
              /\ UNCHANGED <<delayed_queue, sleep_until, tick>>

RunDelayed(d) == /\ running' = d
                 /\ delayed_queue' = delayed_queue \ {d}
                 /\ worker' = "run"
                 /\ UNCHANGED <<pending_queue, sleep_until, tick>>

(* Without a task: sleep until the next delayed one is due.  The time to    *)
(* wait is taken from tick, and starts when the wait does.                  *)
Sleep == /\ worker' = "wait"
         /\ \/ delayed_queue = {} /\ sleep_until' = Never
            \/ \E d \in delayed_queue : /\ IsNextDelayed(d)
                                         /\ sleep_until' = now + d.fire_at - tick
         /\ tick' = 0
         /\ UNCHANGED <<pending_queue, delayed_queue, running>>

Quit == /\ worker' = "quit"
        /\ tick' = 0
        /\ UNCHANGED <<pending_queue, delayed_queue, sleep_until, running>>

PendingFirst(p, d) == p.order < d.order

(* GetNextTask(), the critical section: an expired delayed task and the     *)
(* first pending one are compared by their numbers.                         *)
GetNextTask ==
  /\ worker = "get"
  /\ LET due == \E d \in delayed_queue : tick >= d.fire_at
     IN  \/ should_quit /\ Quit
         \/ /\ ~should_quit /\ due
            /\ \E d \in delayed_queue :
                 /\ IsNextDelayed(d)
                 /\ IF pending_queue # <<>> /\ PendingFirst(Head(pending_queue), d)
                      THEN RunPending ELSE RunDelayed(d)
         \/ ~should_quit /\ ~due /\ pending_queue # <<>> /\ RunPending
         \/ ~should_quit /\ ~due /\ pending_queue = <<>> /\ Sleep
  /\ UNCHANGED <<posting_order, should_quit, flag_notify, now>>

WaitUnless(timeout) ==
  /\ worker = "wait"
  /\ flag_notify \/ timeout
  /\ flag_notify' = FALSE
  /\ sleep_until' = Never
  /\ worker' = "tick"
  /\ UNCHANGED <<queueVars, now, tick, running>>

(* Waits for a notification only. *)
Mut_Wait == WaitUnless(FALSE)

(* flag_notify_.Wait(), with or without a time-out. *)
Wait == WaitUnless(sleep_until # Never /\ now >= sleep_until)

(* The task that ran is deleted and the loop goes on. *)
Done == /\ running' = NoTask
        /\ worker' = "tick"
        /\ tick' = 0
        /\ UNCHANGED sleep_until

(* The entries that have not been taken. *)
Queued == {pending_queue[i] : i \in DOMAIN pending_queue} \cup delayed_queue
==============================================================================

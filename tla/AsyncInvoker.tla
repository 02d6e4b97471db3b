----------------------------- MODULE AsyncInvoker -----------------------------
(***************************************************************************)
(* rtc::AsyncInvoker: calls a functor on another thread, and on            *)
(* destruction cancels the calls that have not started and waits for the   *)
(* ones that have.  The invoker lives on thread Main, which starts calls,  *)
(* flushes, clears and destroys it; the workers run the functors, and a    *)
(* functor may make one more call itself.  The owners of the workers quit  *)
(* them and destroy their Thread objects at any time.                      *)
(*                                                                         *)
(* A closure is an AsyncClosure object; live is the set that exists, and a *)
(* new call takes one that does not.  So a chain of calls never ends by    *)
(* itself: only destroying_ stops it.                                      *)
(***************************************************************************)
EXTENDS Thread

CONSTANTS Main,         \* the thread the invoker is used and destroyed on
          Closures,     \* the closures that can exist at once
          FlushTask     \* the task that Flush() sends to a worker

Workers == Threads \ {Main}

VARIABLES live,         \* the AsyncClosure objects that exist
          pending,      \* pending_invocations_
          complete,     \* invocation_complete_, an auto-reset event
          destroying,   \* destroying_
          own,          \* the closures on a thread's call stack, inner last
          target,       \* the thread of the call a thread is making
          delay,        \* whether that call is AsyncInvokeDelayed
          flushing,     \* whether a thread is in the loop of Flush()
          removed,      \* the messages Flush() took out and still has to run
          ready,        \* ready of Send()
          todo,         \* the queues ThreadManager::Clear has still to clear
          object,       \* Thread: running, quitting, joining, removed, gone
          owed          \* history: the calls the current Flush() has to run

threadVars == <<messages, delayed, due, event, stop, timer, msg>>
invokerVars == <<live, pending, complete, destroying, owed>>
callVars == <<own, target, delay, flushing, removed, ready>>
vars == <<threadVars, pc, invokerVars, callVars, todo, object>>

Init == /\ ThreadInit
        /\ pc = [t \in Threads |-> IF t = Main THEN "idle" ELSE "get"]
        /\ live = {}
        /\ pending = 0
        /\ complete = FALSE
        /\ destroying = FALSE
        /\ own = [t \in Threads |-> <<>>]
        /\ target = [t \in Threads |-> None]
        /\ delay = [t \in Threads |-> FALSE]
        /\ flushing = [t \in Threads |-> FALSE]
        /\ removed = [t \in Threads |-> <<>>]
        /\ ready = FALSE
        /\ todo = {}
        /\ object = [t \in Threads |-> "running"]
        /\ owed = {}

(* Where t goes on when a call is over: a functor returns and its closure   *)
(* is deleted, Flush() takes its next message, a thread its next message.   *)
Return(t) == IF own[t] # <<>> THEN "delete"
             ELSE IF flushing[t] THEN "flush"
             ELSE IF t = Main THEN "idle" ELSE "get"

CallOver(t) == /\ target' = [target EXCEPT ![t] = None]
               /\ delay' = [delay EXCEPT ![t] = FALSE]

-----------------------------------------------------------------------------
(* The life of a closure. *)

(* AsyncInvoke() and AsyncInvokeDelayed(): the constructor of AsyncClosure. *)
(* Main starts calls, and so does a functor that runs.  The caller answers  *)
(* for the Thread object.                                                   *)
AsyncInvoke(self, t) ==
  /\ pc[self] = "run" \/ (self = Main /\ pc[Main] = "idle")
  /\ object[t] \notin {"removed", "gone"}
  /\ \E c \in Closures \ live, d \in BOOLEAN :
       /\ live' = live \cup {c}
       /\ own' = [own EXCEPT ![self] = Append(@, c)]
       /\ delay' = [delay EXCEPT ![self] = d]
  /\ pending' = pending + 1
  /\ target' = [target EXCEPT ![self] = t]
  /\ GoTo(self, "invoke")
  /\ UNCHANGED <<threadVars, complete, destroying, owed, flushing, removed,
                 ready, todo, object>>

(* Does not test destroying_. *)
Mut_DoInvoke(self) ==
  /\ pc[self] = "invoke"
  /\ GoTo(self, "post")
  /\ UNCHANGED <<threadVars, invokerVars, callVars, todo, object>>

(* DoInvoke() and DoInvokeDelayed(): the test of destroying_. *)
DoInvoke(self) ==
  /\ pc[self] = "invoke"
  /\ GoTo(self, IF destroying THEN "delete" ELSE "post")
  /\ UNCHANGED <<threadVars, invokerVars, callVars, todo, object>>

(* The three steps of Post() or DoDelayPost(); a thread that quits does not *)
(* take the message, which is deleted.                                      *)
Post(self) ==
  \/ /\ pc[self] = "post"
     /\ PostCheck(self, target[self], "push", "delete")
     /\ UNCHANGED <<invokerVars, callVars, todo, object>>
  \/ /\ pc[self] = "push"
     /\ IF delay[self] THEN DelayPush(self, target[self], Last(own[self]), "wake")
                       ELSE PostPush(self, target[self], Last(own[self]), "wake")
     /\ own' = [own EXCEPT ![self] = Front(@)]
     /\ UNCHANGED <<invokerVars, target, delay, flushing, removed, ready, todo,
                    object>>
  \/ /\ pc[self] = "wake"
     /\ PostWake(self, target[self], Return(self))
     /\ CallOver(self)
     /\ UNCHANGED <<invokerVars, own, flushing, removed, ready, todo, object>>

(* ~AsyncClosure() of the innermost closure, one whose functor returned or   *)
(* one that could not be posted: first the counter, ...                      *)
Delete(self) ==
  /\ pc[self] \in {"run", "delete"}
  /\ live' = live \ {Last(own[self])}
  /\ owed' = owed \ {Last(own[self])}
  /\ pending' = pending - 1
  /\ own' = [own EXCEPT ![self] = Front(@)]
  /\ GoTo(self, "set")
  /\ CallOver(self)
  /\ UNCHANGED <<threadVars, complete, destroying, flushing, removed, ready,
                 todo, object>>

(* ... then the event, which outlives the invoker. *)
SetComplete(self) ==
  /\ pc[self] = "set"
  /\ complete' = TRUE
  /\ GoTo(self, Return(self))
  /\ UNCHANGED <<threadVars, live, pending, destroying, owed, callVars, todo,
                 object>>

(* ClearInternal() without a list deletes the messages it finds in queue t. *)
ClearQueue(t) ==
  LET gone == Waiting(t) \cap Closures
  IN  /\ ClearInternal(t, gone)
      /\ live' = live \ gone
      /\ owed' = owed \ gone
      /\ pending' = pending - Cardinality(gone)
      /\ complete' = (complete \/ gone # {})
      /\ UNCHANGED <<event, stop, timer, msg, destroying>>

-----------------------------------------------------------------------------
(* The message loop of a thread. *)

(* Get() of a worker; Main takes a message with ProcessMessages(0). *)
Get(self) ==
  /\ \/ pc[self] = "get" /\ GetMessage(self, "dispatch")
     \/ pc[self] = "get" /\ GetNothing(self, "quitting")
     \/ self = Main /\ pc[Main] = "idle" /\ GetMessage(self, "dispatch")
     \/ pc[self] = "quitting" /\ GetQuitting(self, "wait", "exit")
     \/ pc[self] = "wait" /\ Wait(self, TimesOut(self), "get")
  /\ UNCHANGED <<invokerVars, callVars, todo, object>>

(* Dispatch() of a closure: OnMessage() runs its functor. *)
OnMessage(self) ==
  /\ pc[self] = "dispatch" /\ msg[self] # FlushTask
  /\ own' = [own EXCEPT ![self] = <<msg[self]>>]
  /\ msg' = [msg EXCEPT ![self] = None]
  /\ GoTo(self, "run")
  /\ UNCHANGED <<messages, delayed, due, event, stop, timer, invokerVars,
                 target, delay, flushing, removed, ready, todo, object>>

(* Leaves the delayed calls. *)
Mut_FlushHere(self) ==
  /\ pc[self] = "dispatch" /\ msg[self] = FlushTask
  /\ removed' = [removed EXCEPT ![self] =
                   SelectSeq(messages[self], LAMBDA m : m \in Closures)]
  /\ ClearInternal(self, ToSet(removed'[self]))
  /\ msg' = [msg EXCEPT ![self] = None]
  /\ flushing' = [flushing EXCEPT ![self] = TRUE]
  /\ GoTo(self, "flush")
  /\ UNCHANGED <<event, stop, timer, invokerVars, own, target, delay, ready,
                 todo, object>>

(* Flush() on the thread it flushes: take the calls out of the queue, ... *)
FlushHere(self) ==
  /\ pc[self] = "dispatch" /\ msg[self] = FlushTask
  /\ \E late \in SetToSeqs(delayed[self]) :
       removed' = [removed EXCEPT ![self] =
                     SelectSeq(messages[self], LAMBDA m : m \in Closures) \o late]
  /\ ClearInternal(self, Closures)
  /\ msg' = [msg EXCEPT ![self] = None]
  /\ flushing' = [flushing EXCEPT ![self] = TRUE]
  /\ GoTo(self, "flush")
  /\ UNCHANGED <<event, stop, timer, invokerVars, own, target, delay, ready,
                 todo, object>>

(* ... run them one after the other, with a Send() to the own thread, ... *)
FlushNext(self) ==
  /\ pc[self] = "flush" /\ removed[self] # <<>>
  /\ own' = [own EXCEPT ![self] = <<Head(removed[self])>>]
  /\ removed' = [removed EXCEPT ![self] = Tail(@)]
  /\ GoTo(self, "run")
  /\ UNCHANGED <<threadVars, invokerVars, target, delay, flushing, ready, todo,
                 object>>

(* ... and return: a worker tells the sender, in the cleanup of its task.   *)
FlushReturns(self) ==
  /\ pc[self] = "flush" /\ removed[self] = <<>>
  /\ flushing' = [flushing EXCEPT ![self] = FALSE]
  /\ IF self = Main THEN UNCHANGED <<ready, event>> ELSE ready' = TRUE /\ WakeUp(Main)
  /\ GoTo(self, IF self = Main THEN "idle" ELSE "get")
  /\ UNCHANGED <<messages, delayed, due, stop, timer, msg, invokerVars, own,
                 target, delay, removed, todo, object>>

-----------------------------------------------------------------------------
(* What the owner of the invoker does on Main. *)

(* Flush(t).  A worker is sent a task with Send(), which must not meet a    *)
(* thread that quits (its assertion); on Main Flush() runs at once.         *)
Flush(t) ==
  /\ pc[Main] = "idle"
  /\ object[t] = "running"
  /\ ~destroying
  /\ owed' = Waiting(t) \cap Closures
  /\ ready' = FALSE
  /\ IF t = Main
       THEN /\ msg' = [msg EXCEPT ![Main] = FlushTask]
            /\ GoTo(Main, "dispatch")
            /\ UNCHANGED <<messages, delayed, due, event, stop, timer, target>>
       ELSE /\ PostPush(Main, t, FlushTask, "send_wake")
            /\ target' = [target EXCEPT ![Main] = t]
  /\ UNCHANGED <<live, pending, complete, destroying, own, delay, flushing,
                 removed, todo, object>>

(* Send() after the task is posted: wake the worker, wait until ready.  Who *)
(* waited may have used up a wake-up for a message, and wakes itself up.    *)
Send ==
  /\ \/ /\ pc[Main] = "send_wake"
        /\ PostWake(Main, target[Main], "send_check")
        /\ UNCHANGED <<target, ready>>
     \/ /\ pc[Main] \in {"send_check", "send_waited"} /\ ~ready
        /\ GoTo(Main, "send_wait")
        /\ UNCHANGED <<threadVars, target, ready>>
     \/ /\ pc[Main] = "send_wait"
        /\ Wait(Main, FALSE, "send_waited")
        /\ UNCHANGED <<target, ready>>
     \/ /\ pc[Main] \in {"send_check", "send_waited"} /\ ready
        /\ IF pc[Main] = "send_waited" THEN WakeUp(Main) ELSE UNCHANGED event
        /\ GoTo(Main, "idle")
        /\ target' = [target EXCEPT ![Main] = None]
        /\ ready' = FALSE
        /\ UNCHANGED <<messages, delayed, due, stop, timer, msg>>
  /\ UNCHANGED <<invokerVars, own, delay, flushing, removed, todo, object>>

(* Clear(), and the start of the destructor: ThreadManager::Clear goes over *)
(* the queues that are registered.                                          *)
Clear(destroy) ==
  /\ pc[Main] = "idle"
  /\ ~destroying
  /\ destroying' = destroy
  /\ todo' = {t \in Threads : object[t] \notin {"removed", "gone"}}
  /\ GoTo(Main, "clear")
  /\ UNCHANGED <<threadVars, live, pending, complete, owed, callVars, object>>

ClearAll ==
  /\ pc[Main] = "clear"
  /\ \/ \E t \in todo : /\ ClearQueue(t)
                        /\ todo' = todo \ {t}
                        /\ UNCHANGED pc
     \/ /\ todo = {}
        /\ GoTo(Main, IF destroying THEN "count" ELSE "idle")
        /\ UNCHANGED <<threadVars, invokerVars, todo>>
  /\ UNCHANGED <<callVars, object>>

(* Waits only once. *)
Mut_Destroy ==
  /\ \/ /\ pc[Main] = "count"
        /\ GoTo(Main, IF pending > 0 THEN "reclear" ELSE "destroyed")
        /\ UNCHANGED <<threadVars, invokerVars>>
     \/ pc[Main] = "reclear" /\ ClearQueue(Main) /\ GoTo(Main, "await")
     \/ /\ pc[Main] = "await" /\ complete
        /\ complete' = FALSE
        /\ GoTo(Main, "destroyed")
        /\ UNCHANGED <<threadVars, live, pending, destroying, owed>>
  /\ UNCHANGED <<callVars, todo, object>>

(* The loop of ~AsyncInvoker(): leave when no closure is left, else clear   *)
(* the own queue once more and wait for the end of a closure.               *)
Destroy ==
  /\ \/ /\ pc[Main] = "count"
        /\ GoTo(Main, IF pending > 0 THEN "reclear" ELSE "destroyed")
        /\ UNCHANGED <<threadVars, invokerVars>>
     \/ pc[Main] = "reclear" /\ ClearQueue(Main) /\ GoTo(Main, "await")
     \/ /\ pc[Main] = "await" /\ complete
        /\ complete' = FALSE
        /\ GoTo(Main, "count")
        /\ UNCHANGED <<threadVars, live, pending, destroying, owed>>
  /\ UNCHANGED <<callVars, todo, object>>

-----------------------------------------------------------------------------
(* What the owner of worker t does. *)

(* Quit(): not while Main sends to t. *)
Quit(t) ==
  /\ \/ /\ object[t] = "running"
        /\ pc[Main] \in {"send_wake", "send_check", "send_wait", "send_waited"}
             => target[Main] # t
        /\ QuitStore(t)
        /\ object' = [object EXCEPT ![t] = "quitting"]
     \/ /\ object[t] = "quitting"
        /\ WakeUp(t)
        /\ object' = [object EXCEPT ![t] = "joining"]
        /\ UNCHANGED <<messages, delayed, due, stop, timer, msg, pc>>
  /\ UNCHANGED <<invokerVars, callVars, todo>>

Calling(u, t) == target[u] = t /\ pc[u] \in {"invoke", "post", "push", "wake"}

(* ~Thread(): the thread has been joined and nobody is in a call to it.     *)
(* RemoveInternal() waits for a ThreadManager::Clear, then the queue goes.  *)
DestroyThread(t) ==
  /\ \/ /\ object[t] = "joining" /\ pc[t] = "exit" /\ pc[Main] # "clear"
        /\ \A u \in Threads : ~Calling(u, t)
        /\ object' = [object EXCEPT ![t] = "removed"]
        /\ UNCHANGED <<threadVars, invokerVars>>
     \/ /\ object[t] = "removed"
        /\ ClearQueue(t)
        /\ object' = [object EXCEPT ![t] = "gone"]
  /\ UNCHANGED <<pc, callVars, todo>>

-----------------------------------------------------------------------------
Expired(c) == Expire(c) /\ UNCHANGED <<invokerVars, callVars, todo, object>>

(* The steps that t takes by itself once a call or a message started them.  *)
Step(t) == \/ DoInvoke(t) \/ Post(t) \/ Delete(t) \/ SetComplete(t) \/ OnMessage(t)
           \/ FlushHere(t) \/ FlushNext(t) \/ FlushReturns(t)

Next == \/ \E t \in Threads : Step(t) \/ Get(t) \/ Flush(t)
        \/ \E s, t \in Threads : AsyncInvoke(s, t)
        \/ \E d \in BOOLEAN : Clear(d)
        \/ Send \/ ClearAll \/ Destroy
        \/ \E c \in Closures : Expired(c)
        \/ \E t \in Workers : Quit(t) \/ DestroyThread(t)

(* What t does as long as it is scheduled, and what who told it to quit     *)
(* goes on to do.                                                           *)
Run(t) == \/ Step(t)
          \/ t = Main /\ (Send \/ ClearAll \/ Destroy)
          \/ t \in Workers /\ Get(t)
Join(t) == (object[t] = "quitting" /\ Quit(t)) \/ DestroyThread(t)

(* Threads are scheduled, functors return, time passes, and who quits a     *)
(* thread goes on to destroy it.  Main is free to do nothing between two    *)
(* calls, and nothing makes a worker quit.                                  *)
Fairness == /\ \A t \in Threads : WF_vars(Run(t))
            /\ \A t \in Workers : WF_vars(Join(t))
            /\ \A c \in Closures : WF_vars(Expired(c))

Spec == Init /\ [][Next]_vars /\ Fairness

-----------------------------------------------------------------------------
(* Properties. *)

(* When ~AsyncInvoker() has returned, no closure is left: none waits in a   *)
(* queue or in a list of Flush(), none was taken out to be dispatched, and  *)
(* no thread runs one, builds one or is about to use the counter.  The      *)
(* destructor may return while a closure still has its event to set.        *)
NoUseAfterDestroy ==
  pc[Main] = "destroyed" =>
    \A t \in Threads : /\ Waiting(t) \cap Closures = {}
                       /\ msg[t] \notin Closures
                       /\ removed[t] = <<>>
                       /\ own[t] = <<>>

(* No wake-up is lost: a worker does not sleep on a queue with a message,   *)
(* or beyond the time of a delayed one, or though it was told to quit,      *)
(* unless its event is set or the thread that posted the message, or told   *)
(* it to quit, has still to set it.                                         *)
NoLostWakeup ==
  \A t \in Workers :
    pc[t] = "wait" /\ ~event[t] =>
      /\ messages[t] # <<>> \/ ~(delayed[t] \subseteq timer[t]) =>
           \E u \in Threads : target[u] = t /\ pc[u] \in {"wake", "send_wake"}
      /\ object[t] # "joining"

(* Flush() returns only after every call that waited in the queue when it   *)
(* was called, a delayed one too, has been run to its end.                  *)
FlushCompletes == pc[Main] = "idle" => owed = {}

(* ~AsyncInvoker() returns, though functors make new calls for as long as   *)
(* they may and threads quit with messages in their queues.                 *)
DestructorReturns == destroying ~> pc[Main] = "destroyed"
==============================================================================

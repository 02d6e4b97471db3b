------------------------------- MODULE MCQueues -------------------------------
(* The queues between threads, for TLC, side by side: a behaviour is one of   *)
(* the SwapQueue, of its users RuntimeSettings and StatsReporter, or of       *)
(* AsyncInvoker on the message queues of Thread; the other machines stay in   *)
(* their initial state.                                                       *)
(*                                                                            *)
(* A ring of three slots and two distinguishable contents: the indices wrap   *)
(* while both threads are in the middle of a call.  Three types of settings,  *)
(* one of them without its submodule, set in turn.  Two monitors.  The thread *)
(* of the invoker, one worker and two closures.                               *)
EXTENDS SwapQueue, SwapQueueUsers

CONSTANTS MessageThreads, None, Main, Closures, FlushTask

VARIABLES machine,
          messages, delayed, due, event, stop, timer, msg, thread_pc, live,
          pending, complete, destroying, own, target, delay, flushing, removed, ready,
          todo, object, owed

A == INSTANCE AsyncInvoker WITH Threads <- MessageThreads, pc <- thread_pc

MCKinds == {"volume", "pre_gain", "post_gain"}
MCActive == {"volume", "pre_gain"}
MCKindOf == [s \in 1 .. MaxSettings |-> IF s % 3 = 0 THEN "post_gain"
                                        ELSE IF s % 3 = 1 THEN "volume"
                                        ELSE "pre_gain"]

invokerVars == <<messages, delayed, due, event, stop, timer, msg, thread_pc,
                 live, pending, complete, destroying, own, target, delay, flushing,
                 removed, ready, todo, object, owed>>
all == <<machine, vars, pipeVars, statsVars, invokerVars>>

AllInit == /\ machine \in {"queue", "settings", "stats", "invoker"}
           /\ Init /\ R!Init /\ S!Init /\ A!Init

Queue(Step) == /\ machine = "queue" /\ Step
               /\ UNCHANGED <<machine, pipeVars, statsVars, invokerVars>>
Pipe(Step) == /\ machine = "settings" /\ Step
              /\ UNCHANGED <<machine, vars, statsVars, invokerVars>>
Stats(Step) == /\ machine = "stats" /\ Step
               /\ UNCHANGED <<machine, vars, pipeVars, invokerVars>>
Invoker(Step) == /\ machine = "invoker" /\ Step
                 /\ UNCHANGED <<machine, vars, pipeVars, statsVars>>

AllNext == Queue(Next) \/ Pipe(R!Next) \/ Stats(S!Next) \/ Invoker(A!Next)

(* The fairness that each machine has in its module.                          *)
AllSpec ==
  /\ AllInit /\ [][AllNext]_all
  /\ WF_vars(machine = "queue" /\ InsertStep)
  /\ WF_vars(machine = "queue" /\ RemoveCall)
  /\ WF_vars(machine = "queue" /\ RemoveStep)
  /\ WF_vars(machine = "queue" /\ ClearSkip)
  /\ WF_pipeVars(machine = "settings" /\ R!EnqueueStep)
  /\ WF_pipeVars(machine = "settings" /\ R!HandleCaptureRuntimeSettings)
  /\ WF_pipeVars(machine = "settings" /\ R!RemoveStep("capture"))
  /\ \A t \in MessageThreads : WF_invokerVars(machine = "invoker" /\ A!Run(t))
  /\ \A t \in A!Workers : WF_invokerVars(machine = "invoker" /\ A!Join(t))
  /\ \A c \in Closures : WF_invokerVars(machine = "invoker" /\ A!Expired(c))

(* When ~AsyncInvoker() has returned no closure is left anywhere, and none is *)
(* about to use its counter (AsyncInvoker).                                   *)
NoUseAfterDestroy == A!NoUseAfterDestroy

(* A thread does not sleep on a message, past the time of a delayed one, or   *)
(* though it has to quit, unless the one who posted has still to wake it up   *)
(* (AsyncInvoker and Thread).                                                 *)
ThreadIsWoken == A!NoLostWakeup

(* Flush() returns only when the calls that waited, delayed ones too, have    *)
(* been run (AsyncInvoker).                                                   *)
FlushCompletes == A!FlushCompletes

(* ~AsyncInvoker() returns, though functors make new calls and threads quit   *)
(* with messages in their queues (AsyncInvoker).                              *)
DestructorReturns == A!DestructorReturns
==============================================================================

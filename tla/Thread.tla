-------------------------------- MODULE Thread --------------------------------
(***************************************************************************)
(* rtc::Thread: a thread with a message queue.  Any thread posts messages  *)
(* to any queue under the queue's lock and then wakes the owner up; the    *)
(* owner takes them out one at a time, sleeps on an auto-reset event when  *)
(* the queue is empty, and leaves once it is empty and Quit() was called.  *)
(* This module has the steps of the queue; what a message does when it is  *)
(* dispatched, and where a thread goes after a call, is up to the module   *)
(* that uses it (AsyncInvoker), through the places the steps are given.    *)
(*                                                                         *)
(* A critical section of crit_ is one step.  What a call does outside of   *)
(* it (the test of stop_, the wake-up) is a step of its own.               *)
(***************************************************************************)
EXTENDS Naturals, Sequences, FiniteSets, SequencesExt

CONSTANTS Threads,      \* the threads with a message queue
          None

VARIABLES messages,     \* messages_: the queue of every thread
          delayed,      \* delayed_messages_ of every thread, as a set
          due,          \* the delayed messages whose run_time_ms_ has come
          event,        \* the event of the NullSocketServer
          stop,         \* stop_
          timer,        \* the delayed messages one of which ends a wait
          msg,          \* the message a thread got and has not finished
          pc            \* where every thread is

ThreadInit == /\ messages = [t \in Threads |-> <<>>]
              /\ delayed = [t \in Threads |-> {}]
              /\ due = {}
              /\ event = [t \in Threads |-> FALSE]
              /\ stop = [t \in Threads |-> FALSE]
              /\ timer = [t \in Threads |-> {}]
              /\ msg = [t \in Threads |-> None]

GoTo(t, place) == pc' = [pc EXCEPT ![t] = place]

(* SocketServer::WakeUp(): Event::Set(). *)
WakeUp(t) == event' = [event EXCEPT ![t] = TRUE]

(* The test of IsQuitting() at the start of Post() and DoDelayPost(). *)
PostCheck(self, t, push, drop) ==
  /\ GoTo(self, IF stop[t] THEN drop ELSE push)
  /\ UNCHANGED <<messages, delayed, due, event, stop, timer, msg>>

(* The critical section of Post(). *)
PostPush(self, t, m, wake) ==
  /\ messages' = [messages EXCEPT ![t] = Append(@, m)]
  /\ GoTo(self, wake)
  /\ UNCHANGED <<delayed, due, event, stop, timer, msg>>

(* The critical section of DoDelayPost(). *)
DelayPush(self, t, m, wake) ==
  /\ delayed' = [delayed EXCEPT ![t] = @ \cup {m}]
  /\ GoTo(self, wake)
  /\ UNCHANGED <<messages, due, event, stop, timer, msg>>

(* WakeUpSocketServer() at the end of Post() and DoDelayPost(). *)
PostWake(self, t, return) ==
  /\ WakeUp(t)
  /\ GoTo(self, return)
  /\ UNCHANGED <<messages, delayed, due, stop, timer, msg>>

(* The clock reaches the time of a delayed message. *)
Expire(m) ==
  /\ m \notin due
  /\ \E t \in Threads : m \in delayed[t]
  /\ due' = due \cup {m}
  /\ UNCHANGED <<messages, delayed, event, stop, timer, msg, pc>>

(* The critical section of Get(): the delayed messages that are due go to   *)
(* the queue, in the order of their times, and the first message is taken.  *)
GetMessage(self, dispatch) ==
  \E moved \in SetToSeqs(delayed[self] \cap due) :
    LET queue == messages[self] \o moved
    IN  /\ queue # <<>>
        /\ msg' = [msg EXCEPT ![self] = Head(queue)]
        /\ messages' = [messages EXCEPT ![self] = Tail(queue)]
        /\ delayed' = [delayed EXCEPT ![self] = @ \ due]
        /\ due' = due \ delayed[self]
        /\ GoTo(self, dispatch)
        /\ UNCHANGED <<event, stop, timer>>

(* The same when there is no message: cmsDelayNext is the time to the first *)
(* of the delayed messages, and Get() goes on to test IsQuitting().         *)
GetNothing(self, quitting) ==
  /\ messages[self] = <<>>
  /\ delayed[self] \cap due = {}
  /\ timer' = [timer EXCEPT ![self] = delayed[self]]
  /\ GoTo(self, quitting)
  /\ UNCHANGED <<messages, delayed, due, event, stop, msg>>

(* Resets the event before the wait. *)
Mut_GetQuitting(self, wait, exit) ==
  /\ GoTo(self, IF stop[self] THEN exit ELSE wait)
  /\ event' = [event EXCEPT ![self] = FALSE]
  /\ UNCHANGED <<messages, delayed, due, stop, timer, msg>>

(* Get() without a message: leave if the thread is quitting, else wait. *)
GetQuitting(self, wait, exit) ==
  /\ GoTo(self, IF stop[self] THEN exit ELSE wait)
  /\ UNCHANGED <<messages, delayed, due, event, stop, timer, msg>>

(* The time has come that Get() computed before it waits.  It comes also    *)
(* for a message that has been cleared since; what was posted since needs a *)
(* wake-up.                                                                 *)
TimesOut(self) == \E m \in timer[self] : m \in due \/ m \notin delayed[self]

(* NullSocketServer::Wait(): until the event is set, which resets it, or    *)
(* until the time given has passed.                                         *)
Wait(self, timeout, next) ==
  /\ event[self] \/ timeout
  /\ event' = [event EXCEPT ![self] = FALSE]
  /\ timer' = [timer EXCEPT ![self] = {}]
  /\ GoTo(self, next)
  /\ UNCHANGED <<messages, delayed, due, stop, msg>>

(* Quit(): stop_ is stored first, the wake-up is a PostWake later. *)
QuitStore(t) ==
  /\ stop' = [stop EXCEPT ![t] = TRUE]
  /\ UNCHANGED <<messages, delayed, due, event, timer, msg, pc>>

(* ClearInternal(): the messages in set gone leave queue t. *)
ClearInternal(t, gone) ==
  /\ messages' = [messages EXCEPT ![t] = SelectSeq(@, LAMBDA m : m \notin gone)]
  /\ delayed' = [delayed EXCEPT ![t] = @ \ gone]
  /\ due' = due \ (delayed[t] \cap gone)

(* The messages that wait in queue t. *)
Waiting(t) == ToSet(messages[t]) \cup delayed[t]
==============================================================================

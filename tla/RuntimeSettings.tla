--------------------------- MODULE RuntimeSettings ---------------------------
(***************************************************************************)
(* SetRuntimeSetting() of AudioProcessingImpl: the application thread      *)
(* hands settings to the capture (or the render) thread through a          *)
(* SwapQueue.  When the queue is full the application itself removes the   *)
(* oldest setting, so that both threads may be inside Remove().            *)
(*                                                                         *)
(* Settings are numbered in the order of the SetRuntimeSetting() calls; 0  *)
(* is the empty RuntimeSetting of a default-constructed slot.              *)
(***************************************************************************)
EXTENDS Integers, Sequences, FiniteSets

CONSTANTS Size,         \* kRuntimeSettingQueueSize
          MaxSettings,  \* bound on the number of SetRuntimeSetting() calls
          Modulus,      \* number of values of size_t
          Attempts,     \* remaining_attempts at the start of Enqueue()
          Kinds,        \* types of settings: pre-gain, volume, ...
          KindOf,       \* the type of each setting
          Active,       \* types whose submodule exists
          Overlap       \* may Enqueue() discard while a thread handles settings?

RuntimeSettingsAssumption ==
  /\ Size \in Nat \ {0}
  /\ MaxSettings \in Nat
  /\ Modulus \in Nat /\ Modulus > Size + 1
  /\ Attempts \in Nat \ {0}
  /\ KindOf \in [1 .. MaxSettings -> Kinds]
  /\ Active \subseteq Kinds
  /\ Overlap \in BOOLEAN

VARIABLES queue, num_elements, next_write_index, next_read_index,
          pc,         \* where the two threads are, "app" and "capture"
          setting,    \* the RuntimeSetting each of them swaps with
          index,      \* next_read_index_ as each of them last read it
          offered,    \* Enqueue()'s parameter
          remaining,  \* remaining_attempts
          last,       \* the latest setting passed to SetRuntimeSetting()
          handled,    \* settings handled by the capture thread, in order
          discarded,  \* settings Enqueue() threw away
          applied     \* the setting in effect, of each type

vars == <<queue, num_elements, next_write_index, next_read_index, pc, setting,
          index, offered, remaining, last, handled, discarded, applied>>
queueVars == <<queue, num_elements, next_write_index, next_read_index>>
results == <<handled, discarded, applied>>
enqueueVars == <<next_write_index, offered, remaining, last>>

Empty == 0
Settings == 1 .. MaxSettings
Slots == 0 .. Size - 1
Threads == {"app", "capture"}
Next1(i) == IF i + 1 = Size THEN 0 ELSE i + 1

Init == /\ queue = [s \in Slots |-> Empty]
        /\ num_elements = 0
        /\ next_write_index = 0
        /\ next_read_index = 0
        /\ pc = [t \in Threads |-> "idle"]
        /\ setting = [t \in Threads |-> Empty]
        /\ index = [t \in Threads |-> 0]
        /\ offered = Empty
        /\ remaining = Attempts
        /\ last = Empty
        /\ handled = <<>>
        /\ discarded = {}
        /\ applied = [k \in Kinds |-> Empty]

Goto(t, l) == pc' = [pc EXCEPT ![t] = l]

-----------------------------------------------------------------------------
(* Enqueue() *)

(* SetRuntimeSetting() picks the queue and calls Enqueue(). *)
SetRuntimeSetting == /\ pc["app"] = "idle"
                     /\ last < MaxSettings
                     /\ Overlap \/ pc["capture"] = "idle" \/ num_elements < Size
                     /\ last' = last + 1
                     /\ offered' = last + 1
                     /\ remaining' = Attempts
                     /\ Goto("app", "insert")
                     /\ UNCHANGED <<queueVars, setting, index, results>>

(* Gives up as soon as the queue is full. *)
Mut_InsertLoad == /\ pc["app"] = "insert"
                  /\ Goto("app", IF num_elements # Size THEN "fill" ELSE "idle")
                  /\ UNCHANGED <<queueVars, remaining, setting, index, offered,
                                 last, results>>

(* The load of Insert(), and the loop's test when the queue is full: the   *)
(* test of remaining_attempts decrements it even when it is 0.             *)
InsertLoad ==
  /\ pc["app"] = "insert"
  /\ IF num_elements # Size
       THEN Goto("app", "fill") /\ UNCHANGED <<remaining, setting>>
       ELSE /\ remaining' = (remaining - 1) % Modulus
            /\ Goto("app", IF remaining > 0 THEN "load" ELSE "idle")
            /\ setting' = [setting EXCEPT !["app"] = Empty]
  /\ UNCHANGED <<queueVars, index, offered, last, results>>

InsertSwap == /\ pc["app"] = "fill"
              /\ queue' = [queue EXCEPT ![next_write_index] = offered]
              /\ offered' = queue[next_write_index]
              /\ Goto("app", "add")
              /\ UNCHANGED <<num_elements, next_write_index, next_read_index,
                             setting, index, remaining, last, results>>

(* The fetch_add; next_write_index_ belongs to this thread. *)
InsertAdd == /\ pc["app"] = "add"
             /\ num_elements' = (num_elements + 1) % Modulus
             /\ next_write_index' = Next1(next_write_index)
             /\ Goto("app", "idle")
             /\ UNCHANGED <<queue, next_read_index, setting, index, offered,
                            remaining, last, results>>

-----------------------------------------------------------------------------
(* Remove(), called by both threads.  next_read_index_ is not atomic: each *)
(* thread reads it for its swap and again for its increment.               *)

(* Enqueue() has found the queue full, or is about to. *)
Discarding == \/ pc["app"] \in {"load", "swap", "sub", "advance"}
              \/ pc["app"] = "insert" /\ num_elements = Size

(* ProcessCaptureStreamLocked() calls HandleCaptureRuntimeSettings(). *)
HandleCaptureRuntimeSettings ==
  /\ pc["capture"] = "idle"
  /\ Overlap \/ ~ Discarding
  /\ setting' = [setting EXCEPT !["capture"] = Empty]
  /\ Goto("capture", "load")
  /\ UNCHANGED <<queueVars, index, offered, remaining, last, results>>

(* What RemoveLoad does when empty is the test that ends Remove(). *)
RemoveLoadWhen(t, empty) ==
  /\ pc[t] = "load"
  /\ Goto(t, IF ~ empty THEN "swap"
             ELSE IF t = "app" THEN "insert" ELSE "idle")
  /\ UNCHANGED <<queueVars, setting, index, offered, remaining, last, results>>

Mut_RemoveLoadLast(t) == RemoveLoadWhen(t, num_elements <= 1)

(* The test for an empty queue: the capture thread's loop ends, Enqueue()  *)
(* goes back to Insert().                                                  *)
RemoveLoad(t) == RemoveLoadWhen(t, num_elements = 0)

(* The swap with the oldest element. *)
RemoveSwap(t) ==
  /\ pc[t] = "swap"
  /\ queue' = [queue EXCEPT ![next_read_index] = setting[t]]
  /\ setting' = [setting EXCEPT ![t] = queue[next_read_index]]
  /\ Goto(t, "sub")
  /\ UNCHANGED <<num_elements, next_read_index, index, enqueueVars, results>>

RemoveSub(t) == /\ pc[t] = "sub"
                /\ num_elements' = (num_elements - 1) % Modulus
                /\ index' = [index EXCEPT ![t] = next_read_index]
                /\ Goto(t, "advance")
                /\ UNCHANGED <<queue, next_read_index, setting, enqueueVars,
                               results>>

(* Enqueue() drops what it removed and tries Insert() again. *)
Discard == /\ discarded' = discarded \cup {setting["app"]}
           /\ Goto("app", "insert")
           /\ UNCHANGED <<handled, applied>>

(* The switch of HandleCaptureRuntimeSettings(): a setting whose submodule *)
(* exists becomes the one in effect, and the loop goes on.                 *)
Handle(s) == /\ handled' = Append(handled, s)
             /\ applied' = IF s # Empty /\ KindOf[s] \in Active
                             THEN [applied EXCEPT ![KindOf[s]] = s]
                             ELSE applied
             /\ Goto("capture", "load")
             /\ UNCHANGED discarded

(* The write of next_read_index_, and what the caller does with the        *)
(* setting.                                                                *)
RemoveAdvance(t) ==
  /\ pc[t] = "advance"
  /\ next_read_index' = Next1(index[t])
  /\ IF t = "app" THEN Discard ELSE Handle(setting[t])
  /\ UNCHANGED <<queue, num_elements, setting, index, enqueueVars>>

RemoveStep(t) == RemoveLoad(t) \/ RemoveSwap(t) \/ RemoveSub(t)
                 \/ RemoveAdvance(t)
EnqueueStep == InsertLoad \/ InsertSwap \/ InsertAdd \/ RemoveStep("app")

Next == \/ SetRuntimeSetting
        \/ EnqueueStep
        \/ HandleCaptureRuntimeSettings
        \/ RemoveStep("capture")

Spec == Init /\ [][Next]_vars

(* A thread inside a call keeps running, and ProcessStream() keeps being   *)
(* called.                                                                 *)
Fairness == /\ WF_vars(EnqueueStep)
            /\ WF_vars(HandleCaptureRuntimeSettings)
            /\ WF_vars(RemoveStep("capture"))
FairSpec == Spec /\ Fairness

-----------------------------------------------------------------------------
(* The settings the queue holds, oldest first. *)
Pending == [k \in 1 .. num_elements |-> queue[(next_read_index + k - 1) % Size]]
Quiet == \A t \in Threads : pc[t] = "idle"

TypeOK == /\ queue \in [Slots -> {Empty} \cup Settings]
          /\ num_elements \in 0 .. Modulus - 1
          /\ next_write_index \in Slots
          /\ next_read_index \in Slots
          /\ pc["app"] \in {"idle", "insert", "fill", "add", "load", "swap",
                            "sub", "advance"}
          /\ pc["capture"] \in {"idle", "load", "swap", "sub", "advance"}
          /\ setting \in [Threads -> {Empty} \cup Settings]
          /\ index \in [Threads -> Slots]
          /\ offered \in {Empty} \cup Settings
          /\ remaining \in 0 .. Modulus - 1
          /\ last \in 0 .. MaxSettings
          /\ handled \in Seq({Empty} \cup Settings)
          /\ discarded \subseteq {Empty} \cup Settings
          /\ applied \in [Kinds -> {Empty} \cup Settings]

(* The element count never exceeds the queue (the DCHECK of line 159 of    *)
(* swap_queue.h): size_t does not wrap below 0.                            *)
CountInRange == num_elements \in 0 .. Size

(* Between calls every setting ever set is handled, discarded or pending,  *)
(* exactly once, and the pending ones are the latest: discarding takes the *)
(* oldest first and never the new one (lines 777-782 of                    *)
(* audio_processing_impl.cc).                                              *)
LatestPending ==
  Quiet => /\ Pending = [k \in 1 .. num_elements |-> last - num_elements + k]
           /\ {handled[k] : k \in DOMAIN handled} \cap discarded = {}
           /\ Len(handled) + Cardinality(discarded) + num_elements = last

(* As long as the stream runs, what is in effect catches up, again and    *)
(* again, with the latest setting of each type that was not discarded.     *)
CatchesUp ==
  []<>(\A k \in Active :
         LET sent == {s \in 1 .. last : KindOf[s] = k} \ discarded
         IN sent # {} => /\ applied[k] \in sent
                         /\ \A s \in sent : s <= applied[k])
=============================================================================

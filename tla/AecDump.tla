------------------------------- MODULE AecDump -------------------------------
(***************************************************************************)
(* The recording of an AudioProcessing: AecDumpImpl on its task queue, and *)
(* AudioProcessingImpl as far as it records.  The capture thread records   *)
(* under crit_capture_, the render thread under crit_render_, and the      *)
(* control thread attaches and detaches dumps under both; the worker of    *)
(* the task queue writes the events to the file, up to a number of bytes.  *)
(*                                                                         *)
(* An event is its type and what the properties tell apart: the value of a *)
(* CONFIG, and of a STREAM the numbers of the calls whose input it holds   *)
(* and of the one whose output it holds.  The task queue is what TaskQueue *)
(* shows of it: a thread that takes the tasks without delay one after the  *)
(* other in the order they were posted, and in the end all of them.        *)
(***************************************************************************)
EXTENDS Integers, Sequences, FiniteSets, SequencesExt

CONSTANTS Dumps,          \* the dumps that can exist at once
          None,
          Configs,        \* the values of InternalAPMConfig
          Default,        \* the one an AudioProcessing is made with
          Limit,          \* max_log_size_bytes of each dump
          Bytes,          \* the bytes an event of each type takes in the file
          RenderSettings, \* does the render thread get runtime settings?
          MaxEvents,      \* bound: with as many events no new call is recorded
          MaxCalls        \* bound: the calls of ProcessStream()

AecDumpAssumption == /\ MaxEvents \in Nat /\ MaxCalls \in Nat
                     /\ RenderSettings \in BOOLEAN
                     /\ Limit \in [Dumps -> Int]
                     /\ \A t \in DOMAIN Bytes : Bytes[t] \in Nat \ {0}

VARIABLES queue,          \* worker_queue_: the tasks that are posted
          running,        \* the task its thread has taken, or None
          aec_dump,       \* aec_dump_, or None
          config,         \* the configuration of the moment
          logged,         \* apm_config_for_aec_dump_
          crit_render,    \* the thread that holds the lock, or None
          crit_capture,
          pc,             \* where the three threads are
          old,            \* the dump the control thread is destroying
          calls,          \* the calls of ProcessStream() so far
          inputs,         \* of each dump: the inputs in capture_stream_info_
          left,           \* of each dump: num_bytes_left_for_log_
          file,           \* of each dump: the events in the file
          posted,         \* history: the events given to each dump
          alive,          \* the dumps that exist
          access_count,   \* race_checker_ of each dump
          accessing,      \* accessing_thread_
          count           \* what a thread read in access_count_++ or --

apmVars == <<aec_dump, config, logged, crit_render, crit_capture, old, calls>>
fileVars == <<left, file, alive>>
raceVars == <<access_count, accessing, count>>
vars == <<queue, running, apmVars, pc, inputs, fileVars, posted, raceVars>>

Threads == {"capture", "render", "control"}
GoTo(t, place) == pc' = [pc EXCEPT ![t] = place]

Init == /\ queue = <<>>
        /\ running = None
        /\ aec_dump = None
        /\ config = Default
        /\ logged = None
        /\ crit_render = None /\ crit_capture = None
        /\ pc = [t \in Threads |-> "idle"]
        /\ old = None
        /\ calls = 0
        /\ inputs = [d \in Dumps |-> <<>>]
        /\ left = [d \in Dumps |-> 0]
        /\ file = [d \in Dumps |-> <<>>]
        /\ posted = [d \in Dumps |-> <<>>]
        /\ alive = {}
        /\ access_count = [d \in Dumps |-> 0]
        /\ accessing = [d \in Dumps |-> None]
        /\ count = [t \in Threads |-> 0]

-----------------------------------------------------------------------------
(* AecDumpImpl: the Write methods post one task for each event. *)

ConfigEvent(c) == [type |-> "CONFIG", config |-> c]
StreamEvent(ins, out) == [type |-> "STREAM", inputs |-> ins, output |-> out]
OtherEvent(type) == [type |-> type]

(* Posts the tasks for a sequence of events of dump d. *)
Write(d, events) ==
  /\ queue' = queue \o [i \in DOMAIN events |-> [dump |-> d, event |-> events[i]]]
  /\ posted' = [posted EXCEPT ![d] = @ \o events]

WriteNothing == UNCHANGED <<queue, posted>>

(* WriteToFileTask::IsRoomForNextEvent() *)
IsRoomForNextEvent(d, e) == left[d] < 0 \/ left[d] >= Bytes[e.type]

WriteToFile(d, e, full) ==
  IF IsRoomForNextEvent(d, e)
    THEN /\ file' = [file EXCEPT ![d] = Append(@, e)]
         /\ left' = [left EXCEPT ![d] = IF @ >= 0 THEN @ - Bytes[e.type] ELSE @]
    ELSE /\ left' = [left EXCEPT ![d] = full]
         /\ UNCHANGED file

(* Leaves the number of bytes as it is when there is no room. *)
Mut_WriteEvent(d, e) == WriteToFile(d, e, left[d])

(* WriteToFileTask::Run(), with UpdateBytesLeft(): once there is no room no *)
(* further event is written.                                                *)
WriteEvent(d, e) == WriteToFile(d, e, 0)

(* The thread of the queue takes a task, ... *)
Take == /\ running = None /\ queue # <<>>
        /\ running' = Head(queue)
        /\ queue' = Tail(queue)
        /\ UNCHANGED <<apmVars, pc, inputs, fileVars, posted, raceVars>>

(* ... and runs it: an event, or the task with which the destructor of a    *)
(* dump waits for those before it.                                          *)
Run == /\ running # None
       /\ IF running.event.type = "SYNC"
            THEN GoTo("control", "synced") /\ UNCHANGED fileVars
            ELSE WriteEvent(running.dump, running.event) /\ UNCHANGED <<alive, pc>>
       /\ running' = None
       /\ UNCHANGED <<queue, apmVars, inputs, posted, raceVars>>

-----------------------------------------------------------------------------
(* RaceChecker: access_count_ and accessing_thread_ are not synchronized.   *)

(* Acquire(): access_count_++ is a load and a store, ... *)
AcquireLoad(t) ==
  /\ pc[t] = "setting"
  /\ count' = [count EXCEPT ![t] = access_count[aec_dump]]
  /\ GoTo(t, "acquire")
  /\ UNCHANGED <<queue, running, apmVars, inputs, fileVars,
                 posted, access_count, accessing>>

(* ... and the first user becomes the accessing thread. *)
AcquireStore(t) ==
  /\ pc[t] = "acquire"
  /\ access_count' = [access_count EXCEPT ![aec_dump] = count[t] + 1]
  /\ accessing' = [accessing EXCEPT ![aec_dump] = IF count[t] = 0 THEN t ELSE @]
  /\ GoTo(t, "write_setting")
  /\ UNCHANGED <<queue, running, apmVars, inputs, fileVars,
                 posted, count>>

(* WriteRuntimeSetting(), whose first statement fails if there is a race.   *)
(* The setting is then put into effect: that of a capture gain changes the  *)
(* configuration.                                                           *)
WriteRuntimeSetting(t) ==
  /\ pc[t] = "write_setting"
  /\ Write(aec_dump, <<OtherEvent("RUNTIME_SETTING")>>)
  /\ count' = [count EXCEPT ![t] = access_count[aec_dump]]
  /\ config' \in IF t = "capture" THEN Configs ELSE {config}
  /\ GoTo(t, "release")
  /\ UNCHANGED <<running, aec_dump, logged, crit_render, crit_capture, old, calls,
                 inputs, fileVars, access_count, accessing>>

(* Release(): --access_count_. *)
Release(t) ==
  /\ pc[t] = "release"
  /\ access_count' = [access_count EXCEPT ![aec_dump] = count[t] - 1]
  /\ count' = [count EXCEPT ![t] = 0]
  /\ GoTo(t, "process")
  /\ UNCHANGED <<queue, running, apmVars, inputs, fileVars,
                 posted, accessing>>

-----------------------------------------------------------------------------
(* The capture thread: ProcessStream(). *)

Room == Cardinality(UNION {{d} \X DOMAIN posted[d] : d \in Dumps}) < MaxEvents

(* RecordUnprocessedCaptureStream(), with WriteAecDumpConfigMessage(false). *)
StartCapture ==
  /\ pc["capture"] = "idle" /\ crit_capture = None
  /\ calls < MaxCalls
  /\ aec_dump # None => Room
  /\ crit_capture' = "capture"
  /\ calls' = calls + 1
  /\ IF aec_dump = None
       THEN WriteNothing /\ UNCHANGED <<logged, inputs>>
       ELSE /\ Write(aec_dump, IF config = logged THEN <<>> ELSE <<ConfigEvent(config)>>)
            /\ logged' = config
            /\ inputs' = [inputs EXCEPT ![aec_dump] = Append(@, calls')]
  /\ \E next \in {"process"} \cup (IF aec_dump = None THEN {} ELSE {"setting"}) :
       GoTo("capture", next)
  /\ UNCHANGED <<running, aec_dump, config, crit_render, old, fileVars, raceVars>>

EndCaptureWith(rest) ==
  /\ pc["capture"] = "process"
  /\ IF aec_dump = None
       THEN WriteNothing /\ UNCHANGED inputs
       ELSE /\ Write(aec_dump, <<StreamEvent(inputs[aec_dump], calls)>>)
            /\ inputs' = [inputs EXCEPT ![aec_dump] = rest]
  /\ crit_capture' = None
  /\ GoTo("capture", "idle")
  /\ UNCHANGED <<running, aec_dump, config, logged, crit_render, old, calls,
                 fileVars, raceVars>>

(* Posts the event but goes on with the same one. *)
Mut_EndCapture == EndCaptureWith(inputs[aec_dump])

(* RecordProcessedCaptureStream(): WriteCaptureStreamMessage() posts the    *)
(* event and starts a new one.                                              *)
EndCapture == EndCaptureWith(<<>>)

(* ProcessCaptureStreamLocked() failed, and nothing more is recorded. *)
FailCapture ==
  /\ pc["capture"] = "process"
  /\ crit_capture' = None
  /\ GoTo("capture", "idle")
  /\ UNCHANGED <<queue, running, aec_dump, config, logged,
                 crit_render, old, calls, inputs, fileVars, posted, raceVars>>

-----------------------------------------------------------------------------
(* The render thread: ProcessReverseStream(). *)

StartRender ==
  /\ pc["render"] = "idle" /\ crit_render = None
  /\ aec_dump # None /\ Room
  /\ crit_render' = "render"
  /\ Write(aec_dump, <<OtherEvent("REVERSE_STREAM")>>)
  /\ \E next \in {"process"} \cup (IF RenderSettings THEN {"setting"} ELSE {}) :
       GoTo("render", next)
  /\ UNCHANGED <<running, aec_dump, config, logged, crit_capture, old, calls,
                 inputs, fileVars, raceVars>>

EndRender ==
  /\ pc["render"] = "process"
  /\ crit_render' = None
  /\ GoTo("render", "idle")
  /\ UNCHANGED <<queue, running, aec_dump, config, logged,
                 crit_capture, old, calls, inputs, fileVars, posted, raceVars>>

-----------------------------------------------------------------------------
(* The control thread.  What it does under both locks is one step. *)

BothFree == crit_render = None /\ crit_capture = None

(* ApplyConfig(), as far as the dump sees it. *)
ApplyConfig ==
  /\ pc["control"] = "idle" /\ BothFree
  /\ config' \in Configs \ {config}
  /\ UNCHANGED <<queue, running, aec_dump, logged,
                 crit_render, crit_capture, old, calls, pc, inputs, fileVars, posted,
                 raceVars>>

(* AttachAecDump() of a new dump.  The one that was attached is destroyed   *)
(* with the parameter, after the locks are released.                        *)
Attaching(forced) ==
  /\ pc["control"] = "idle" /\ BothFree
  /\ \E d \in Dumps :
       /\ d \notin alive
       /\ alive' = alive \cup {d}
       /\ left' = [left EXCEPT ![d] = Limit[d]]
       /\ aec_dump' = d
       /\ Write(d, (IF forced \/ config # logged THEN <<ConfigEvent(config)>> ELSE <<>>)
                     \o <<OtherEvent("INIT")>>)
  /\ logged' = config
  /\ old' = aec_dump
  /\ GoTo("control", IF aec_dump = None THEN "idle" ELSE "destroy")
  /\ UNCHANGED <<running, config, crit_render, crit_capture, calls, inputs,
                 file, raceVars>>

(* Does not force the configuration into the new dump. *)
Mut_AttachAecDump == Attaching(FALSE)

AttachAecDump == Attaching(TRUE)

(* DetachAecDump() *)
DetachAecDump ==
  /\ pc["control"] = "idle" /\ BothFree
  /\ aec_dump # None
  /\ old' = aec_dump
  /\ aec_dump' = None
  /\ GoTo("control", "destroy")
  /\ UNCHANGED <<queue, running, config, logged, crit_render,
                 crit_capture, calls, inputs, fileVars, posted, raceVars>>

(* InitializeLocked() at the request of the owner. *)
Initialize ==
  /\ pc["control"] = "idle" /\ BothFree
  /\ aec_dump # None /\ Room
  /\ Write(aec_dump, <<OtherEvent("INIT")>>)
  /\ UNCHANGED <<running, apmVars, pc, inputs, fileVars, raceVars>>

PostSync(tasks, next) ==
  /\ pc["control"] = "destroy"
  /\ queue' = queue \o tasks
  /\ GoTo("control", next)
  /\ UNCHANGED <<running, apmVars, inputs, fileVars, posted, raceVars>>

SyncTask == [dump |-> old, event |-> OtherEvent("SYNC")]

(* Does not wait for the task. *)
Mut_Destroy == PostSync(<<>>, "synced")

(* ~AecDumpImpl(): post a task and wait until it has run. *)
Destroy == PostSync(<<SyncTask>>, "sync")

(* The dump is gone; another one may be made in its place. *)
Destroyed ==
  /\ pc["control"] = "synced"
  /\ old' = None
  /\ inputs' = [inputs EXCEPT ![old] = <<>>]
  /\ left' = [left EXCEPT ![old] = 0]
  /\ file' = [file EXCEPT ![old] = <<>>]
  /\ posted' = [posted EXCEPT ![old] = <<>>]
  /\ alive' = alive \ {old}
  /\ access_count' = [access_count EXCEPT ![old] = 0]
  /\ accessing' = [accessing EXCEPT ![old] = None]
  /\ GoTo("control", "idle")
  /\ UNCHANGED <<queue, running, aec_dump, config, logged, crit_render, crit_capture,
                 calls, count>>

-----------------------------------------------------------------------------
Setting(t) == AcquireLoad(t) \/ AcquireStore(t) \/ WriteRuntimeSetting(t) \/ Release(t)

Next == \/ StartCapture \/ EndCapture \/ FailCapture \/ StartRender \/ EndRender
        \/ \E t \in {"capture", "render"} : Setting(t)
        \/ ApplyConfig \/ AttachAecDump \/ DetachAecDump \/ Initialize
        \/ Destroy \/ Destroyed
        \/ Take \/ Run

Spec == Init /\ [][Next]_vars

-----------------------------------------------------------------------------
(* Properties. *)

RECURSIVE Total(_)
Total(events) == IF events = <<>> THEN 0
                 ELSE Bytes[Head(events).type] + Total(Tail(events))

(* The file of a dump has the events in the order they were recorded, from  *)
(* the first one on and without a gap, and no more bytes than allowed.      *)
FileIsPrefix ==
  \A d \in Dumps : /\ IsPrefix(file[d], posted[d])
                   /\ Limit[d] \in Nat => Total(file[d]) <= Limit[d]

TasksOf(d) == {t \in ToSet(queue) \cup {running} : t # None /\ t.dump = d}

(* When ~AecDumpImpl() has returned no task refers to the dump any more,    *)
(* and its file is complete, or is full.                                    *)
DestroyedIsDone ==
  /\ \A d \in Dumps \ alive : TasksOf(d) = {}
  /\ pc["control"] = "synced" => /\ TasksOf(old) = {}
                                 /\ file[old] = posted[old] \/ left[old] = 0

ConfigChanges(d) ==
  SelectSeq(posted[d], LAMBDA e : e.type \in {"CONFIG", "RUNTIME_SETTING"})

(* A recording starts with a CONFIG and an INIT.  While a capture frame is  *)
(* processed the recording tells its configuration: it is that of the last  *)
(* CONFIG, whatever dump the configuration was last written to, unless a    *)
(* setting recorded after it has changed it.                                *)
ConfigRecorded ==
  /\ \A d \in alive :
       Len(posted[d]) >= 2 /\ posted[d][1].type = "CONFIG" /\ posted[d][2].type = "INIT"
  /\ crit_capture = "capture" /\ aec_dump # None =>
       LET last == Last(ConfigChanges(aec_dump))
       IN  last.type = "CONFIG" => last.config = config

Streams(d) == {posted[d][i] : i \in {j \in DOMAIN posted[d] : posted[d][j].type = "STREAM"}}

(* A STREAM event has the input and the output of the same call, and the    *)
(* input of no call is in two events, though calls fail after their input   *)
(* has been recorded.                                                       *)
StreamsArePairs ==
  \A d \in Dumps : \A e \in Streams(d) :
    /\ Last(e.inputs) = e.output
    /\ \A f \in Streams(d) \ {e} : ToSet(e.inputs) \cap ToSet(f.inputs) = {}

(* RTC_DCHECK_RUNS_SERIALIZED() of WriteRuntimeSetting() does not fail: the *)
(* methods of AecDump "are always safe to call concurrently".               *)
NoRaceDetected ==
  \A t \in {"capture", "render"} : pc[t] = "write_setting" => accessing[aec_dump] = t
==============================================================================

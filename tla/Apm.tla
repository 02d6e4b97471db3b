--------------------------------- MODULE Apm ---------------------------------
(***************************************************************************)
(* AudioProcessingImpl as its threads see it.  The capture thread calls    *)
(* ProcessStream(), the render thread ProcessReverseStream(), a control    *)
(* thread ApplyConfig() and Initialize().  crit_render_ is acquired before *)
(* crit_capture_; both are held to rebuild anything.                       *)
(*                                                                         *)
(* A step is a stretch of code between two points where another thread can *)
(* tell the difference: a lock, an unlock, an operation of a render queue  *)
(* (atomic, as BoundedQueue has it), and a read of submodule_states_ by    *)
(* the render thread, which does not hold the lock that protects it.       *)
(***************************************************************************)
EXTENDS ApmState, FiniteSets

CONSTANTS Configs,         \* configurations given to ApplyConfig()
          CaptureFormats,  \* [input, output] given to ProcessStream()
          RenderFormats,   \* [rin, rout] given to ProcessReverseStream()
          QueueSize,       \* kMaxNumFramesToBuffer
          InitFormats,     \* ProcessingConfigs given to Initialize()
          Reinitialize,    \* does the control thread call Initialize()
                           \* without formats?
          SwitchOff        \* does it switch the echo controller off?

ASSUME ApmAssumption == /\ QueueSize \in Nat \ {0}
                        /\ Reinitialize \in BOOLEAN
                        /\ SwitchOff \in BOOLEAN
                        /\ Configs \subseteq ConfigType
                        /\ CaptureFormats \subseteq [input : StreamType,
                                                    output : StreamType]
                        /\ RenderFormats \subseteq [rin : StreamType,
                                                   rout : StreamType]
                        /\ \A f \in RenderFormats : f.rin.ch > 0
                        /\ InitFormats \subseteq [input : StreamType,
                                                 output : StreamType,
                                                 rin : StreamType,
                                                 rout : StreamType]

VARIABLES apm,           \* the record of ApmState
          crit_render,   \* the thread that holds the lock, or "free"
          crit_capture,
          pc,            \* where each thread is
          call           \* the arguments and locals of each thread's call

vars == <<apm, crit_render, crit_capture, pc, call>>
locks == <<crit_render, crit_capture>>

Threads == {"capture", "render", "control"}
Goto(t, l) == pc' = [pc EXCEPT ![t] = l]
At(t, l) == pc[t] = l
Return(t) == Goto(t, "idle") /\ call' = [call EXCEPT ![t] = None]

(* AudioProcessingBuilder::Create() *)
Init == /\ apm = InitializeLocked(NewApm)
        /\ crit_render = "free"
        /\ crit_capture = "free"
        /\ pc = [t \in Threads |-> "idle"]
        /\ call = [t \in Threads |-> None]

-----------------------------------------------------------------------------
(* EmptyQueuedRenderAudio(): the loops that take the elements out of the   *)
(* three queues, in this order.  The caller holds crit_capture_.           *)
Pop(t, queue, present, here, next) ==
  /\ At(t, here)
  /\ IF present /\ apm[queue] # <<>>
       THEN apm' = [apm EXCEPT ![queue] = Tail(@)] /\ UNCHANGED pc
       ELSE Goto(t, next) /\ UNCHANGED apm
  /\ UNCHANGED <<locks, call>>

EmptyAecm(t) == Pop(t, "aecm_queue", apm.aecm # None, "empty_aecm", "empty_agc")

(* Empties the queue only for a gain control that has a manager. *)
Mut_EmptyAgc(t) ==
  Pop(t, "agc_queue", apm.agc_manager # None, "empty_agc", "empty_red")

EmptyAgc(t) == Pop(t, "agc_queue", apm.agc # None, "empty_agc", "empty_red")

-----------------------------------------------------------------------------
(* The capture thread.  Its call has the formats f it passes and the copy  *)
(* api of api_format in MaybeInitializeCapture().                          *)

(* set_stream_delay_ms() *)
SetStreamDelay == /\ At("capture", "idle")
                  /\ crit_capture = "free"
                  /\ apm' = [apm EXCEPT !.delay_set = TRUE]
                  /\ UNCHANGED <<locks, pc, call>>

CaptureConfig(f) == [apm.api EXCEPT !.input = f.input, !.output = f.output]

CallProcessStream(changed) ==
  /\ At("capture", "idle")
  /\ crit_capture = "free"
  /\ \E f \in CaptureFormats :
       /\ call' = [call EXCEPT !["capture"] = [f |-> f, api |-> CaptureConfig(f)]]
       /\ Goto("capture", IF changed \/ CaptureConfig(f) # apm.api
                            THEN "lock_render" ELSE "lock_capture")
  /\ apm' = Update(apm)
  /\ UNCHANGED locks

(* Does not look at what UpdateActiveSubmoduleStates() returns. *)
Mut_ProcessStream == CallProcessStream(FALSE)

(* ProcessStream(), up to the first part of MaybeInitializeCapture(): the  *)
(* copy of api_format and the update of the states, under crit_capture_.   *)
ProcessStream == CallProcessStream(StatesChanged(apm))

(* Both locks are needed to reinitialize: crit_render_ comes first. *)
ReinitLockRender == /\ At("capture", "lock_render")
                    /\ crit_render = "free"
                    /\ crit_render' = "capture"
                    /\ Goto("capture", "reinit")
                    /\ UNCHANGED <<apm, crit_capture, call>>

ReinitCaptureWith(api) ==
  /\ At("capture", "reinit")
  /\ crit_capture = "free"
  /\ apm' = InitializeLockedWith(apm, api)
  /\ IF AcceptableFormat(api)
       THEN Goto("capture", "lock_capture") /\ UNCHANGED call
       ELSE Return("capture")
  /\ crit_render' = "free"
  /\ UNCHANGED crit_capture

(* Reinitializes with the formats of the moment. *)
Mut_ReinitCapture == ReinitCaptureWith(apm.api)

(* InitializeLocked(processing_config) with the copy made before, and the  *)
(* release of both locks.                                                  *)
ReinitCapture == ReinitCaptureWith(call["capture"].api)

(* The lock that the rest of ProcessStream() holds. *)
LockCapture == /\ At("capture", "lock_capture")
               /\ crit_capture = "free"
               /\ crit_capture' = "capture"
               /\ Goto("capture", "empty_aecm")
               /\ UNCHANGED <<apm, crit_render, call>>

EmptyRedCapture == Pop("capture", "red_queue", TRUE, "empty_red", "process")

(* ProcessCaptureStreamLocked(): it fails when the AECM has no delay, or   *)
(* when the gain control or the AECM report an error.                      *)
ProcessCapture ==
  /\ At("capture", "process")
  /\ \/ /\ apm.aecm # None => apm.delay_set
        /\ apm' = [apm EXCEPT !.delay_set = FALSE]
     \/ /\ apm.aecm # None \/ apm.agc # None
        /\ UNCHANGED apm
  /\ crit_capture' = "free"
  /\ Return("capture")
  /\ UNCHANGED crit_render

CaptureNext == \/ SetStreamDelay \/ ProcessStream \/ ReinitLockRender
               \/ ReinitCapture \/ LockCapture
               \/ EmptyAecm("capture") \/ EmptyAgc("capture")
               \/ EmptyRedCapture \/ ProcessCapture

-----------------------------------------------------------------------------
(* The render thread.  It holds crit_render_ from the call to the return.  *)
(* Its call has the formats f it passes, split (did it split its buffer?)  *)
(* and queue (the one it found full).                                      *)

RenderConfig(f) == [apm.api EXCEPT !.rin = f.rin, !.rout = f.rout]

(* ProcessReverseStream(): the lock, and the test of                       *)
(* MaybeInitializeRender().                                                *)
ProcessReverseStream ==
  /\ At("render", "idle")
  /\ crit_render = "free"
  /\ crit_render' = "render"
  /\ \E f \in RenderFormats :
       /\ call' = [call EXCEPT !["render"] =
                     [f |-> f, split |-> FALSE, queue |-> None]]
       /\ Goto("render", IF RenderConfig(f) # apm.api THEN "init"
                                                      ELSE "red_queue")
  /\ UNCHANGED <<apm, crit_capture>>

(* The rest of MaybeInitializeRender(), under crit_capture_. *)
InitRender ==
  /\ At("render", "init")
  /\ crit_capture = "free"
  /\ LET api == RenderConfig(call["render"].f)
     IN /\ apm' = InitializeLockedWith(apm, api)
        /\ IF AcceptableFormat(api)
             THEN Goto("render", "red_queue") /\ UNCHANGED <<crit_render, call>>
             ELSE Return("render") /\ crit_render' = "free"
  /\ UNCHANGED crit_capture

(* What PackRenderAudioBuffer() makes of the render buffer. *)
Packed(queue) ==
  LET buf == apm.render_audio.buf
      bands == call["render"].split \/ ~ SampleRateSupportsMultiBand(buf.rate)
  IN IF queue = "red_queue" THEN [frames |-> NumFrames(buf.rate)]
     ELSE IF queue = "agc_queue"
       THEN [frames |-> FramesPerBand(buf.rate), bands |-> bands]
     ELSE [frames |-> FramesPerBand(buf.rate), bands |-> bands,
           och |-> apm.api.output.ch, rch |-> buf.ch]

AfterQueue == [red_queue |-> "split", aecm_queue |-> "agc_queue",
               agc_queue |-> "analyze"]

(* The first Insert() into a queue; a full one has to be emptied. *)
Insert(queue, wanted) ==
  /\ At("render", queue)
  /\ IF ~ wanted
       THEN Goto("render", AfterQueue[queue]) /\ UNCHANGED <<apm, call>>
     ELSE IF Len(apm[queue]) < QueueSize
       THEN /\ apm' = [apm EXCEPT ![queue] = Append(@, Packed(queue))]
            /\ Goto("render", AfterQueue[queue])
            /\ UNCHANGED call
       ELSE /\ call' = [call EXCEPT !["render"].queue = queue]
            /\ Goto("render", "full")
            /\ UNCHANGED apm
  /\ UNCHANGED locks

InsertRed == Insert("red_queue", TRUE)
InsertAecm == Insert("aecm_queue", apm.aecm # None)
InsertAgc == Insert("agc_queue", apm.agc_manager = None /\ apm.agc # None)

(* EmptyQueuedRenderAudio() takes crit_capture_, and frees it. *)
LockFull == /\ At("render", "full")
            /\ crit_capture = "free"
            /\ crit_capture' = "render"
            /\ Goto("render", "empty_aecm")
            /\ UNCHANGED <<apm, crit_render, call>>

EmptyRedRender ==
  /\ At("render", "empty_red")
  /\ IF apm.red_queue # <<>>
       THEN /\ apm' = [apm EXCEPT !.red_queue = Tail(@)]
            /\ UNCHANGED <<pc, crit_capture>>
       ELSE /\ Goto("render", "retry")
            /\ crit_capture' = "free"
            /\ UNCHANGED apm
  /\ UNCHANGED <<crit_render, call>>

(* The second Insert().  If it failed, the frame would be dropped. *)
Retry ==
  /\ At("render", "retry")
  /\ LET queue == call["render"].queue
     IN /\ apm' = IF Len(apm[queue]) < QueueSize
                    THEN [apm EXCEPT ![queue] = Append(@, Packed(queue))]
                    ELSE apm
        /\ Goto("render", AfterQueue[queue])
  /\ call' = [call EXCEPT !["render"].queue = None]
  /\ UNCHANGED locks

(* The two reads of submodule_states_: whether to split the buffer, and    *)
(* whether to queue its bands.                                             *)
SplitIntoFrequencyBands ==
  /\ At("render", "split")
  /\ call' = [call EXCEPT !["render"].split =
                /\ RenderMultiBandSubModulesActive(apm.states)
                /\ SampleRateSupportsMultiBand(apm.render.rate)]
  /\ Goto("render", "banded")
  /\ UNCHANGED <<apm, locks>>

QueueBandedRenderAudio ==
  /\ At("render", "banded")
  /\ Goto("render", IF RenderMultiBandSubModulesActive(apm.states)
                      THEN "aecm_queue" ELSE "analyze")
  /\ UNCHANGED <<apm, locks, call>>

(* AnalyzeRender() of the echo controller, if there is one, and the        *)
(* return.                                                                 *)
AnalyzeRender == /\ At("render", "analyze")
                 /\ crit_render' = "free"
                 /\ Return("render")
                 /\ UNCHANGED <<apm, crit_capture>>

RenderNext == \/ ProcessReverseStream \/ InitRender \/ InsertRed
              \/ SplitIntoFrequencyBands \/ QueueBandedRenderAudio
              \/ InsertAecm \/ InsertAgc \/ LockFull
              \/ EmptyAecm("render") \/ EmptyAgc("render") \/ EmptyRedRender
              \/ Retry \/ AnalyzeRender

-----------------------------------------------------------------------------
(* The control thread: ApplyConfig(), Initialize(), and Initialize() with  *)
(* formats, given as a ProcessingConfig or as rates and layouts, take both *)
(* locks.                                                                  *)

ControlLock ==
  /\ At("control", "idle")
  /\ crit_render = "free"
  /\ crit_render' = "control"
  /\ \/ /\ \E c \in Configs :
             /\ apm.ec # None => SwitchOff \/ (c.aec /\ ~ c.mobile)
             /\ call' = [call EXCEPT !["control"] = c]
        /\ Goto("control", "apply")
     \/ /\ Reinitialize
        /\ Goto("control", "initialize")
        /\ UNCHANGED call
     \/ /\ \E api \in InitFormats : call' = [call EXCEPT !["control"] = api]
        /\ Goto("control", "initialize_formats")
  /\ UNCHANGED <<apm, crit_capture>>

Control == /\ \/ At("control", "apply") /\ apm' = ApplyConfig(apm, call["control"])
              \/ At("control", "initialize") /\ apm' = InitializeLocked(apm)
              \/ /\ At("control", "initialize_formats")
                 /\ apm' = InitializeLockedWith(apm, call["control"])
           /\ crit_capture = "free"
           /\ crit_render' = "free"
           /\ Return("control")
           /\ UNCHANGED crit_capture

Next == CaptureNext \/ RenderNext \/ ControlLock \/ Control

Spec == Init /\ [][Next]_vars

-----------------------------------------------------------------------------
(* Properties *)

Emptying == {"empty_aecm", "empty_agc", "empty_red"}
Processing == Emptying \cup {"process"}
Queues == {"aecm_queue", "agc_queue", "red_queue"}

(* The types, and the lock discipline of the code: each lock is held       *)
(* exactly by the thread that is in a section it protects.                 *)
TypeOK ==
  /\ apm.config \in Configs \cup {DefaultConfig}
  /\ \A q \in Queues : apm[q] # None => Len(apm[q]) <= QueueSize
  /\ pc["capture"] \in Processing \cup {"idle", "lock_render", "reinit",
                                        "lock_capture"}
  /\ pc["render"] \in Emptying \cup Queues \cup
                      {"idle", "init", "split", "banded", "full", "retry",
                       "analyze"}
  /\ pc["control"] \in {"idle", "apply", "initialize", "initialize_formats"}
  /\ \A t \in Threads :
       /\ (crit_render = t) <=> IF t = "capture" THEN At(t, "reinit")
                                                 ELSE ~ At(t, "idle")
       /\ (crit_capture = t) <=> pc[t] \in Processing

(* "Retry the insert (should always work)": a queue that was full has room *)
(* when the render thread comes back to it after EmptyQueuedRenderAudio(). *)
RetryWorks ==
  At("render", "retry") => Len(apm[call["render"].queue]) < QueueSize

(* The formats of a call are in force: api_format and the audio buffer are *)
(* what AudioBuffer::CopyFrom() and CopyTo() assert.                       *)
CaptureFormatsHold ==
  LET f == call["capture"].f
  IN /\ apm.api.input = f.input /\ apm.api.output = f.output
     /\ apm.capture_audio.from = f.input /\ apm.capture_audio.to = f.output
RenderFormatsHold ==
  LET f == call["render"].f
  IN /\ apm.api.rin = f.rin /\ apm.api.rout = f.rout
     /\ apm.render_audio.from = f.rin

(* MaybeInitializeCapture() has returned, ProcessStream() has not. *)
InProcessStream == pc["capture"] \in Processing \cup {"lock_capture"}

(* The formats of a call stay in force until it returns, though no lock is *)
(* held all the time.  A capture thread that reinitializes with an older   *)
(* copy of api_format, or a control thread, never does it under the feet   *)
(* of ProcessReverseStream().  MaybeInitializeCapture() returns with the   *)
(* formats of the call in force, and of all that other threads do until    *)
(* ProcessStream() returns only one thing takes them away: an Initialize() *)
(* with formats before ProcessStream() has taken crit_capture_ again.      *)
FormatsKept ==
  [][/\ pc'["render"] \notin {"idle", "init"} => RenderFormatsHold'
     /\ InProcessStream' =>
          \/ CaptureFormatsHold'
          \/ InProcessStream /\ ~ CaptureFormatsHold
          \/ At("capture", "lock_capture") /\ At("control", "initialize_formats")
    ]_vars

(* The AECM only gets render audio with as many blocks as it has           *)
(* cancellers: no element of its queue outlives a change of the numbers of *)
(* channels.                                                               *)
QueuedShape ==
  apm.aecm # None =>
    \A i \in DOMAIN apm.aecm_queue :
       /\ apm.aecm_queue[i].och = apm.aecm.och
       /\ apm.aecm_queue[i].rch = apm.aecm.rch

(* The render thread reads submodule_states_ twice without the lock, and   *)
(* may queue bands of a buffer it has not split.  ProcessStream() never    *)
(* feeds them to a submodule: the reinitialization that the capture thread *)
(* has started empties the queues first.                                   *)
OnlySplitBandsProcessed ==
  /\ At("capture", "empty_aecm") /\ apm.aecm # None
       => \A i \in DOMAIN apm.aecm_queue : apm.aecm_queue[i].bands
  /\ At("capture", "empty_agc") /\ apm.agc # None
       => \A i \in DOMAIN apm.agc_queue : apm.agc_queue[i].bands

-----------------------------------------------------------------------------
(* What the submodules assert about the audio they are given. *)

(* Every change of the set of active submodules has been noticed by        *)
(* MaybeInitializeCapture(), and the reinitialization it asks for is done. *)
Settled == /\ ~ StatesChanged(apm)
           /\ pc["capture"] \notin {"lock_render", "reinit"}

(* No reinitialization is forgotten: once settled, the rates and channels  *)
(* used for processing are the ones that the API formats, the              *)
(* configuration and the active submodules ask for.                        *)
NoForgottenReinit ==
  Settled =>
    /\ apm.capture_rate = CaptureRate(apm.api, apm.config, apm.states)
    /\ apm.render = RenderFormat(apm.api, apm.config, apm.states,
                                 apm.ec_enabled)

(* The audio that AnalyzeRender() gets always has the bands, the frames    *)
(* and the channels the echo controller was created for: the assertions of *)
(* EchoCanceller3::RenderWriter::Insert(), for every interleaving.         *)
RenderShapeFits ==
  At("render", "analyze") /\ apm.ec # None =>
    LET buf == apm.render_audio.buf
    IN /\ FramesPerBand(buf.rate) = 160
       /\ NumBands(NumFrames(buf.rate)) = NumBands(NumFrames(apm.ec.rate))
       /\ buf.ch = apm.ec.rch

(* Those assertions hold whichever thread rebuilt the buffer and the echo  *)
(* controller last, once the capture thread has noticed the change.        *)
AnalyzeRenderShape == Settled => RenderShapeFits

(* The capture buffer after its channels are downmixed for AEC3. *)
ProcChannels == IF apm.ec # None /\ ~ apm.config.multi_capture
                  THEN 1 ELSE apm.capture_audio.buf.ch

(* The echo controller was created for the channels and the rate of the    *)
(* capture buffer it processes: the assertions of                          *)
(* EchoCanceller3::ProcessCapture(), for every interleaving.               *)
EchoChannelsFit ==
  At("capture", "process") /\ apm.ec # None =>
    apm.ec.cch = ProcChannels /\ apm.ec.rate = apm.capture_rate

(* Each capture submodule was last initialized for the rate and the number *)
(* of channels of the buffer it processes: the assertions of               *)
(* EchoCanceller3, GainControlImpl, EchoControlMobileImpl and              *)
(* HighPassFilter, and the loops of NoiseSuppressor.                       *)
CaptureShapes ==
  At("capture", "process") /\ Settled =>
    /\ EchoChannelsFit
    /\ apm.agc # None => apm.agc = Stream(apm.capture_rate, ProcChannels)
    /\ apm.ns # None => apm.ns = Stream(apm.capture_rate, ProcChannels)
    /\ apm.aecm # None => /\ apm.aecm.och = ProcChannels
                          /\ apm.aecm.rate = SplitRate(apm.capture_rate)
                          /\ apm.aecm.rch = apm.render.ch
    /\ apm.hpf # None =>
         apm.hpf.ch = IF apm.config.hpf_full THEN apm.capture_audio.buf.ch
                                             ELSE ProcChannels
    /\ apm.vad # None => apm.vad = SplitRate(apm.capture_rate)
=============================================================================

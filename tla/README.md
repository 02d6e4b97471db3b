# Verification of the audio processing unit

This directory holds a TLA+ development of the program in `src/`: the wrapper
class `AudioProcessing` (`src/webrtc/audioprocessing.cc`), WebRTC's
`AudioProcessingImpl` below it with the recording of its streams, the parts of
AEC3 that are control and not signal processing, the message and task queues of
`rtc_base`, and the jitter buffer NetEq. TLC checks the models on small instances,
TLAPS proves theorems about the queues, the statistics, the threads of
`AudioProcessingImpl`, the AEC3 delay buffer and the stream formats for every value of
the constants. Paths below are relative to `src/webrtc/`; `apm/` stands for
`modules/audio_processing/` and `neteq/` for `modules/audio_coding/neteq/`.

Contents: [the system](#the-system), [the modules](#the-modules),
[the runs](#the-runs), [bounds](#bounds), [fairness](#fairness),
[the proofs](#the-proofs), [disagreements found](#disagreements-found),
[known limits of what holds](#known-limits-of-what-holds),
[not modelled](#not-modelled), [plan](#plan).

## The system

An application owns one `AudioProcessing`. A capture thread gives it microphone
audio (`processCapture`), a playout thread gives it the far-end audio
(`processRemote`), and some other thread initializes it, switches features and
reports the delay. All of them end up in one `AudioProcessingImpl`.

| Part | State | Operations | What makes it hard |
|---|---|---|---|
| Wrapper, `audioprocessing.cc` | copy of the configuration, formats, `m_nStreamDelay` | `init`, `enable…`, `setStreamDelay`, `processCapture`, `processRemote` | members shared by three threads without a lock; a cached configuration; each frame may fail |
| `AudioProcessingImpl`, configuration | `formats_`, `submodules_`, `submodule_states_`, `config_`, the audio buffers | `ApplyConfig`, `Initialize`, `MaybeInitialize…`, `InitializeLocked`, `Initialize<Submodule>` | two locks; formats copied, lock given up, copy written back; a change that is reported only once |
| `AudioProcessingImpl`, processing | three render queues, `was_stream_delay_set` | `ProcessStream`, `ProcessReverseStream`, `QueueBandedRenderAudio`, `EmptyQueuedRenderAudio` | full queues emptied by the producer; `submodule_states_` read without its lock |
| `SwapQueue`, `rtc_base/swap_queue.h` | slots, two indices, an atomic count | `Insert`, `Remove`, `Clear`, `SizeAtLeast` | two threads, no lock, one counter |
| Runtime settings | a `SwapQueue`, the settings in force | `SetRuntimeSetting`, `Enqueue`, `Handle…RuntimeSettings` | a producer that removes; retries; order |
| Statistics | a `SwapQueue` of size 1, a cache | `UpdateStatistics`, `GetStatistics` | several readers, stale statistics |
| Formats | none | rates, bands and channels as functions of the formats and the submodules | rates that are not multiples of 16 kHz; maxima |
| AEC3 framing, `apm/aec3/echo_canceller3.cc` | blockers, framer, render transfer queue | `AnalyzeRender`, `ProcessCapture` | frames of 160 samples cut into blocks of 64 and put together again |
| AEC3 delay buffer, `apm/aec3/render_delay_buffer.cc` | three circular buffers that run in two directions | `Insert`, `PrepareCaptureProcessing`, `AlignFromDelay`, `Reset` | full versus empty; overrun, underrun and realignment in any order |
| Recording, `apm/aec_dump/` | a file with a limit, the capture event being built, the configuration last written | `AttachAecDump`, `DetachAecDump`, the `Write…` methods, `WriteToFileTask::Run` | two threads record under two locks, a third writes, a fourth destroys |
| Message queues, `rtc_base/thread.cc`, `async_invoker.cc` | queues, delayed messages, events, a counter of calls | `Post`, `Get`, `Send`, `Clear`, `Quit`; `AsyncInvoke`, `Flush`, `~AsyncInvoker` | wake-ups after the lock; calls that make calls; destruction meanwhile |
| Task queue, `rtc_base/task_queue_stdlib.cc` | two queues, one counter, an event | `PostTask`, `PostDelayedTask`, `Delete`, the worker's loop | order across two queues; the clock read before the lock |
| NetEq, `neteq/` | jitter buffer, timestamp scaling, end of the decoded audio, NACK list | `InsertPacket`, `GetAudio`, `FlushBuffers`, `RemovePayloadType` | packets lost, late, repeated; numbers that wrap; a change of codec; timestamps in two clocks |
| Signal processing | filters, estimators | | out of a model checker's reach |

`PROJECT.json` lists every part with its status, and the hazards at the lines
where they bite, each with the properties that would notice.

## The modules

| Module | Models | Correspondence |
|---|---|---|
| `BoundedQueue` | what `SwapQueue` promises | a sequence of at most `Size` elements; an operation is one step |
| `SwapQueue` | `rtc_base/swap_queue.h` | one action per access of `num_elements_`, of an index or of a slot; one producer, one consumer |
| `RuntimeSettings` | `RuntimeSettingEnqueuer`, the handlers, on top of the queue's own steps | settings are numbered in the order of the calls; every slot, index and counter is there because here two threads may be in `Remove()` |
| `StatsReporter` | `ApmStatsReporter`, `ProcessAudioFrame` | statistics are the number of their frame |
| `ApmFormats` | the functions that choose rates, bands and channels | pure operators |
| `ApmState` | everything `AudioProcessingImpl` holds under its locks | one record; an operator per C++ function, with the same name; a submodule is the rate and channels it was built for |
| `Apm` | the threads of `AudioProcessingImpl` | a step is the code between two points where another thread can tell the difference: a lock, an unlock, a queue operation, an unlocked read |
| `Wrapper` | `audioprocessing.cc` | on the same `ApmState`; an access of `m_nStreamDelay` is a step of its own |
| `EchoCanceller3` | framing of AEC3, `frame_blocker.cc`, `block_framer.cc` | samples in chunks of 16, the greatest common divisor of block and sub-frame; a chunk is its number in its stream |
| `RenderDelayBuffer` | `render_delay_buffer.cc` | the object is a record, a method an operator; a slot holds the age of its block |
| `BlockProcessor` | `block_processor.cc` | the state machine that drives `RenderDelayBuffer`; the delay estimator may find any delay of a set |
| `AecDump` | `apm/aec_dump/`, `race_checker.cc`, what `AudioProcessingImpl` records | an event is its type, configuration and the numbers of its calls; `access_count_++` is two steps |
| `Thread` | `rtc_base/thread.cc`, `null_socket_server.cc` | a critical section is a step; the test of `stop_` before it and the wake-up after it are others; a wait ends at the time computed before it (`timer`), so a message posted since needs a wake-up |
| `AsyncInvoker` | `rtc_base/async_invoker.cc` | on `Thread`; a closure is its object, so a chain of calls has no end of its own |
| `TaskQueueStdlib`, `TaskQueue` | `rtc_base/task_queue_stdlib.cc`; its clients, owner and clock | as for `Thread`; a task is known by when it was posted |
| `PacketBuffer` | `neteq/packet_buffer.cc`, `packet.h`, the comparison of numbers that wrap | operators on a sequence of packets |
| `NackTracker` | `neteq/nack_tracker.cc` | operators on a record with the members of the class |
| `NetEq` | `neteq/neteq_impl.cc`, `decision_logic.cc`, `timestamp_scaler.cc`, `ParsePayload` of the codecs | one step per call, which holds `crit_sect_`; a unit of time is 10 ms; a packet carries its place in the sender's stream, for the properties only |
| `SwapQueueUsers` | | an instance of `RuntimeSettings` and one of `StatsReporter`, each with a queue of its own |
| `MC…` | | instances for TLC; `MCQueues`, `MCClients` and `MCAec3` put machines that share nothing side by side, and a behaviour is one of one of them |
| `…Proofs` | | the theorems: `SwapQueueProofs`, `QueuesProofs` (`RuntimeSettings`, `StatsReporter`), `TaskQueueProofs`, `ApmProofs` and `ApmShapesProofs` (`ApmFormats`, `ApmState`, `Apm`), `WrapperProofs`, `Aec3Proofs` (`EchoCanceller3`), `BlockProcessorProofs` |

How they fit together. `SwapQueue` is proved to implement `BoundedQueue`; this is
what allows `Apm`, `StatsReporter` and `EchoCanceller3` to treat a queue
operation as one step. `RuntimeSettings` cannot rely on it, since `Enqueue()`
calls `Remove()` from the producer's thread, and so repeats the steps of the
queue. `Apm` and `Wrapper` share `ApmState`: `Apm` interleaves the locks and
queues inside a call, `Wrapper` takes a call as one step and interleaves the
members of the wrapper around it. `BlockProcessor` composes the operators of
`RenderDelayBuffer`; it sits behind the blocks that `EchoCanceller3` cuts, and
lets them come in any order. `AecDump` takes its task queue for a first-in
first-out queue; for tasks without delay this is `RunsInOrder` of `TaskQueue`: each
task taken is the first of those that wait.
`NetEq` composes `PacketBuffer` and `NackTracker` with the decision logic.

A definition named `Mut_X` stands just before `X` and is `X` with a plausible
slip (a dropped guard, an index that is not wrapped, a missing reset). No
specification uses it: it shows that a property can fail. For every property of
a passing run, replacing `X` by `Mut_X` makes TLC report that property.

## The runs

| Run | Configuration | Result | What it shows |
|---|---|---|---|
| `queues` | `MCQueues.cfg` | holds | `SwapQueue`: no two threads on one slot (`NoSlotRace`), the size last seen is a lower bound (`SizeIsLowerBound`), refinement of the bounded queue (`IsFifo`), everything inserted leaves (`Drains`). Settings, as long as a full queue is not emptied by `Enqueue()` while the capture thread removes: the latest are pending or handled (`LatestPending`) and take effect (`CatchesUp`). Statistics are as recent as the call (`MostRecent`). `AsyncInvoker`: nothing is left when the destructor returns (`NoUseAfterDestroy`), and it returns (`DestructorReturns`); `Flush()` runs what waited (`FlushCompletes`); no wake-up is lost, be the message delayed or not (`ThreadIsWoken`) |
| `settings_overlap` | `MCRuntimeSettingsOverlap.cfg` | violated | without that restriction the count of elements leaves its range |
| `task_queue` | `MCTaskQueue.cfg` | holds | whenever the worker takes a task, it is the turn of that task among all that wait (`RunsInOrder`), no wake-up is lost (`NoLostWakeup`), every task is run unless the queue is deleted first, and `Delete()` returns (`TasksRun`) |
| `apm` | `MCApm.cfg` | holds | no deadlock; the retried insert works (`RetryWorks`); formats are kept from `MaybeInitialize…()` to the end of the call, whatever other threads do except an `Initialize()` with other formats before a capture call has its lock again (`FormatsKept`); queued elements have the shape of the AECM that reads them (`QueuedShape`) |
| `apm_shapes` | `MCApmShapes.cfg` | holds | no deadlock; once the capture thread has noticed a reconfiguration, no reinitialization is forgotten, every submodule gets the shape it was built for, and only split bands reach one |
| `apm_initialize` | `MCApmInitialize.cfg` | violated | `Initialize()` after `ApplyConfig()` breaks this for good |
| `clients` | `MCClients.cfg` | holds | the wrapper's configuration and the module's agree (`ConfigInSync`); a capture frame never fails (`CaptureNeverFails`). A recording is a prefix of what was recorded, within its limit (`FileIsPrefix`); it is complete or full when its dump is destroyed, and no task is left (`DestroyedIsDone`); it tells the configuration in force (`ConfigRecorded`); a `STREAM` has input and output of one call (`StreamsArePairs`) |
| `wrapper_toggle` | `MCWrapperToggle.cfg` | violated | off and on again between two stereo frames |
| `aec_dump_race` | `MCAecDumpRace.cfg` | violated | two settings recorded at the same time |
| `aec3` | `MCAec3.cfg` | holds | the output is the input delayed by one block; render audio arrives unbroken and before the capture audio that was recorded after it. Spectra and blocks stay in step, the latency is the number of unread blocks, the echo remover reads the block the delay asks for, excess render data is detected |
| `neteq` | `MCNetEq.cfg` | holds | the buffer has the sender's order (`BufferInOrder`) and one known codec (`OneKnownCodec`); nothing is played twice or backwards except after a reset (`PlaysForward`); the NACK list has only lost packets (`NackSound`), all of them (`NackComplete`), with timestamps estimated from the packets around them and the times to play that follow (`NackTimes`); no packet stays for ever (`Drains`) |
| `neteq_assert` | `MCNetEqAssert.cfg` | violated | an older packet is decoded after a newer one |

The `TypeOK` of `SwapQueue`, `TaskQueue` and `StatsReporter` is part of what is proved;
that of the other state machines says what their variables hold and is not checked on
its own.

### Bounds

- `queues`, ring: `Size = 3`, two values. Three slots are enough for the read and
  write index to be equal with the queue full or empty, and apart with both
  threads in the middle of a call. No bound on the number of calls.
- `queues`, settings: `PipeSize = 2`, `MaxSettings = 7`: the queue fills three
  times over. `Attempts = 3` instead of 10, still more than the size. `Modulus = 8`
  stands for the values of `size_t`: a count that goes below 0 wraps, as in C++.
- `queues`, statistics: two monitors, four frames.
- `queues`, invoker: the invoker's thread, one worker, two closures. A functor can
  call its own thread or the other one while a second call is under way; calls are
  unbounded. With one worker two functors never run on two workers at once.
- `task_queue`: two clients, three tasks, delays of 0 and 1, a clock up to 2 (and
  beyond while the worker waits for it): three tasks are the fewest for which a
  pending task waits behind a delayed one that is due earlier.
- `apm`, `apm_shapes`: queues of 2 instead of 100, so that they fill in two render
  calls; two or three formats per stream, chosen so that number of bands, number
  of channels and (44.1 kHz) divisibility differ. Calls are unbounded. The
  configurations are split over the runs: `apm` has the ones that
  add and remove queues, `apm_shapes` the ones that change rates and channels.
  `apm_shapes` does not call `Initialize()` without formats (see `apm_initialize`) and
  does not switch the echo controller off and on (see `wrapper_toggle`). `InitFormats`
  is what `Initialize()` is given: in `apm`, formats that no call passes and formats that
  are refused; in `apm_shapes`, formats of both streams at once.
- `clients`, wrapper: four of the seven switches (`AEC`, `ECM`, `NS`, `AGC`), four
  arguments of `init()` (one rate that is not native, one pair of channels that is
  refused), delays below and above 0..500 ms next to the initial one, buffers of at
  most two frames: the second frame of a buffer sees what the first one left.
- `clients`, recording: two dumps, one limited and one not, so that one is replaced
  by the other; two configurations; no new call once five events are recorded; two
  capture calls, of which the first may fail. The limit is met by a large event
  that does not fit, with a smaller one behind it that would. Render settings are
  off (see `aec_dump_race`).
- `aec3`, framing: eight frames. The framing repeats every two frames (320 samples
  are five blocks), so eight are four periods; the queue of 2 overflows.
- `aec3`, buffer: a low-rate buffer of 4 sub-blocks and a filter of 2 blocks, thus
  7 slots. Estimates below, at and above the default delay. Contents are ages up
  to the size of the buffer, so the state space is finite without a bound on the
  calls.
- `neteq`: five packets, of which four are delivered, each at most one packet late
  (`Window`), or three with one call of `FlushBuffers()` or `RemovePayloadType()`
  somewhere; any number of `GetAudio()`.
  Sequence numbers are modulo 16 and start at 14, timestamps modulo 64 and start at
  60: both wrap within the stream. The codec changes after two packets, from one
  that splits a packet to one that carries a copy of the previous packet, and with it
  the duration of a packet. The first codec is iLBC, whose payload may not parse, or
  G.722, whose RTP clock is half its sample rate. A buffer of 3 overflows. The limits
  of the decision logic are small enough to be reached.

### Fairness

Liveness is checked in `queues`, `task_queue` and `neteq`.

- Ring and settings: a thread inside a call keeps running, and the consumer keeps
  polling: `ProcessStream()` is called for every 10 ms of audio, and each call
  handles the settings and empties the queues. Nothing is assumed of producers.
- `AsyncInvoker`: threads are scheduled, functors return, time passes, and who
  called `Quit()` goes on to destroy the thread. Nothing makes the owner call.
- `TaskQueue`: the worker and the calls that have begun are scheduled, tasks return,
  time passes. Nobody has to post or to delete the queue.
- `NetEq`: the audio device asks for 10 ms for ever. Nothing is assumed of the
  network.

`Apm` and `StatsReporter` claim no liveness: `CriticalSection` does not promise to
serve its waiters in turn. `apm`, `apm_shapes`, `aec3` and `neteq` check deadlock;
`EchoCanceller3` has a step, `Done`, that stutters when both streams have reached
their bound. `queues`, `task_queue` and the dump in `clients` do come to an end: an
invoker, a queue or a budget of calls is used up.

## The proofs

`SwapQueueProofs`, from `SizeAssumption` (the queue has at least one slot) for
every size and every set of contents:

- `Invariance`: `Spec => []Inv` with
  `Inv == TypeOK /\ Occupancy /\ Reservation /\ SizeIsLowerBound`. Neither
  `NoSlotRace` nor the refinement is inductive. A thread holds a slot between its
  test of the counter and its update of it, and during this time the counter
  alone does not tell whose slot it is. `Occupancy` says that the write position is
  `num_elements` places after the read position, where each position counts the
  elements on their way; `Reservation` says that a thread past its test has a free
  (or a full) slot that the other one cannot take.
- `SlotRaceFreedom`, `SizeBound`, `IndicesAgree`: `NoSlotRace`,
  `SizeIsLowerBound` and `Occupancy` in every reachable state.
- `Refinement`: `Spec => IsFifo`. The abstract contents are the `num_elements`
  slots from the read position on; the producer's slot joins at its
  increment, the consumer's leaves at its decrement. There is one step per action.

`TaskQueueProofs`, from `TaskQueueAssumption` for any number of clients and tasks and
any delays:

- `TasksRunInOrder`: `Spec => RunsInOrder`, about every step that takes a task. The worker compares numbers, the
  property speaks of the order of the posts, and `PostTask()` and
  `PostDelayedTask()` take their numbers from the counter before and after its
  increment. The inductive invariant
  `IInv == TypeOK /\ FireTimes /\ Numbered /\ Running` therefore has
  `Numbered`, which ties each number to the order of the posts, and `Running`, that
  the task taken has a number given out and that the worker does not look at the
  queues while it has one.
- `WorkerIsWoken`: `Spec => []NoLostWakeup`, from the types: whoever changes a queue
  goes on to notify, and the worker looks at the queues before it goes to sleep.

`QueuesProofs`, from `UsersAssumption`:

- `StatisticsAreRecent`, for any number of monitors and frames: `Spec => []MostRecent`
  of `StatsReporter`, from
  `Proxy`: the capture thread asks for statistics after each frame, as
  `ProcessAudioFrame()` does (without it the property fails, see
  [below](#known-limits-of-what-holds)). `UpdateStatistics()` throws away what does
  not fit, so the invariant says that the queue is empty whenever the capture thread
  reports (`Emptied`), that the latest statistics are in the queue or else in the
  cache (`LatestKept`), and that the cache is recent for a thread past `Remove()`
  (`CacheRecent`).
- `LatestSettingsPending`, for every size of the queue and any number of settings:
  `Spec => []LatestPending` of `RuntimeSettings`, from `~Overlap`, which run
  `settings_overlap` shows to be needed. The property only speaks of the time between
  two calls. In between, one setting may be out of its slot and still counted, or out
  of the count with the read index still to follow, in either thread:
  `SettingsInv == Places /\ OneRemoves /\ RingOrder /\ Accounted` says where each
  setting is at every step. `RingOrder` has the contents of the ring, from the position
  that the steps of `Remove()` define; `Accounted` has the ones that are handled or
  discarded, once.

`ApmProofs`, from `ApmAssumption` for every set of configurations and formats and every
size of the queues. A render format has at least one channel: both versions of
`ProcessReverseStream()` return an error for none (`apm/audio_processing_impl.cc:1397`
and `1428`).

- `FormatsStayInForce`, `RetryAlwaysWorks`, `QueuedAudioFits`: the three properties
  of run `apm`, from
  `IInv == Locks /\ Streams /\ CaptureCall /\ RenderCall /\ Emptied`. `Locks` is the
  lock discipline. `CaptureCall` says what the copy of the formats that a capture call
  made before it gave up its lock still has in common with the formats in force;
  `RenderCall` is the same for a render call. `Streams` says that the buffers, the AECM
  and its queue follow the formats, and `Emptied` that a queue found full has a reader
  and is empty once it was read, which the capture thread does not undo.
  `FormatsKept` speaks of steps: each one keeps the formats of the calls in progress,
  and the only one that may not is the `Initialize()` described
  [below](#known-limits-of-what-holds).
- `Streams` is first shown for the operators of `ApmState`: `InitializeLocked()`
  establishes it from any state, `ApplyConfig()` keeps it whichever submodules it
  rebuilds.
- `KeepsBandwidth`, `CaptureRateNative`, `RenderBandsFit`, about the operators of
  `ApmFormats` for every rate and number of channels: `SuitableProcessRate()` is at
  least the rate asked for, up to the maximum; the capture stream is processed at 16, 32
  or 48 kHz; when a submodule works on render bands, they have 160 frames.

`ApmShapesProofs`, from the same assumptions: the four properties of run `apm_shapes`.
The conditions are those of the run, and each is needed.

- `FormatsAccepted`, in all four: the calls pass formats that `Initialize()` does not
  refuse. See [below](#known-limits-of-what-holds) for what happens otherwise.
- `~Reinitialize`, in all but `ProcessedBandsAreSplit`: the application does not call
  `Initialize()` without formats; run `apm_initialize` shows why. With formats it may:
  they are then recomputed.
- `~SwitchOff`, in `CaptureAudioFits`: it does not switch the echo controller off; run
  `wrapper_toggle` shows why.

The theorems:

- `ReinitsAreNotForgotten` (`NoForgottenReinit`), `RenderAudioFits`
  (`AnalyzeRenderShape`) and `CaptureAudioFits` (`CaptureShapes`). What is built is
  built for the rates of the moment (`SoundInv`). The rates are those that the noticed
  states ask for unless the capture thread is on its way to reinitialize (`RatesInv`).
  The same for the channels of the echo controller and its capture buffer
  (`ChannelsInv`). For each function of `ApmState` one lemma says what its result is
  built for, so the steps of the threads never open them.
- `ProcessedBandsAreSplit` (`OnlySplitBandsProcessed`). `ProcessReverseStream()` reads
  the states when it splits the buffer and again when it queues the bands, without
  their lock, so it may find no submodule active and then one that is, and queue bands of
  a buffer it has not split. `SplitInTime` says that what is queued, and what the render
  thread has still to queue, is in bands unless the capture thread, which has changed
  the states, is about to reinitialize; that empties the queues before anything is
  processed.

`WrapperProofs`, from `WrapperAssumption` for every set of formats, delays and switches
and every size of the buffers:

- `ConfigStaysInSync` (`ConfigInSync`) and `CaptureAlwaysSucceeds`
  (`CaptureNeverFails`), from `WrapperInv`. A capture frame fails when a format is
  refused, or when the AECM or the first gain control miss a call they need before each
  frame. So the invariant says that the formats of the module stay acceptable, that no
  configuration the switches can reach has one of the two (`Calm`), and that nothing
  which rebuilds the module creates one (`Silent`).

`Aec3Proofs`, from `FramingAssumption` for any number of frames and every size of the
transfer queue:

- `FramingInvariant`, `OutputIsDelayedByBlock` (`OutputDelayedByBlock`),
  `RenderStreamUnbroken` (`RenderUnbroken`). A block lies across two sub-frames and a
  sub-frame across two blocks, so neither property is inductive. `FramingInv` says which
  stretch of its stream each blocker and the framer hold: on the capture side the two
  together always have one block, which is the delay; on the render side the blocker
  has what is left when the frames are cut into blocks.

`BlockProcessorProofs`, from `BufferAssumption` and `EstimatesAssumption` for every
size of the buffers, length of the filter, limit and set of estimates:

- `LatencyIsExact`, `SpectraBelongToBlocks`, `AlignedBlockIsRead`, `ExcessIsFound`: the
  properties `LatencyIsUnread`, `SpectraMatchBlocks`, `ReadsAlignedBlock` and
  `ExcessIsBounded` of run `aec3`. The invariant has the mirror between the two
  directions, slots as well as indices (`Sound`), the age of a slot as its distance
  from the write index (`Aged`), the distance that the read index keeps (`OnTarget`),
  and that an excess older than the current interval is the minimum of it
  (`Watched`). There is one lemma per operator of `RenderDelayBuffer`.

Only model-checked: liveness (the prover has no fairness or `ENABLED`), and all of
`AecDump`, `AsyncInvoker` and `NetEq`. What the filters and folds of `AsyncInvoker`,
`AecDump` and `NetEq` compute for every sequence needs induction over data, which the
prover does not have.

## Disagreements found

Five runs are expected to be violated. In each, the code does something that an
assertion, a comment or a test of the repository excludes.

1. `settings_overlap`, `apm/audio_processing_impl.cc:780`. `Enqueue()` removes
   from a full queue on the caller's thread while the capture thread may be in
   `Remove()`. Both pass the test of the counter, both subtract.
   `swap_queue.h:159` asserts the range of the count.
2. `apm_initialize`, `apm/audio_processing_impl.cc:409`. `InitializeLocked()`
   calls `UpdateActiveSubmoduleStates()` and drops the result. When `Initialize()`
   follows an `ApplyConfig()` that changed the submodules, no later call
   recomputes the processing formats, and the render buffer keeps a shape that
   `echo_canceller3.cc:389` asserts it has not.
3. `wrapper_toggle`, `apm/audio_processing_impl.cc:1708`. The number of channels
   depends on `echo_controller_enabled`, which is set after the echo controller was
   created. `enableAEC(false)` and `enableAEC(true)` between two stereo
   frames leave a canceller for two channels and a buffer downmixed to one, against
   `echo_canceller3.cc:531`.
4. `aec_dump_race`, `apm/aec_dump/aec_dump_impl.cc:177`. `WriteRuntimeSetting()`
   asserts that its calls are serialized, and `AudioProcessingImpl` calls it under
   `crit_capture_` on one thread and under `crit_render_` on another.
   `apm/include/aec_dump.h:61` says "The Write* methods are always safe to call
   concurrently".
5. `neteq_assert`, `neteq/neteq_impl.cc:1024`. A late packet of the old codec flushes
   the buffer and sets `new_codec_`, so `DiscardOldPackets()` is skipped and the packet
   is decoded after newer ones. `nack_tracker.cc:167` asserts that this cannot
   happen; `nack_tracker.h:42` wants the tracker reset when the codec changes, which
   NetEq does for a first packet only.

## Known limits of what holds

Met while modelling, true of the code, and the reason why some properties are
stated with a condition:

- A render call between `ApplyConfig()` and the next capture call meets an echo
  controller its buffer does not fit; `ApplyConfig()` between
  `MaybeInitializeCapture()` and the lock of `ProcessStream()` does the same to
  one capture frame. Hence `Settled` in `AnalyzeRenderShape` and `CaptureShapes`.
- `ProcessStream()` with a format that `Initialize()` refuses, after a configuration
  that changed the submodules: `UpdateActiveSubmoduleStates()` has reported the change,
  the reinitialization fails, and the next call, with a good format, finds nothing to
  do. `NoForgottenReinit` and `OnlySplitBandsProcessed` fail with such a format, hence
  `FormatsAccepted` in the theorems about them; the formats of `apm_shapes` are accepted.
- `Initialize()` with other formats, after `MaybeInitializeCapture()` has returned and
  before `ProcessStream()` has taken `crit_capture_` again, replaces the formats of that
  call, which then copies its frame into a buffer made for others. `FormatsKept` names
  this step and excludes every other.
- A 44.1 kHz render buffer has bands of 441 frames until the next
  reinitialization; theorem `RenderBandsFit` is about the formats after it.
- With a 48 kHz output and a lower input rate, the full-band high-pass filter gets
  48 kHz coefficients for a 32 kHz buffer.
- A capture thread that calls `ProcessStream()` and never `GetStatistics()` leaves
  the oldest statistics in the queue: `MostRecent` fails with `Proxy = FALSE`.
- `enableECM(true)` switches both echo cancellers off (`audioprocessing.cc:186`).
- `processCapture()` may write an old delay over one that `setStreamDelay()` stored
  meanwhile (`audioprocessing.cc:107`).
- `BufferRender()` overwrites `render_event_`, and `ProcessCapture()` of the block
  processor does not handle a `kRenderOverrun` from
  `PrepareCaptureProcessing()`; both are in `BlockProcessor`, no line says
  what should happen.
- `AlignFromDelay()` keeps in `delay_` the value asked for when it had to be limited
  (`render_delay_buffer.cc:313`), so the same estimate is not applied again when
  there is room; `ReadsAlignedBlock` leaves this case out.
- A failing `ProcessStream()` of the float interface leaves its input in the event
  being recorded, and the next `STREAM` has two inputs. `StreamsArePairs` asks that
  the last one belongs to the output.
- A dump must not outlive its task queue, and `Flush()` and `Send()` must not meet a
  thread that quits (`thread.cc:859`); the callers of the models keep to this.
- A delayed call that a functor makes while the invoker is being destroyed is not
  cancelled; the destructor waits for its time.
- `NackTimes` counts from the last decoded packet: `nack_tracker.h:79` speaks of every
  10 ms that are pulled, but NetEq calls the tracker only when it extracts a packet,
  so the times stand still during an expansion.
- The tracker is given RTP timestamps of packets that are received
  (`neteq_impl.cc:564`) and scaled ones of packets that are decoded
  (`neteq_impl.cc:1984`). Once a packet of G.722 was received the two differ and a time
  to play may even wrap, so `NackTimes` then only speaks of the estimate. The estimate
  is off when the sender changed the duration of its packets between the two packets it
  is made from, as `nack_tracker.h:112` says.
- Read in the code and not in the model: `EnableNack()` in the middle of a stream with
  reordered packets can meet the assertion `nack_tracker.cc:123`;
  `RemoveAllPayloadTypes()` leaves packets without a decoder in the buffer
  (`neteq_impl.cc:295`).

## Not modelled

Signal processing (filters, estimators, gain and noise suppression, AECM, the
splitting filters, time stretching, concealment, the codecs) has no control state to
enumerate; only presence, rate and channels of a submodule are in `ApmState`, and
NetEq chooses the outcome of a stretch or a concealment. It is by far the largest
part of the tree, together with headers, tests and third-party code, which is why the
models stand for a small share of its lines. NetEq, the task queue and
`AsyncInvoker` are in the tree; `pc/webrtc.pro` does not build them.

Left out of modelled parts:

- `AudioProcessingImpl`: the default that replaces `gain_controller2` settings which
  `Validate()` refuses (every setting is valid), injected submodules, the linear AEC output, analog level
  and key press flags, the external delay estimator (never configured), the API call
  metrics, the fixed capture delay (0 by default); the wrapper's destructor.
- `AecDump`: samples and their encoding.
- `Thread`: `Peek`, disposal messages, message ids, the check for send cycles;
  `GuardedAsyncInvoker`.
- NetEq: comfort noise, DTMF, RED, changes of sample rate, muting, the playout
  timestamp, `EnableNack()` and `RegisterPayloadType()` during a stream,
  `RemoveAllPayloadTypes()`, `SetCodecs()`. A decoder's own concealment gives less
  than 10 ms more than asked, and the network delays a packet by less than the five
  seconds after which a timestamp counts as new.

## Plan

Order of work so far: ring queue and its proofs, settings and statistics, formats and
their proofs, `ApmState`, `Apm`, `Wrapper`, AEC3 framing and buffer; then message
queues and `AsyncInvoker`, the task queue and its proofs, the recording, NetEq; then
the proofs about statistics, settings, `BlockProcessor`, `Apm`, `Wrapper` and
`EchoCanceller3`.

Next to model:

1. The delay controller's hysteresis (`render_delay_controller.cc`), the clock
   drift detector and `api_call_jitter_metrics.cc`, composed with
   `BlockProcessor` in place of its free estimate.
2. Comfort noise and RED in `NetEq`; `delay_manager.cc` in place of its free levels.
3. `block_delay_buffer.cc`, the C ring buffer of `common_audio`, the ring of the
   residual echo detector, each against a plain sequence.
4. The analog level loop of `AgcManagerDirect`.

Next to prove:

1. `AecDump`: `FileIsPrefix`, `ConfigRecorded` and `StreamsArePairs`, for any number of
   dumps and calls.
2. `AsyncInvoker`: `ThreadIsWoken` and `NoUseAfterDestroy`, for any number of threads.
3. `NetEq`: `OneKnownCodec`; the order of the buffer needs facts about folds that the
   prover cannot establish by induction.

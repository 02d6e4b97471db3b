--------------------------- MODULE RenderDelayBuffer ---------------------------
(* RenderDelayBufferImpl of AEC3 (aec3/render_delay_buffer.cc): the render   *)
(* blocks, their spectra and their low-rate copies in three circular         *)
(* buffers.  The blocks are written upwards, the spectra and the low-rate    *)
(* copies downwards.  ffts_ has the indices of spectra_ in every statement   *)
(* and is left out, as are the counters that are only logged.                *)
(*                                                                           *)
(* The object is a record and a method an operator that returns the record   *)
(* after the call, so that BlockProcessor can compose calls.                 *)
(*   bw, br     blocks_.write, blocks_.read                                  *)
(*   sw, sr     spectra_.write, spectra_.read                                *)
(*   lw, lr     low_rate_.write, low_rate_.read, in sub-blocks (every change *)
(*              of them is by sub_block_size_)                               *)
(*   blocks, spectra   the contents: the number of blocks inserted since the *)
(*              one in the slot, or Size when nothing of use is there        *)
(*   delay      delay_, ext   external_audio_buffer_delay_ (None: nullopt)   *)
(*   min_latency, excess_counter, active_counter, activity  as in the code   *)
EXTENDS Integers, FiniteSetsExt

CONSTANTS LowRateSize,       \* sub-blocks in low_rate_
          FilterLength,      \* config.filter.refined.length_blocks
          DefaultDelay,      \* config.delay.default_delay
          DetectionInterval, \* excess_render_detection_interval_blocks
          MaxExcess,         \* max_allowed_excess_render_blocks
          ActiveLimit,       \* 20 active blocks
          None

ASSUME BufferAssumption ==
  /\ LowRateSize \in Nat \ {0, 1}
  /\ FilterLength \in Nat \ {0}
  /\ DefaultDelay \in 1 .. LowRateSize
  /\ DetectionInterval \in Nat \ {0}
  /\ MaxExcess \in Nat
  /\ ActiveLimit \in Nat \ {0}
  /\ None \notin Int

Size == LowRateSize + FilterLength + 1
MaxDelay == Size - 1 - FilterLength

IncIndex(i) == IF i < Size - 1 THEN i + 1 ELSE 0
DecIndex(i) == IF i > 0 THEN i - 1 ELSE Size - 1
OffsetIndex(size, i, offset) == (size + i + offset) % size

BufferLatency(b) == (LowRateSize + b.lr - b.lw) % LowRateSize

(* The distance from the write to the read index, in blocks. *)
InternalDelay(b) == IF b.sr >= b.sw THEN b.sr - b.sw ELSE Size + b.sr - b.sw
ComputeDelay(b) == InternalDelay(b) - BufferLatency(b)
MapDelayToTotalDelay(b, d) == BufferLatency(b) + d

ApplyTotalDelay(b, d) == [b EXCEPT !.br = OffsetIndex(Size, b.bw, - d),
                                   !.sr = OffsetIndex(Size, b.sw, d)]

(* The delay Reset() derives from the reported one. *)
AudioBufferDelay(ext) ==
  Min({IF ext <= 2 THEN 1 ELSE ext - 2, MaxDelay})

Reset(b) ==
  LET c == [b EXCEPT !.min_latency = 0, !.excess_counter = 0,
                     !.lr = OffsetIndex(LowRateSize, b.lw, 1)]
      d == ApplyTotalDelay(c, IF b.ext # None THEN AudioBufferDelay(b.ext)
                                              ELSE DefaultDelay)
  IN [d EXCEPT !.delay = IF b.ext # None THEN ComputeDelay(d) ELSE None]

NewBuffer ==
  Reset([bw |-> 0, br |-> 0, sw |-> 0, sr |-> 0, lw |-> 0, lr |-> 0,
         blocks |-> [i \in 0 .. Size - 1 |-> Size],
         spectra |-> [i \in 0 .. Size - 1 |-> Size],
         delay |-> DefaultDelay, ext |-> None,
         min_latency |-> 0, excess_counter |-> 0,
         active_counter |-> 0, activity |-> FALSE])

-----------------------------------------------------------------------------
(* Insert() *)

(* Steps the spectra the way of the blocks. *)
Mut_IncrementWriteIndices(b) ==
  [b EXCEPT !.lw = OffsetIndex(LowRateSize, @, -1),
            !.bw = IncIndex(@), !.sw = IncIndex(@)]

IncrementWriteIndices(b) ==
  [b EXCEPT !.lw = OffsetIndex(LowRateSize, @, -1),
            !.bw = IncIndex(@), !.sw = DecIndex(@)]

(* Looks at the blocks only. *)
Mut_RenderOverrun(b) == b.br = b.bw

RenderOverrun(b) == b.lr = b.lw \/ b.br = b.bw

DetectActiveRender(b, active) ==
  IF b.activity THEN b
  ELSE LET n == b.active_counter + IF active THEN 1 ELSE 0
       IN [b EXCEPT !.active_counter = n, !.activity = n >= ActiveLimit]

(* The new contents of a slot; every other block is one older. *)
Written(contents, write) ==
  [i \in DOMAIN contents |->
     IF i = write THEN 0 ELSE Min({contents[i] + 1, Size})]

InsertBlock(b) == [b EXCEPT !.blocks = Written(@, b.bw),
                            !.spectra = Written(@, b.sw)]

InsertOverruns(b) == RenderOverrun(IncrementWriteIndices(b))

Insert(b, active) ==
  LET c == InsertBlock(DetectActiveRender(IncrementWriteIndices(b), active))
  IN IF InsertOverruns(b) THEN Reset(c) ELSE c

-----------------------------------------------------------------------------
(* PrepareCaptureProcessing() *)

IncrementLowRateReadIndices(b) ==
  [b EXCEPT !.lr = OffsetIndex(LowRateSize, @, -1)]

IncrementReadIndices(b) ==
  IF b.br = b.bw THEN b
  ELSE [b EXCEPT !.br = IncIndex(@), !.sr = DecIndex(@)]

RenderUnderrun(b) == b.lr = b.lw

IntervalEnds(b) == b.excess_counter + 1 >= DetectionInterval

(* The minimum is not renewed after an interval. *)
Mut_AfterDetection(b) ==
  [b EXCEPT !.min_latency = Min({@, BufferLatency(b)}),
            !.excess_counter = IF IntervalEnds(b) THEN 0 ELSE @ + 1]

(* DetectExcessRenderBlocks(): the counters it leaves, and its result. *)
AfterDetection(b) ==
  LET latency == BufferLatency(b)
  IN IF IntervalEnds(b)
     THEN [b EXCEPT !.min_latency = latency, !.excess_counter = 0]
     ELSE [b EXCEPT !.min_latency = Min({@, latency}),
                    !.excess_counter = @ + 1]
ExcessRender(b) ==
  IntervalEnds(b) /\ Min({b.min_latency, BufferLatency(b)}) > MaxExcess

(* The delay is not reduced with the read index. *)
Mut_Underrun(b) == IncrementReadIndices(b)

Underrun(b) ==
  [IncrementReadIndices(b) EXCEPT
     !.delay = IF @ # None /\ @ > 0 THEN @ - 1 ELSE @]

(* SetRenderActivity(): the activity is reported and starts anew. *)
ReportActivity(b) ==
  IF b.activity THEN [b EXCEPT !.active_counter = 0, !.activity = FALSE]
                ELSE b

PrepareEvent(b) == IF ExcessRender(b) THEN "kRenderOverrun"
                   ELSE IF RenderUnderrun(b) THEN "kRenderUnderrun"
                   ELSE "kNone"

PrepareCaptureProcessing(b) ==
  LET c == AfterDetection(b)
      event == PrepareEvent(b)
  IN ReportActivity(
       IF event = "kRenderOverrun" THEN Reset(c)
       ELSE IF event = "kRenderUnderrun" THEN Underrun(c)
       ELSE IncrementReadIndices(IncrementLowRateReadIndices(c)))

-----------------------------------------------------------------------------
(* The total delay AlignFromDelay() may apply. *)
LimitedDelay(total) == Min({MaxDelay, Max({total, 0})})

AlignFromDelay(b, d) ==
  IF b.delay = d THEN b
  ELSE ApplyTotalDelay([b EXCEPT !.delay = d],
                       LimitedDelay(MapDelayToTotalDelay(b, d)))

(* delay_ms / 4: blocks of 4 ms, rounded down. *)
SetAudioBufferDelay(b, delay_ms) == [b EXCEPT !.ext = delay_ms \div 4]
=============================================================================

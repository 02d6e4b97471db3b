---------------------------- MODULE BlockProcessor ----------------------------
(* BlockProcessorImpl of AEC3 (aec3/block_processor.cc) with its             *)
(* RenderDelayBuffer, under calls from EchoCanceller3 in any order.  Both    *)
(* kinds of call come from the capture thread, so a call is one step.        *)
(*                                                                           *)
(*   render_buffer             the RenderDelayBuffer                         *)
(*   estimate                  delay_ of the delay controller, which         *)
(*                             GetDelay() returns                            *)
(*   render_started, capture_started   *_properly_started_                   *)
(*   render_event              render_event_                                 *)
(* and, to state properties,                                                 *)
(*   unread     the blocks inserted since a reset or the last one read       *)
(*   clamped    AlignFromDelay() has last limited the delay                  *)
(*   excess     capture blocks in a row that found more than MaxExcess       *)
(*              unread blocks, with no reset                                 *)
(* The delay estimator is signal processing: when it has an estimate, it is  *)
(* any number of blocks in Estimates.  The delay estimator of the            *)
(* configuration is the internal one (use_external_delay_estimator is FALSE  *)
(* in every configuration that this program builds).                         *)
EXTENDS RenderDelayBuffer

CONSTANTS Estimates,   \* delays in blocks that the delay controller may find
          DelaysMs     \* delays the application may report

ASSUME EstimatesAssumption == Estimates \subseteq Nat /\ DelaysMs \subseteq Nat

VARIABLES render_buffer, estimate, render_started, capture_started,
          render_event, unread, clamped, excess

vars == <<render_buffer, estimate, render_started, capture_started,
          render_event, unread, clamped, excess>>

Init == /\ render_buffer = NewBuffer
        /\ estimate = None
        /\ render_started = FALSE
        /\ capture_started = FALSE
        /\ render_event = "kNone"
        /\ unread = 1
        /\ clamped = FALSE
        /\ excess = 0

(* BufferRender(): the event of an earlier call is overwritten. *)
BufferRender ==
  \E active \in BOOLEAN :
    LET overrun == InsertOverruns(render_buffer)
    IN /\ render_buffer' = Insert(render_buffer, active)
       /\ render_event' = IF overrun THEN "kRenderOverrun" ELSE "kNone"
       /\ render_started' = TRUE
       /\ unread' = IF overrun THEN 1 ELSE unread + 1
       /\ clamped' = (clamped /\ ~ overrun)
       /\ excess' = IF overrun THEN 0 ELSE excess
       /\ UNCHANGED <<estimate, capture_started>>

(* ProcessCapture() before any render block: returns at once. *)
CaptureTooEarly == ~ render_started /\ UNCHANGED vars

(* delay_ of the controller after the resets of ProcessCapture(). *)
KnownEstimate(event, first) ==
  IF \/ first
     \/ render_event = "kRenderOverrun"
     \/ event = "kRenderUnderrun"
  THEN None ELSE estimate

(* The buffer as GetDelay() finds it. *)
Prepared(first) ==
  PrepareCaptureProcessing(IF first THEN Reset(render_buffer)
                                    ELSE render_buffer)
Aligned(b, d) == IF d = None THEN b ELSE AlignFromDelay(b, d)

Clamps(b, d) == MapDelayToTotalDelay(b, d) > MaxDelay

(* The rest of ProcessCapture(), up to the echo remover. *)
ProcessCapture ==
  /\ render_started
  /\ LET first == ~ capture_started
         b == IF first THEN Reset(render_buffer) ELSE render_buffer
         event == PrepareEvent(b)
         p == Prepared(first)
         known == KnownEstimate(event, first)
     IN /\ \E d \in Estimates \cup {known} :
             /\ estimate' = d
             /\ render_buffer' = Aligned(p, d)
             /\ clamped' = IF d # None /\ d # p.delay THEN Clamps(p, d)
                           ELSE /\ clamped
                                /\ ~ first
                                /\ event # "kRenderOverrun"
        /\ unread' = IF event = "kRenderOverrun" THEN 1
                     ELSE IF event = "kRenderUnderrun" THEN 0
                     ELSE IF first THEN 0 ELSE unread - 1
        /\ excess' = IF first \/ event = "kRenderOverrun" THEN 0
                     ELSE IF BufferLatency(b) > MaxExcess THEN excess + 1
                     ELSE 0
  /\ capture_started' = TRUE
  /\ render_event' = "kNone"
  /\ UNCHANGED render_started

SetDelay == \E ms \in DelaysMs :
              /\ render_buffer' = SetAudioBufferDelay(render_buffer, ms)
              /\ UNCHANGED <<estimate, render_started, capture_started,
                             render_event, unread, clamped, excess>>

Next == BufferRender \/ CaptureTooEarly \/ ProcessCapture \/ SetDelay

Spec == Init /\ [][Next]_vars

-----------------------------------------------------------------------------
(* Properties *)

(* Types: the indices are inside their buffers, and the counters inside    *)
(* their limits.                                                           *)
TypeOK ==
  /\ LET b == render_buffer
     IN /\ {b.bw, b.br, b.sw, b.sr} \subseteq 0 .. Size - 1
        /\ {b.lw, b.lr} \subseteq 0 .. LowRateSize - 1
        /\ DOMAIN b.blocks = 0 .. Size - 1
        /\ DOMAIN b.spectra = 0 .. Size - 1
        /\ b.delay \in Int \cup {None}
        /\ b.ext \in Nat \cup {None}
        /\ b.min_latency \in 0 .. LowRateSize - 1
        /\ b.excess_counter \in 0 .. DetectionInterval - 1
        /\ b.active_counter \in 0 .. ActiveLimit
        /\ b.activity = (b.active_counter = ActiveLimit)
  /\ estimate \in Estimates \cup {None}
  /\ capture_started => render_started

(* Whatever the order of calls, resets and realignments, the echo remover  *)
(* finds in spectra_ (and ffts_) the spectra of the very blocks it finds   *)
(* in blocks_, although the buffers run in opposite directions: the        *)
(* spectrum that is i blocks old belongs to the block i slots back.        *)
SpectraMatchBlocks ==
  LET b == render_buffer
  IN \A i \in 0 .. Size - 1 :
       b.spectra[OffsetIndex(Size, b.sr, i)] =
         b.blocks[OffsetIndex(Size, b.br, - i)]

(* BufferLatency() is exact: the distance of the low-rate indices, taken   *)
(* modulo the buffer, is the number of blocks that were inserted and not   *)
(* yet read, so no unread block is ever overwritten or read twice.         *)
LatencyIsUnread == BufferLatency(render_buffer) = unread

(* Unless the last alignment had to be limited, the echo remover starts    *)
(* from the right block: blocks_.read points to the block that is delay_   *)
(* blocks older than the one the delay estimator has read last, also after *)
(* overruns and underruns.  AlignFromDelay() relies on it when it does     *)
(* nothing because the estimate equals delay_.                             *)
ReadsAlignedBlock ==
  LET b == render_buffer
  IN b.delay # None /\ ~ clamped =>
       b.blocks[b.br] \in {unread + b.delay, Size}

(* DetectExcessRenderBlocks() finds a lasting excess: more than MaxExcess  *)
(* unread blocks survive less than two detection intervals.                *)
ExcessIsBounded == excess < 2 * DetectionInterval
=============================================================================

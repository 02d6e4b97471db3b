---------------------------- MODULE EchoCanceller3 ----------------------------
(* The framing of AEC3 (aec3/echo_canceller3.cc, frame_blocker.cc,           *)
(* block_framer.cc): frames of 160 samples become blocks of 64 for the       *)
(* block processor and frames again.  The render thread hands its frames     *)
(* over in render_transfer_queue_, a SwapQueue (its operations are single    *)
(* steps: see SwapQueueProofs).                                              *)
(*                                                                           *)
(* Samples are counted in chunks of 16, the greatest common divisor of a     *)
(* block and a sub-frame: chunk i of a stream is the number i, and 0 is      *)
(* silence.  The bands and channels of a stream go through the same          *)
(* statements and are left out; so are the saturation flag, the metrics and  *)
(* the linear output, which takes the path of the output.  The echo remover  *)
(* changes a block in place, so a capture chunk stays the chunk it is.       *)
EXTENDS Integers, Sequences

CONSTANTS QueueSize,   \* kRenderTransferQueueSizeFrames
          MaxFrames    \* bound on the frames of each stream

FramesAssumption == QueueSize \in Nat \ {0} /\ MaxFrames \in Nat

Block == 4                     \* kBlockSize / 16
SubFrame == 5                  \* kSubFrameLength / 16
Frame == 2 * SubFrame          \* kFrameSize / 16

VARIABLES queue,          \* render_transfer_queue_
          accepted,       \* render frames the queue has taken
          pc,             \* where the capture thread is in ProcessCapture()
          seen,           \* accepted when ProcessCapture() was called
          captured,       \* capture frames so far
          render_blocker, render_block,    \* render_blocker_, render_block_
          buffered,       \* calls of BufferRender()
          capture_blocker, capture_block,  \* capture_blocker_, capture_block_
          output_framer,  \* output_framer_
          capture         \* the frame that ProcessCapture() works on

render_vars == <<render_blocker, render_block, buffered>>
capture_vars == <<capture_blocker, capture_block, output_framer, capture>>
vars == <<queue, accepted, pc, seen, captured, render_vars, capture_vars>>

Chunks(first, n) == [i \in 1 .. n |-> first + i - 1]
FrameNumber(n) == Chunks(Frame * (n - 1) + 1, Frame)
Silence(n) == [i \in 1 .. n |-> 0]
SubFrameOf(frame, i) == SubSeq(frame, i * SubFrame + 1, (i + 1) * SubFrame)

-----------------------------------------------------------------------------
(* FrameBlocker *)

(* InsertSubFrameAndExtractBlock(): the block, and what stays behind. *)
BlockFrom(buffer, sub_frame) ==
  buffer \o SubSeq(sub_frame, 1, Block - Len(buffer))

RestOf(buffer, sub_frame) ==
  SubSeq(sub_frame, Block - Len(buffer) + 1, SubFrame)

IsBlockAvailable(buffer) == Len(buffer) = Block

-----------------------------------------------------------------------------
(* BlockFramer *)

(* Copies in the wrong order. *)
Mut_SubFrameFrom(buffer, block) ==
  SubSeq(block, 1, SubFrame - Len(buffer)) \o buffer

(* InsertBlockAndExtractSubFrame(): the sub-frame, and what stays behind. *)
SubFrameFrom(buffer, block) ==
  buffer \o SubSeq(block, 1, SubFrame - Len(buffer))
Left(buffer, block) == SubSeq(block, SubFrame - Len(buffer) + 1, Block)

NewFramer == Silence(Block)

-----------------------------------------------------------------------------
Init == /\ queue = <<>> /\ accepted = 0
        /\ pc = "idle" /\ seen = 0 /\ captured = 0
        /\ render_blocker = <<>> /\ render_block = Silence(Block)
        /\ buffered = 0
        /\ capture_blocker = <<>> /\ capture_block = Silence(Block)
        /\ output_framer = NewFramer
        /\ capture = Silence(Frame)

(* AnalyzeRender(): a frame that finds the queue full is lost, and nobody  *)
(* is told.                                                                *)
AnalyzeRender ==
  /\ accepted < MaxFrames
  /\ IF Len(queue) < QueueSize
       THEN /\ queue' = Append(queue, FrameNumber(accepted + 1))
            /\ accepted' = accepted + 1
       ELSE UNCHANGED <<queue, accepted>>
  /\ UNCHANGED <<pc, seen, captured, render_vars, capture_vars>>

ProcessCapture ==
  /\ pc = "idle"
  /\ captured < MaxFrames
  /\ pc' = "empty"
  /\ seen' = accepted
  /\ captured' = captured + 1
  /\ capture' = FrameNumber(captured + 1)
  /\ UNCHANGED <<queue, accepted, render_vars, capture_blocker, capture_block,
                 output_framer>>

(* Forgets the chunks in the blocker. *)
Mut_AfterSubFrame(r, sub_frame) ==
  [blocker |-> RestOf(r.blocker, sub_frame),
   block |-> SubSeq(sub_frame, 1, Block),
   n |-> r.n + 1]

(* BufferRenderFrameContent() twice and BufferRemainingRenderFrameContent(), *)
(* on the render blocker, the last block and the number of blocks.           *)
AfterSubFrame(r, sub_frame) ==
  [blocker |-> RestOf(r.blocker, sub_frame),
   block |-> BlockFrom(r.blocker, sub_frame),
   n |-> r.n + 1]
AfterRemaining(r) ==
  IF IsBlockAvailable(r.blocker)
  THEN [blocker |-> <<>>, block |-> r.blocker, n |-> r.n + 1]
  ELSE r
AfterFrame(r, frame) ==
  AfterRemaining(AfterSubFrame(AfterSubFrame(r, SubFrameOf(frame, 0)),
                               SubFrameOf(frame, 1)))

(* One round of the loop of EmptyRenderQueue(). *)
EmptyRenderQueue ==
  /\ pc = "empty"
  /\ IF queue = <<>>
       THEN pc' = "sub_frame_0" /\ UNCHANGED <<queue, render_vars>>
       ELSE LET r == AfterFrame([blocker |-> render_blocker,
                                 block |-> render_block, n |-> buffered],
                                Head(queue))
            IN /\ UNCHANGED pc
               /\ queue' = Tail(queue)
               /\ render_blocker' = r.blocker
               /\ render_block' = r.block
               /\ buffered' = r.n
  /\ UNCHANGED <<accepted, seen, captured, capture_vars>>

(* ProcessCaptureFrameContent(), which writes over the sub-frame it read. *)
ProcessCaptureFrameContent(i) ==
  LET sub_frame == SubFrameOf(capture, i)
      block == BlockFrom(capture_blocker, sub_frame)
      result == SubFrameFrom(output_framer, block)
  IN /\ capture_block' = block
     /\ capture_blocker' = RestOf(capture_blocker, sub_frame)
     /\ output_framer' = Left(output_framer, block)
     /\ capture' = IF i = 0 THEN result \o SubFrameOf(capture, 1)
                            ELSE SubFrameOf(capture, 0) \o result
     /\ UNCHANGED <<queue, accepted, seen, captured, render_vars>>

ProcessSubFrame0 == /\ pc = "sub_frame_0"
                    /\ pc' = "sub_frame_1"
                    /\ ProcessCaptureFrameContent(0)
ProcessSubFrame1 == /\ pc = "sub_frame_1"
                    /\ pc' = "remaining"
                    /\ ProcessCaptureFrameContent(1)

ProcessRemainingCaptureFrameContent ==
  /\ pc = "remaining"
  /\ pc' = "idle"
  /\ IF IsBlockAvailable(capture_blocker)
       THEN /\ capture_block' = capture_blocker
            /\ capture_blocker' = <<>>
            /\ output_framer' = output_framer \o capture_blocker
       ELSE UNCHANGED <<capture_block, capture_blocker, output_framer>>
  /\ UNCHANGED <<queue, accepted, seen, captured, render_vars, capture>>

(* All the frames of the bound are through. *)
Done == /\ pc = "idle" /\ captured = MaxFrames /\ accepted = MaxFrames
        /\ UNCHANGED vars

Next == \/ AnalyzeRender \/ ProcessCapture \/ EmptyRenderQueue
        \/ ProcessSubFrame0 \/ ProcessSubFrame1
        \/ ProcessRemainingCaptureFrameContent \/ Done

Spec == Init /\ [][Next]_vars

-----------------------------------------------------------------------------
(* Properties *)

(* Types: the queue, the counters and the lengths of the buffers. *)
TypeOK == /\ Len(queue) <= QueueSize
          /\ accepted \in 0 .. MaxFrames /\ captured \in 0 .. MaxFrames
          /\ seen \in 0 .. accepted
          /\ pc \in {"idle", "empty", "sub_frame_0", "sub_frame_1", "remaining"}
          /\ Len(capture) = Frame
          /\ Len(capture_block) = Block /\ Len(render_block) = Block

(* AEC3 delays the capture signal by exactly one block, for ever: frame n  *)
(* comes back as the 160 samples that end one block before its own end,    *)
(* with silence before the first, nothing lost, repeated or reordered.     *)
OutputDelayedByBlock ==
  pc = "idle" /\ captured > 0 =>
    capture = [i \in 1 .. Frame |->
                 LET c == Frame * (captured - 1) + i - Block
                 IN IF c > 0 THEN c ELSE 0]

(* The block processor gets the render frames that the queue accepted as    *)
(* one unbroken stream, though frames arrive while the queue is emptied and  *)
(* a block may lie across two of them.  And it gets them in time: no capture *)
(* block is processed before the render frames that had been handed over     *)
(* when ProcessCapture() was called; at most the last chunks, too few for a  *)
(* block, still wait in the blocker.                                         *)
RenderUnbroken ==
  /\ buffered > 0 => render_block = Chunks(Block * (buffered - 1) + 1, Block)
  /\ pc \in {"sub_frame_0", "sub_frame_1", "remaining"} =>
       Block * (buffered + 1) > Frame * seen
=============================================================================
